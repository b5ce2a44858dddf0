-------------------------- MODULE CraneMotionProofs --------------------------
(***************************************************************************)
(* The safety properties of CraneMotion, for any number of connections,    *)
(* any set of sides and any mix of commands, events and lost links.        *)
(*                                                                         *)
(* TypeOK is proved first; then what a command's label says of its         *)
(* operation (CommandOK); then that motion_mtx is held where it must be    *)
(* and free where it must be (MotionMutex); then that no rope moves        *)
(* unanswered for (MovingRopeAnswered), and that only a one-side "off"     *)
(* lets a hold flag appear in a motion (OnlyOneSideOffMixes).              *)
(***************************************************************************)
EXTENDS CraneMotion, TLAPS

-----------------------------------------------------------------------------
(***************************************************************************)
(* Types of the operators the actions are built from.                      *)
(***************************************************************************)
Errs == {"no", "yes", "rolled"}

DriveOK ==
  /\ vfd \in [Side -> Dir \cup {"stop"}]
  /\ bus \in [Side -> BOOLEAN]
  /\ outages \in Nat
  /\ orphan \in [Side -> SUBSET Causes]

ThreadsOK ==
  /\ pc \in [Thread -> Labels]
  /\ job \in [Client -> Job]

\* A command record is one, for any operation, sides, directions and flags
LEMMA CommandType ==
  ASSUME NEW op \in AllOps \cup {"none"}, NEW S \in SUBSET Side,
         NEW go \in [Side -> Dir], NEW want \in SUBSET Dir
  PROVE  Command(op, S, go, want) \in Job
  BY DEF Command, Job

\* Both sides the same way is a direction for each side
LEMMA BothType ==
  ASSUME NEW d \in Dir
  PROVE  Both(d) \in [Side -> Dir]
  BY DEF Both

\* Setting a local variable of a command changes that variable only
LEMMA JobErr ==
  ASSUME job \in [Client -> Job], NEW c \in Client, NEW e \in Errs
  PROVE  [job EXCEPT ![c].err = e] \in [Client -> Job]
<1>1. [job[c] EXCEPT !.err = e] \in Job
  BY DEF Job, Errs
<1> QED
  BY <1>1, Zenon

\* So does setting any
LEMMA JobAny ==
  ASSUME job \in [Client -> Job], NEW c \in Client, NEW b \in BOOLEAN
  PROVE  [job EXCEPT ![c].any = b] \in [Client -> Job]
<1>1. [job[c] EXCEPT !.any = b] \in Job
  BY DEF Job
<1> QED
  BY <1>1, Zenon

\* So does setting need
LEMMA JobNeed ==
  ASSUME job \in [Client -> Job], NEW c \in Client, NEW N \in SUBSET Side
  PROVE  [job EXCEPT ![c].need = N] \in [Client -> Job]
<1>1. [job[c] EXCEPT !.need = N] \in Job
  BY DEF Job
<1> QED
  BY <1>1, Zenon

\* A correction pass is counted up to two
LEMMA JobPass ==
  ASSUME job \in [Client -> Job], NEW c \in Client, NEW N \in SUBSET Side,
         MorePasses(c)
  PROVE  [job EXCEPT ![c] = [@ EXCEPT !.need = N, !.pass = job[c].pass + 1]]
           \in [Client -> Job]
<1>1. job[c].pass + 1 \in 0..2
  BY DEF Job, MorePasses
<1>2. [job[c] EXCEPT !.need = N, !.pass = job[c].pass + 1] \in Job
  BY <1>1 DEF Job
<1> QED
  BY <1>2, Zenon

\* A stop command keeps the types of what it writes
LEMMA StopSidesType ==
  ASSUME TypeOK, NEW S, StopSides(S)
  PROVE  DriveOK'
  BY DEF TypeOK, DriveOK, StopSides, Dir, Causes

\* So do run commands
LEMMA RunSidesType ==
  ASSUME TypeOK, NEW S, NEW go \in [Side -> Dir], NEW A, RunSides(S, go, A)
  PROVE  DriveOK'
  BY DEF TypeOK, DriveOK, RunSides, Dir, Causes

\* So does going on to another label, returning, and receiving a command
LEMMA GotoType ==
  ASSUME TypeOK, NEW t \in Thread, NEW label \in Labels, Goto(t, label)
  PROVE  pc' \in [Thread -> Labels]
  BY DEF TypeOK, Goto

\* So does returning
LEMMA ReturnType ==
  ASSUME TypeOK, NEW t \in Thread, Return(t)
  PROVE  ThreadsOK'
<1>1. NoJob \in Job
  BY CommandType, BothType DEF NoJob, Dir
<1>2. pc' \in [Thread -> Labels]
  BY GotoType DEF Return, Labels
<1> QED
  BY <1>1, <1>2 DEF TypeOK, ThreadsOK, Return

\* So does receiving a command
LEMMA BeginType ==
  ASSUME TypeOK, NEW c \in Client, NEW j \in Job, NEW label \in Labels,
         Begin(c, j, label)
  PROVE  /\ ThreadsOK'
         /\ DriveOK'
         /\ beat' = "fresh" /\ fired' = FALSE /\ valid' = valid
         /\ scenario' = scenario
<1>1. pc' \in [Thread -> Labels]
  BY GotoType DEF Begin, Thread
<1>2. job' \in [Client -> Job]
  BY DEF Begin, TypeOK
<1> QED
  BY <1>1, <1>2 DEF Begin, Heard, TypeOK, ThreadsOK, DriveOK, drive

\* So does receiving a motion
LEMMA MotionType ==
  ASSUME TypeOK, NEW c \in Client, NEW op \in AllOps, NEW S \in SUBSET Side,
         NEW go \in [Side -> Dir], Motion(c, op, S, go)
  PROVE  TypeOK'
<1>1. Command(op, S, go, {}) \in Job
  BY CommandType
<1>2. "mCheck" \in Labels
  BY DEF Labels
<1> QED
  BY <1>1, <1>2, BeginType
  DEF Motion, TryLock, flags, TypeOK, ThreadsOK, DriveOK

(***************************************************************************)
(* Every step keeps the types.                                             *)
(***************************************************************************)
LEMMA TypeStep == TypeOK /\ [Next]_vars => TypeOK'
<1> SUFFICES ASSUME TypeOK, [Next]_vars
             PROVE  TypeOK'
  OBVIOUS
<1> USE DEF TypeOK, DriveOK, ThreadsOK, Thread
<1>1. ASSUME NEW c \in Client, Refused(c)
      PROVE  TypeOK'
  BY <1>1 
     DEF Refused, Heard, flags, drive
<1>2. ASSUME NEW c \in Client, HoldRenew(c)
      PROVE  TypeOK'
  BY <1>2 
     DEF HoldRenew, Heard, flags, drive
<1>3. ASSUME NEW c \in Client, NEW s \in Side, NEW d \in Dir, HoldOn(c, s, d)
      PROVE  TypeOK'
  <2>1. Command("hold", {s}, Both(d), {d}) \in Job
    BY CommandType, BothType DEF AllOps, Dir
  <2>2. "oneFlags" \in Labels
    BY DEF Labels
  <2> QED
    BY <1>3, <2>1, <2>2, BeginType DEF HoldOn, TryLock, flags
<1>4. ASSUME NEW c \in Client, NEW d \in Dir, HoldOnBoth(c, d)
      PROVE  TypeOK'
  <2>1. Command("hold_both", Side, Both(d), {d}) \in Job
    BY CommandType, BothType DEF AllOps, Dir
  <2>2. "syncRun" \in Labels
    BY DEF Labels
  <2> QED
    BY <1>4, <2>1, <2>2, BeginType DEF HoldOnBoth, TryLock, flags
<1>5. ASSUME NEW c \in Client, NEW s \in Side, NEW d \in Dir, HoldOff(c, s, d)
      PROVE  TypeOK'
  <2>1. Command("off", {s}, Both(d), hold[s] \ {d}) \in Job
    BY CommandType, BothType DEF AllOps, Dir
  <2>2. "oneFlags" \in Labels
    BY DEF Labels
  <2> QED
    BY <1>5, <2>1, <2>2, BeginType DEF HoldOff, flags
<1>6. ASSUME NEW c \in Client, NEW d \in Dir, HoldOffBoth(c, d)
      PROVE  TypeOK'
  <2>1. Command("off_both", Side, Both(d), {d}) \in Job
    BY CommandType, BothType DEF AllOps, Dir
  <2>2. "offStop" \in Labels
    BY DEF Labels
  <2> QED
    BY <1>6, <2>1, <2>2, BeginType DEF HoldOffBoth, flags
<1>7. ASSUME NEW c \in Client, Stop(c)
      PROVE  TypeOK'
  <2>1. Command("stop", Side, Both("up"), {}) \in Job
    BY CommandType, BothType DEF AllOps, Dir
  <2>2. "haoFlags" \in Labels
    BY DEF Labels
  <2> QED
    BY <1>7, <2>1, <2>2, BeginType DEF Stop, flags
<1>8. ASSUME NEW c \in Client, NEW s \in Side, Trim(c, s)
      PROVE  TypeOK'
  <2>1. Command("trim", {s}, Both("up"), {"up"}) \in Job
    BY CommandType, BothType DEF AllOps, Dir
  <2>2. "trimHold" \in Labels
    BY DEF Labels
  <2> QED
    BY <1>8, <2>1, <2>2, BeginType DEF Trim, flags
<1>9. ASSUME NEW c \in Client, RopeMotion(c)
      PROVE  TypeOK'
  BY <1>9, MotionType, BothType 
     DEF RopeMotion, AllOps
<1>10. ASSUME NEW c \in Client, RollCorrect(c)
      PROVE  TypeOK'
  BY <1>10, MotionType 
     DEF RollCorrect, AllOps
<1>11. ASSUME NEW c \in Client, AlignLengths(c)
      PROVE  TypeOK'
  BY <1>11, MotionType, BothType 
     DEF AlignLengths, AllOps, Dir
<1>12. ASSUME NEW c \in Client, SideMeasured(c)
      PROVE  TypeOK'
  BY <1>12, MotionType, BothType 
     DEF SideMeasured, AllOps
<1>13. ASSUME NEW c \in Client, NEW s \in Side, NEW d \in Dir, ManualOn(c, s, d)
      PROVE  TypeOK'
  <2>1. Command("manual", {s}, Both(d), {}) \in Job
    BY CommandType, BothType DEF AllOps, Dir
  <2>2. "manDrive" \in Labels
    BY DEF Labels
  <2> QED
    BY <1>13, <2>1, <2>2, BeginType DEF ManualOn, flags
<1>14. ASSUME NEW c \in Client, NEW s \in Side, ManualOff(c, s)
      PROVE  TypeOK'
  <2>1. Command("manual", {s}, Both("up"), {}) \in Job
    BY CommandType, BothType DEF AllOps, Dir
  <2>2. pc' \in [Thread -> Labels]
    BY <1>14, GotoType DEF ManualOff, Labels, Thread
  <2> QED
    BY <1>14, <2>1, <2>2, StopSidesType
    DEF ManualOff, Heard, flags
<1>15. ASSUME NEW c \in Client, OneFlags(c)
      PROVE  TypeOK'
  BY <1>15, GotoType 
     DEF OneFlags, drive, clock, Labels, Job
<1>16. ASSUME NEW c \in Client, OneDrive(c)
      PROVE  TypeOK'
  <2>1. job[c].go \in [Side -> Dir]
    BY DEF Job
  <2>2. pc' \in [Thread -> Labels]
    BY <1>16, GotoType DEF OneDrive, Labels
  <2>3. DriveOK'
    BY <1>16, <2>1, StopSidesType, RunSidesType, BothType DEF OneDrive, Dir
  <2>4. job' \in [Client -> Job]
    BY <1>16, JobErr DEF OneDrive, Errs
  <2> QED
    BY <1>16, <2>2, <2>3, <2>4 DEF OneDrive, flags, clock
<1>17. ASSUME NEW c \in Client, BothFlags(c)
      PROVE  TypeOK'
  BY <1>17, GotoType 
     DEF BothFlags, drive, clock, Labels, Job
<1>18. ASSUME NEW c \in Client, OffStop(c)
      PROVE  TypeOK'
  <2>1. pc' \in [Thread -> Labels]
    BY <1>18, GotoType DEF OffStop, Labels
  <2>2. DriveOK'
    BY <1>18, StopSidesType DEF OffStop
  <2>3. job' \in [Client -> Job]
    BY <1>18, JobErr DEF OffStop, Errs
  <2> QED
    BY <1>18, <2>1, <2>2, <2>3 DEF OffStop, flags, clock
<1>19. ASSUME NEW c \in Client, OffFlags(c)
      PROVE  TypeOK'
  BY <1>19, GotoType 
     DEF OffFlags, clock, Labels, Cleared, Causes
<1>20. ASSUME NEW c \in Client, ActLoad(c)
      PROVE  TypeOK'
  <2>1. pc' \in [Thread -> Labels]
    BY <1>20, GotoType DEF ActLoad, Labels
  <2>2. job' \in [Client -> Job]
    BY <1>20, JobAny DEF ActLoad, AnyHold
  <2> QED
    BY <1>20, <2>1, <2>2 DEF ActLoad, drive, flags, clock
<1>21. ASSUME NEW c \in Client, ActStore(c)
      PROVE  TypeOK'
  BY <1>21, GotoType, ReturnType 
     DEF ActStore, drive, Labels, Job
<1>22. ASSUME NEW c \in Client, RollStop(c)
      PROVE  TypeOK'
  BY <1>22, GotoType, StopSidesType 
     DEF RollStop, flags, clock, Labels
<1>23. ASSUME NEW c \in Client, RollFlags(c)
      PROVE  TypeOK'
  <2>1. pc' \in [Thread -> Labels]
    BY <1>23, GotoType DEF RollFlags, Labels
  <2>2. job' \in [Client -> Job]
    BY <1>23, JobErr DEF RollFlags, Errs
  <2> QED
    BY <1>23, <2>1, <2>2 DEF RollFlags, clock, Cleared, Causes
<1>24. ASSUME NEW c \in Client, SyncRun(c)
      PROVE  TypeOK'
  <2>1. job[c].go \in [Side -> Dir]
    BY DEF Job
  <2>2. pc' \in [Thread -> Labels]
    BY <1>24, GotoType DEF SyncRun, StartFailed, Labels
  <2>3. DriveOK'
    BY <1>24, <2>1, RunSidesType DEF SyncRun, drive
  <2>4. job' \in [Client -> Job]
    BY <1>24, JobErr DEF SyncRun, StartFailed, Errs
  <2> QED
    BY <1>24, <2>2, <2>3, <2>4 DEF SyncRun, flags, clock
<1>25. ASSUME NEW c \in Client, SyncVerify(c)
      PROVE  TypeOK'
  BY <1>25, GotoType 
     DEF SyncVerify, Verify, drive, flags, clock, Labels
<1>26. ASSUME NEW c \in Client, HoldVerify(c)
      PROVE  TypeOK'
  BY <1>26, GotoType 
     DEF HoldVerify, Verify, drive, flags, clock, Labels
<1>27. ASSUME NEW c \in Client, EmergencyStop(c)
      PROVE  TypeOK'
  <2>1. pc' \in [Thread -> Labels]
    BY <1>27, GotoType DEF EmergencyStop, StartFailed, Labels
  <2>2. DriveOK'
    BY <1>27, StopSidesType DEF EmergencyStop
  <2>3. job' \in [Client -> Job]
    BY <1>27, JobErr DEF EmergencyStop, StartFailed, Errs
  <2> QED
    BY <1>27, <2>1, <2>2, <2>3 DEF EmergencyStop, flags, clock
<1>28. ASSUME NEW c \in Client, MotionRefused(c)
      PROVE  TypeOK'
  BY <1>28, ReturnType 
     DEF MotionRefused, drive, flags, clock
<1>29. ASSUME NEW c \in Client, MotionBegins(c)
      PROVE  TypeOK'
  BY <1>29, GotoType 
     DEF MotionBegins, MotionSetUp, drive, clock, Labels
<1>30. ASSUME NEW c \in Client, SideRun(c)
      PROVE  TypeOK'
  <2>1. job[c].go \in [Side -> Dir]
    BY DEF Job
  <2>2. pc' \in [Thread -> Labels]
    BY <1>30, GotoType DEF SideRun, Labels
  <2>3. DriveOK'
    BY <1>30, <2>1, RunSidesType DEF SideRun
  <2> QED
    BY <1>30, <2>2, <2>3 DEF SideRun, flags, clock
<1>31. ASSUME NEW c \in Client, LoopAbort(c)
      PROVE  TypeOK'
  BY <1>31, GotoType 
     DEF LoopAbort, drive, flags, clock, Labels
<1>32. ASSUME NEW c \in Client, LoopTimeout(c)
      PROVE  TypeOK'
  BY <1>32, GotoType 
     DEF LoopTimeout, drive, flags, clock, Labels
<1>33. ASSUME NEW c \in Client, LoopHardAbort(c)
      PROVE  TypeOK'
  BY <1>33, GotoType 
     DEF LoopHardAbort, drive, flags, clock, Labels
<1>34. ASSUME NEW c \in Client, LoopDone(c)
      PROVE  TypeOK'
  BY <1>34, GotoType 
     DEF LoopDone, drive, flags, clock, Labels
<1>35. ASSUME NEW c \in Client, CorrDone(c)
      PROVE  TypeOK'
  BY <1>35, GotoType 
     DEF CorrDone, drive, flags, clock, Labels
<1>36. ASSUME NEW c \in Client, TrimEnd(c)
      PROVE  TypeOK'
  BY <1>36, GotoType 
     DEF TrimEnd, drive, flags, clock, Labels
<1>37. ASSUME NEW c \in Client, AbortReset(c)
      PROVE  TypeOK'
  BY <1>37, GotoType 
     DEF AbortReset, drive, clock, Labels
<1>38. ASSUME NEW c \in Client, LoopReached(c)
      PROVE  TypeOK'
  BY <1>38, GotoType, StopSidesType 
     DEF LoopReached, flags, clock, Labels
<1>39. ASSUME NEW c \in Client, LoopTaut(c)
      PROVE  TypeOK'
  BY <1>39, GotoType, StopSidesType 
     DEF LoopTaut, flags, clock, Labels
<1>40. ASSUME NEW c \in Client, MotionHardStop(c)
      PROVE  TypeOK'
  BY <1>40, GotoType, StopSidesType 
     DEF MotionHardStop, flags, clock, Labels
<1>41. ASSUME NEW c \in Client, MotionOff(c)
      PROVE  TypeOK'
  BY <1>41, GotoType, StopSidesType 
     DEF MotionOff, flags, clock, Labels
<1>42. ASSUME NEW c \in Client, FineReached(c)
      PROVE  TypeOK'
  BY <1>42, GotoType, StopSidesType 
     DEF FineReached, flags, clock, Labels
<1>43. ASSUME NEW c \in Client, FineAbort(c)
      PROVE  TypeOK'
  BY <1>43, GotoType, StopSidesType 
     DEF FineAbort, flags, clock, Labels
<1>44. ASSUME NEW c \in Client, CorrStop(c)
      PROVE  TypeOK'
  BY <1>44, GotoType, StopSidesType 
     DEF CorrStop, flags, clock, Labels
<1>45. ASSUME NEW c \in Client, NEW s \in Side, LoopSideReached(c, s)
      PROVE  TypeOK'
  BY <1>45, StopSidesType 
     DEF LoopSideReached, flags, clock
<1>46. ASSUME NEW c \in Client, MotionEnd(c)
      PROVE  TypeOK'
  BY <1>46, ReturnType 
     DEF MotionEnd, drive, clock
<1>47. ASSUME NEW c \in Client, FineSkip(c)
      PROVE  TypeOK'
  BY <1>47, GotoType 
     DEF FineSkip, flags, clock, Labels, Causes
<1>48. ASSUME NEW c \in Client, FineBegin(c)
      PROVE  TypeOK'
  <2>1. pc' \in [Thread -> Labels]
    BY <1>48, GotoType DEF FineBegin, Labels
  <2>2. DriveOK'
    BY <1>48, StopSidesType DEF FineBegin
  <2>3. PICK N \in SUBSET Side :
         job' = [job EXCEPT ![c].need = N]
    BY <1>48 DEF FineBegin
  <2>4. job' \in [Client -> Job]
    BY <1>48, <2>3, JobNeed DEF FineBegin
  <2> QED
    BY <1>48, <2>1, <2>2, <2>4 DEF FineBegin, flags, clock
<1>49. ASSUME NEW c \in Client, FineRun(c)
      PROVE  TypeOK'
  <2>1. job[c].go \in [Side -> Dir]
    BY DEF Job
  <2>2. pc' \in [Thread -> Labels]
    BY <1>49, GotoType DEF FineRun, Labels
  <2>3. DriveOK'
    BY <1>49, <2>1, RunSidesType DEF FineRun
  <2> QED
    BY <1>49, <2>2, <2>3 DEF FineRun, flags, clock
<1>50. ASSUME NEW c \in Client, CorrRun(c)
      PROVE  TypeOK'
  <2>1. job[c].go \in [Side -> Dir]
    BY DEF Job
  <2>2. pc' \in [Thread -> Labels]
    BY <1>50, GotoType DEF CorrRun, Labels
  <2>3. DriveOK'
    BY <1>50, <2>1, RunSidesType DEF CorrRun
  <2>4. PICK N \in SUBSET Side :
         job' = [job EXCEPT ![c] = [@ EXCEPT !.need = N, !.pass = job[c].pass + 1]]
    BY <1>50 DEF CorrRun
  <2>5. job' \in [Client -> Job]
    BY <1>50, <2>4, JobPass DEF CorrRun
  <2> QED
    BY <1>50, <2>2, <2>3, <2>5 DEF CorrRun, flags, clock
<1>51. ASSUME NEW c \in Client, TrimHold(c)
      PROVE  TypeOK'
  BY <1>51, GotoType 
     DEF TrimHold, TryLock, drive, flags, Labels
<1>52. ASSUME NEW c \in Client, ManualDrive(c)
      PROVE  TypeOK'
  BY <1>52, ReturnType, RunSidesType 
     DEF ManualDrive, clock, Job
<1>53. ASSUME NEW c \in Client, ManualClear(c)
      PROVE  TypeOK'
  BY <1>53, ReturnType 
     DEF ManualClear, clock, Causes
<1>54. ASSUME NEW t \in Thread, HoldAllOffFlags(t)
      PROVE  TypeOK'
  BY <1>54, GotoType 
     DEF HoldAllOffFlags, drive, clock, Labels
<1>55. ASSUME NEW t \in Thread, HoldAllOffStop(t)
      PROVE  TypeOK'
  BY <1>55, GotoType, StopSidesType 
     DEF HoldAllOffStop, flags, clock, Labels
<1>56. ASSUME NEW t \in Thread, HoldAllOffActive(t)
      PROVE  TypeOK'
  BY <1>56, GotoType, ReturnType 
     DEF HoldAllOffActive, drive, clock, Labels
<1>57. ASSUME NEW t \in Thread, AllMotionOff(t)
      PROVE  TypeOK'
  BY <1>57, StopSidesType, ReturnType 
     DEF AllMotionOff, flags, clock
<1>58. ASSUME HoldLapse
      PROVE  TypeOK'
  BY <1>58, GotoType 
     DEF HoldLapse, drive, flags, clock, Labels, Thread
<1>59. ASSUME HoldGuard
      PROVE  TypeOK'
  BY <1>59, GotoType 
     DEF HoldGuard, drive, flags, clock, Labels, Thread
<1>60. ASSUME WatchdogFires
      PROVE  TypeOK'
  BY <1>60, GotoType 
     DEF WatchdogFires, drive, Labels, Thread
<1>61. ASSUME LeaseAges
      PROVE  TypeOK'
  BY <1>61 
     DEF LeaseAges, drive, flags
<1>62. ASSUME BeatAges
      PROVE  TypeOK'
  BY <1>62 
     DEF BeatAges, drive, flags
<1>63. ASSUME MetersChange
      PROVE  TypeOK'
  BY <1>63 
     DEF MetersChange, drive, flags
<1>64. ASSUME NEW s \in Side, BusFails(s)
      PROVE  TypeOK'
  BY <1>64 
     DEF BusFails, flags, clock
<1>65. ASSUME NEW s \in Side, BusReturns(s)
      PROVE  TypeOK'
  BY <1>65 
     DEF BusReturns, flags, clock
<1>66. CASE UNCHANGED vars
  BY <1>66 DEF vars, drive, flags, clock
<1> QED
  BY <1>1, <1>2, <1>3, <1>4, <1>5, <1>6, <1>7, <1>8, <1>9, <1>10, <1>11,
     <1>12, <1>13, <1>14, <1>15, <1>16, <1>17, <1>18, <1>19, <1>20,
     <1>21, <1>22, <1>23, <1>24, <1>25, <1>26, <1>27, <1>28, <1>29,
     <1>30, <1>31, <1>32, <1>33, <1>34, <1>35, <1>36, <1>37, <1>38,
     <1>39, <1>40, <1>41, <1>42, <1>43, <1>44, <1>45, <1>46, <1>47,
     <1>48, <1>49, <1>50, <1>51, <1>52, <1>53, <1>54, <1>55, <1>56,
     <1>57, <1>58, <1>59, <1>60, <1>61, <1>62, <1>63, <1>64, <1>65,
     <1>66
  DEF Next, ClientStep, Proceed, HoldAllOff, Environment

\* The initial state is of its type
LEMMA TypeInit == Init => TypeOK
<1> SUFFICES ASSUME Init
             PROVE  TypeOK
  OBVIOUS
<1>1. NoJob \in Job
  BY CommandType, BothType DEF NoJob, Dir
<1> QED
  BY <1>1 DEF Init, TypeOK, Dir, Labels

(***************************************************************************)
(* TypeOK, whatever commands arrive and whatever fails.                    *)
(***************************************************************************)
THEOREM TypeCorrect == Spec => []TypeOK
  BY TypeInit, TypeStep, PTL DEF Spec

-----------------------------------------------------------------------------
(***************************************************************************)
(* What the label of a command says of its operation and its sides.        *)
(***************************************************************************)
MotionOps == {"rope", "roll", "align", "side"}
LockOps   == {"hold", "hold_both", "trim"}

Fits(j, label) ==
  /\ j.op \in {"hold_both", "off_both", "rope", "roll", "align"} => j.sides = Side
  /\ j.op = "hold_both" => j.want # {}
  /\ label \in MotionLabels \cup {"mCheck"} => j.op \in MotionOps
  /\ label \in {"mReset", "mHard", "fine", "fineRun", "fineLoop", "corr", "corrLoop"}
       => j.op \in {"rope", "align"}
  /\ label \in SyncLabels => j.op \in {"hold_both", "rope", "roll"}
  /\ label \in {"holdVerify", "bothFlags"} => j.op = "hold_both"
  /\ label \in {"rollStop", "rollFlags"} => j.op \in LockOps
  /\ label \in {"oneFlags", "oneDrive"} => j.op \in {"hold", "trim", "off"}
  /\ label \in {"offStop", "offFlags"} => j.op = "off_both"
  /\ label = "trimHold" => j.op = "trim"

CommandOK ==
  \A c \in Client : /\ Fits(job[c], pc[c])
                    /\ pc[c] = "idle" \/ job[c].op \in scenario.ops

\* A step of a command that sets local variables keeps the command itself
Kept(j, k) == j.op = k.op /\ j.sides = k.sides /\ j.want = k.want
JobKept == \A d \in Client : Kept(job'[d], job[d])

\* Setting err keeps every command what it is
LEMMA ErrKept ==
  ASSUME TypeOK, NEW c \in Client, NEW e \in Errs,
         job' = [job EXCEPT ![c].err = e]
  PROVE  /\ JobKept
         /\ job'[c].err = e
         /\ \A d \in Client : d # c => job'[d] = job[d]
<1>1. \A d \in Client : job[d] \in Job
  BY DEF TypeOK
<1>2. /\ Kept([job[c] EXCEPT !.err = e], job[c])
      /\ [job[c] EXCEPT !.err = e].err = e
  BY <1>1 DEF Job, Kept
<1>3. job'[c] = [job[c] EXCEPT !.err = e]
  BY Zenon DEF TypeOK
<1>4. \A d \in Client : d # c => job'[d] = job[d]
  BY Zenon DEF TypeOK
<1> QED
  BY <1>2, <1>3, <1>4 DEF JobKept, Kept

\* Setting any keeps every command what it is
LEMMA AnyKept ==
  ASSUME TypeOK, NEW c \in Client, NEW b \in BOOLEAN,
         job' = [job EXCEPT ![c].any = b]
  PROVE  /\ JobKept
         /\ job'[c].err = job[c].err
         /\ \A d \in Client : d # c => job'[d] = job[d]
<1>1. \A d \in Client : job[d] \in Job
  BY DEF TypeOK
<1>2. /\ Kept([job[c] EXCEPT !.any = b], job[c])
      /\ [job[c] EXCEPT !.any = b].err = job[c].err
  BY <1>1 DEF Job, Kept
<1>3. job'[c] = [job[c] EXCEPT !.any = b]
  BY Zenon DEF TypeOK
<1>4. \A d \in Client : d # c => job'[d] = job[d]
  BY Zenon DEF TypeOK
<1> QED
  BY <1>2, <1>3, <1>4 DEF JobKept, Kept

\* Setting need keeps every command what it is
LEMMA NeedKept ==
  ASSUME TypeOK, NEW c \in Client, NEW N \in SUBSET Side,
         job' = [job EXCEPT ![c].need = N]
  PROVE  /\ JobKept
         /\ job'[c].need = N
         /\ \A d \in Client : d # c => job'[d] = job[d]
<1>1. \A d \in Client : job[d] \in Job
  BY DEF TypeOK
<1>2. /\ Kept([job[c] EXCEPT !.need = N], job[c])
      /\ [job[c] EXCEPT !.need = N].need = N
  BY <1>1 DEF Job, Kept
<1>3. job'[c] = [job[c] EXCEPT !.need = N]
  BY Zenon DEF TypeOK
<1>4. \A d \in Client : d # c => job'[d] = job[d]
  BY Zenon DEF TypeOK
<1> QED
  BY <1>2, <1>3, <1>4 DEF JobKept, Kept

\* Setting need and pass keeps every command what it is
LEMMA PassKept ==
  ASSUME TypeOK, NEW c \in Client, NEW N \in SUBSET Side,
         job' = [job EXCEPT ![c] = [@ EXCEPT !.need = N, !.pass = job[c].pass + 1]]
  PROVE  /\ JobKept
         /\ job'[c].need = N
         /\ \A d \in Client : d # c => job'[d] = job[d]
<1>1. \A d \in Client : job[d] \in Job
  BY DEF TypeOK
<1>2. /\ Kept([job[c] EXCEPT !.need = N, !.pass = job[c].pass + 1], job[c])
      /\ [job[c] EXCEPT !.need = N, !.pass = job[c].pass + 1].need = N
  BY <1>1 DEF Job, Kept
<1>3. job'[c] = [job[c] EXCEPT !.need = N, !.pass = job[c].pass + 1]
  BY Zenon DEF TypeOK
<1>4. \A d \in Client : d # c => job'[d] = job[d]
  BY Zenon DEF TypeOK
<1> QED
  BY <1>2, <1>3, <1>4 DEF JobKept, Kept

\* Nothing changes for a command: it still fits
LEMMA CommandQuiet ==
  ASSUME CommandOK, \A c \in Client : pc'[c] = pc[c], UNCHANGED <<job, scenario>>
  PROVE  CommandOK'
  BY DEF CommandOK, Fits

\* It goes on to a label that fits it
LEMMA Moved ==
  ASSUME TypeOK, CommandOK, NEW c \in Client, NEW label, Goto(c, label), JobKept,
         scenario' = scenario, pc[c] # "idle", Fits(job[c], label)
  PROVE  CommandOK'
  BY DEF TypeOK, CommandOK, Fits, Goto, JobKept, Kept, Thread

\* It is received
LEMMA Begun ==
  ASSUME TypeOK, CommandOK, NEW c \in Client, NEW j, NEW label,
         Goto(c, label), job' = [job EXCEPT ![c] = j], scenario' = scenario,
         j.op \in scenario.ops, Fits(j, label)
  PROVE  CommandOK'
<1>1. \A d \in Client : /\ d # c => pc'[d] = pc[d] /\ job'[d] = job[d]
                        /\ d = c => pc'[d] = label /\ job'[d] = j
  BY DEF TypeOK, Goto, Thread
<1> QED
  BY <1>1 DEF CommandOK, Fits

\* It returns
LEMMA Returned ==
  ASSUME TypeOK, CommandOK, NEW t \in Thread, Return(t), scenario' = scenario
  PROVE  CommandOK'
<1>1. Fits(NoJob, "idle")
  BY DEF Fits, NoJob, Command, MotionLabels, SyncLabels
<1>2. \A d \in Client : /\ d # t => pc'[d] = pc[d] /\ job'[d] = job[d]
                        /\ d = t => pc'[d] = "idle" /\ job'[d] = NoJob
  BY DEF TypeOK, Return, Goto, Thread
<1> QED
  BY <1>1, <1>2 DEF CommandOK, Fits

\* Any thread goes on to a label that fits every command
LEMMA MovedThread ==
  ASSUME TypeOK, CommandOK, NEW t \in Thread, NEW label, Goto(t, label),
         UNCHANGED <<job, scenario>>, pc[t] # "idle",
         label \in {"haoStop", "haoActive", "allOff"}
  PROVE  CommandOK'
  BY DEF TypeOK, CommandOK, Fits, Goto, Thread, MotionLabels, SyncLabels

\* Every step leaves each command at a label that fits it
LEMMA CommandStep == TypeOK /\ CommandOK /\ [Next]_vars => CommandOK'
<1> SUFFICES ASSUME TypeOK, CommandOK, [Next]_vars
             PROVE  CommandOK'
  OBVIOUS
<1> USE ThreadAssumption DEF Thread
<1>1. ASSUME NEW c \in Client, Refused(c) \/ HoldRenew(c)
      PROVE  CommandOK'
  BY <1>1, CommandQuiet
  DEF Refused, HoldRenew
<1>2. ASSUME HoldLapse \/ HoldGuard \/ WatchdogFires
      PROVE  CommandOK'
  BY <1>2, CommandQuiet
  DEF HoldLapse, HoldGuard, WatchdogFires, Goto, TypeOK, clock
<1>3. ASSUME Environment
      PROVE  CommandOK'
  BY <1>3, CommandQuiet
  DEF Environment, LeaseAges, BeatAges, MetersChange, BusFails, BusReturns,
      clock
<1>4. ASSUME NEW c \in Client, NEW s \in Side, NEW d \in Dir, HoldOn(c, s, d)
      PROVE  CommandOK'
  BY <1>4, Begun
  DEF HoldOn, Begin, Fits, Command, MotionLabels, SyncLabels
<1>5. ASSUME NEW c \in Client, NEW d \in Dir, HoldOnBoth(c, d)
      PROVE  CommandOK'
  BY <1>5, Begun
  DEF HoldOnBoth, Begin, Fits, Command, MotionLabels, SyncLabels
<1>6. ASSUME NEW c \in Client, NEW s \in Side, NEW d \in Dir, HoldOff(c, s, d)
      PROVE  CommandOK'
  BY <1>6, Begun
  DEF HoldOff, Begin, Fits, Command, MotionLabels, SyncLabels
<1>7. ASSUME NEW c \in Client, NEW d \in Dir, HoldOffBoth(c, d)
      PROVE  CommandOK'
  BY <1>7, Begun
  DEF HoldOffBoth, Begin, Fits, Command, MotionLabels, SyncLabels
<1>8. ASSUME NEW c \in Client, Stop(c)
      PROVE  CommandOK'
  BY <1>8, Begun
  DEF Stop, Begin, Fits, Command, MotionLabels, SyncLabels
<1>9. ASSUME NEW c \in Client, NEW s \in Side, Trim(c, s)
      PROVE  CommandOK'
  BY <1>9, Begun
  DEF Trim, Begin, Fits, Command, MotionLabels, SyncLabels
<1>10. ASSUME NEW c \in Client, NEW s \in Side, NEW d \in Dir, ManualOn(c, s, d)
      PROVE  CommandOK'
  BY <1>10, Begun
  DEF ManualOn, Begin, Fits, Command, MotionLabels, SyncLabels
<1>11. ASSUME NEW c \in Client, NEW s \in Side, ManualOff(c, s)
      PROVE  CommandOK'
  BY <1>11, Begun, CommandQuiet
  DEF ManualOff, Fits, Command, MotionLabels, SyncLabels
<1>12. ASSUME NEW c \in Client,
             RopeMotion(c) \/ RollCorrect(c) \/ AlignLengths(c) \/ SideMeasured(c)
      PROVE  CommandOK'
  BY <1>12, Begun
  DEF RopeMotion, RollCorrect, AlignLengths, SideMeasured, Motion, Begin,
      Fits, Command, MotionOps, MotionLabels, SyncLabels
<1>13. ASSUME NEW c \in Client, OneFlags(c)
      PROVE  CommandOK'
  BY <1>13, Moved
  DEF OneFlags, Fits, CommandOK, JobKept, Kept, clock, MotionLabels,
      SyncLabels, MotionOps, IsMotion
<1>14. ASSUME NEW c \in Client, BothFlags(c)
      PROVE  CommandOK'
  BY <1>14, Moved
  DEF BothFlags, Fits, CommandOK, JobKept, Kept, clock, MotionLabels,
      SyncLabels, MotionOps, IsMotion
<1>15. ASSUME NEW c \in Client, OffFlags(c)
      PROVE  CommandOK'
  BY <1>15, Moved
  DEF OffFlags, Fits, CommandOK, JobKept, Kept, clock, MotionLabels,
      SyncLabels, MotionOps, IsMotion
<1>16. ASSUME NEW c \in Client, RollStop(c)
      PROVE  CommandOK'
  BY <1>16, Moved
  DEF RollStop, Fits, CommandOK, JobKept, Kept, clock, MotionLabels,
      SyncLabels, MotionOps, IsMotion
<1>17. ASSUME NEW c \in Client, SyncVerify(c)
      PROVE  CommandOK'
  BY <1>17, Moved
  DEF SyncVerify, Verify, Fits, CommandOK, JobKept, Kept, clock,
      MotionLabels, SyncLabels, MotionOps, IsMotion
<1>18. ASSUME NEW c \in Client, HoldVerify(c)
      PROVE  CommandOK'
  BY <1>18, Moved
  DEF HoldVerify, Verify, Fits, CommandOK, JobKept, Kept, clock,
      MotionLabels, SyncLabels, MotionOps, IsMotion
<1>19. ASSUME NEW c \in Client, MotionBegins(c)
      PROVE  CommandOK'
  BY <1>19, Moved
  DEF MotionBegins, MotionSetUp, Fits, CommandOK, JobKept, Kept, clock,
      MotionLabels, SyncLabels, MotionOps, IsMotion
<1>20. ASSUME NEW c \in Client, SideRun(c)
      PROVE  CommandOK'
  BY <1>20, Moved
  DEF SideRun, Fits, CommandOK, JobKept, Kept, clock, MotionLabels,
      SyncLabels, MotionOps, IsMotion
<1>21. ASSUME NEW c \in Client, LoopAbort(c)
      PROVE  CommandOK'
  BY <1>21, Moved
  DEF LoopAbort, InLoop, Fits, CommandOK, JobKept, Kept, clock,
      MotionLabels, SyncLabels, MotionOps, IsMotion
<1>22. ASSUME NEW c \in Client, AbortReset(c)
      PROVE  CommandOK'
  BY <1>22, Moved
  DEF AbortReset, Fits, CommandOK, JobKept, Kept, clock, MotionLabels,
      SyncLabels, MotionOps, IsMotion
<1>23. ASSUME NEW c \in Client, LoopTimeout(c)
      PROVE  CommandOK'
  BY <1>23, Moved
  DEF LoopTimeout, InLoop, Fits, CommandOK, JobKept, Kept, clock,
      MotionLabels, SyncLabels, MotionOps, IsMotion
<1>24. ASSUME NEW c \in Client, LoopHardAbort(c)
      PROVE  CommandOK'
  BY <1>24, Moved
  DEF LoopHardAbort, InLoop, Fits, CommandOK, JobKept, Kept, clock,
      MotionLabels, SyncLabels, MotionOps, IsMotion
<1>25. ASSUME NEW c \in Client, LoopReached(c)
      PROVE  CommandOK'
  BY <1>25, Moved
  DEF LoopReached, InLoop, Fits, CommandOK, JobKept, Kept, clock,
      MotionLabels, SyncLabels, MotionOps, IsMotion
<1>26. ASSUME NEW c \in Client, LoopTaut(c)
      PROVE  CommandOK'
  BY <1>26, Moved
  DEF LoopTaut, InLoop, Fits, CommandOK, JobKept, Kept, clock, MotionLabels,
      SyncLabels, MotionOps, IsMotion
<1>27. ASSUME NEW c \in Client, LoopDone(c)
      PROVE  CommandOK'
  BY <1>27, Moved
  DEF LoopDone, InLoop, Fits, CommandOK, JobKept, Kept, clock, MotionLabels,
      SyncLabels, MotionOps, IsMotion
<1>28. ASSUME NEW c \in Client, MotionHardStop(c)
      PROVE  CommandOK'
  BY <1>28, Moved
  DEF MotionHardStop, Fits, CommandOK, JobKept, Kept, clock, MotionLabels,
      SyncLabels, MotionOps, IsMotion
<1>29. ASSUME NEW c \in Client, MotionOff(c)
      PROVE  CommandOK'
  BY <1>29, Moved
  DEF MotionOff, Fits, CommandOK, JobKept, Kept, clock, MotionLabels,
      SyncLabels, MotionOps, IsMotion
<1>30. ASSUME NEW c \in Client, FineSkip(c)
      PROVE  CommandOK'
  BY <1>30, Moved
  DEF FineSkip, Fits, CommandOK, JobKept, Kept, clock, MotionLabels,
      SyncLabels, MotionOps, IsMotion
<1>31. ASSUME NEW c \in Client, FineRun(c)
      PROVE  CommandOK'
  BY <1>31, Moved
  DEF FineRun, Fits, CommandOK, JobKept, Kept, clock, MotionLabels,
      SyncLabels, MotionOps, IsMotion
<1>32. ASSUME NEW c \in Client, FineReached(c)
      PROVE  CommandOK'
  BY <1>32, Moved
  DEF FineReached, Fits, CommandOK, JobKept, Kept, clock, MotionLabels,
      SyncLabels, MotionOps, IsMotion
<1>33. ASSUME NEW c \in Client, FineAbort(c)
      PROVE  CommandOK'
  BY <1>33, Moved
  DEF FineAbort, Fits, CommandOK, JobKept, Kept, clock, MotionLabels,
      SyncLabels, MotionOps, IsMotion
<1>34. ASSUME NEW c \in Client, CorrStop(c)
      PROVE  CommandOK'
  BY <1>34, Moved
  DEF CorrStop, Fits, CommandOK, JobKept, Kept, clock, MotionLabels,
      SyncLabels, MotionOps, IsMotion
<1>35. ASSUME NEW c \in Client, CorrDone(c)
      PROVE  CommandOK'
  BY <1>35, Moved
  DEF CorrDone, Fits, CommandOK, JobKept, Kept, clock, MotionLabels,
      SyncLabels, MotionOps, IsMotion
<1>36. ASSUME NEW c \in Client, TrimHold(c)
      PROVE  CommandOK'
  BY <1>36, Moved
  DEF TrimHold, Fits, CommandOK, JobKept, Kept, clock, MotionLabels,
      SyncLabels, MotionOps, IsMotion
<1>37. ASSUME NEW c \in Client, TrimEnd(c)
      PROVE  CommandOK'
  BY <1>37, Moved
  DEF TrimEnd, Fits, CommandOK, JobKept, Kept, clock, MotionLabels,
      SyncLabels, MotionOps, IsMotion
<1>38. ASSUME NEW c \in Client, OneDrive(c)
      PROVE  CommandOK'
  <2>1. JobKept
    BY <1>38, ErrKept DEF OneDrive, Errs
  <2> QED
    BY <1>38, <2>1, Moved
    DEF OneDrive, Fits, CommandOK, JobKept, Kept, clock, MotionLabels,
        SyncLabels, MotionOps, IsMotion
<1>39. ASSUME NEW c \in Client, OffStop(c)
      PROVE  CommandOK'
  <2>1. JobKept
    BY <1>39, ErrKept DEF OffStop, Errs
  <2> QED
    BY <1>39, <2>1, Moved
    DEF OffStop, Fits, CommandOK, JobKept, Kept, clock, MotionLabels,
        SyncLabels, MotionOps, IsMotion
<1>40. ASSUME NEW c \in Client, ActLoad(c)
      PROVE  CommandOK'
  <2>1. JobKept
    BY <1>40, AnyKept DEF ActLoad, AnyHold
  <2> QED
    BY <1>40, <2>1, Moved
    DEF ActLoad, Fits, CommandOK, JobKept, Kept, clock, MotionLabels,
        SyncLabels, MotionOps, IsMotion
<1>41. ASSUME NEW c \in Client, RollFlags(c)
      PROVE  CommandOK'
  <2>1. JobKept
    BY <1>41, ErrKept DEF RollFlags, Errs
  <2> QED
    BY <1>41, <2>1, Moved
    DEF RollFlags, Fits, CommandOK, JobKept, Kept, clock, MotionLabels,
        SyncLabels, MotionOps, IsMotion
<1>42. ASSUME NEW c \in Client, SyncRun(c)
      PROVE  CommandOK'
  <2>1. JobKept
    BY <1>42, ErrKept DEF SyncRun, StartFailed, Errs, JobKept, Kept
  <2> QED
    BY <1>42, <2>1, Moved
    DEF SyncRun, StartFailed, Fits, CommandOK, JobKept, Kept, clock,
        MotionLabels, SyncLabels, MotionOps, IsMotion
<1>43. ASSUME NEW c \in Client, EmergencyStop(c)
      PROVE  CommandOK'
  <2>1. JobKept
    BY <1>43, ErrKept DEF EmergencyStop, StartFailed, Errs, JobKept, Kept
  <2> QED
    BY <1>43, <2>1, Moved
    DEF EmergencyStop, StartFailed, Fits, CommandOK, JobKept, Kept, clock,
        MotionLabels, SyncLabels, MotionOps, IsMotion
<1>44. ASSUME NEW c \in Client, FineBegin(c)
      PROVE  CommandOK'
  <2>1. PICK N \in SUBSET Side :
         job' = [job EXCEPT ![c].need = N]
    BY <1>44 DEF FineBegin
  <2>2. JobKept
    BY <1>44, <2>1, NeedKept DEF FineBegin
  <2> QED
    BY <1>44, <2>2, Moved
    DEF FineBegin, Fits, CommandOK, JobKept, Kept, clock, MotionLabels,
        SyncLabels, MotionOps, IsMotion
<1>45. ASSUME NEW c \in Client, CorrRun(c)
      PROVE  CommandOK'
  <2>1. PICK N \in SUBSET Side :
         job' = [job EXCEPT ![c] = [@ EXCEPT !.need = N, !.pass = job[c].pass + 1]]
    BY <1>45 DEF CorrRun
  <2>2. JobKept
    BY <1>45, <2>1, PassKept DEF CorrRun
  <2> QED
    BY <1>45, <2>2, Moved
    DEF CorrRun, Fits, CommandOK, JobKept, Kept, clock, MotionLabels,
        SyncLabels, MotionOps, IsMotion
<1>46. ASSUME NEW c \in Client, ActStore(c)
      PROVE  CommandOK'
  BY <1>46, Moved, Returned
  DEF ActStore, Locks, LockOps, Fits, CommandOK, JobKept, Kept, clock,
      MotionLabels, SyncLabels, MotionOps, IsMotion
<1>47. ASSUME NEW c \in Client,
             MotionRefused(c) \/ MotionEnd(c) \/ ManualDrive(c) \/ ManualClear(c)
      PROVE  CommandOK'
  BY <1>47, Returned
  DEF MotionRefused, MotionEnd, ManualDrive, ManualClear, clock, Thread
<1>48. ASSUME NEW c \in Client, NEW s \in Side, LoopSideReached(c, s)
      PROVE  CommandOK'
  BY <1>48, CommandQuiet
  DEF LoopSideReached, clock
<1>49. ASSUME NEW t \in Thread, HoldAllOff(t)
      PROVE  CommandOK'
  BY <1>49, MovedThread, Returned
  DEF HoldAllOff, HoldAllOffFlags, HoldAllOffStop, HoldAllOffActive,
      AllMotionOff, clock
<1>50. CASE UNCHANGED vars
  BY <1>50 DEF vars, drive, flags, clock, CommandOK, Kept
<1> QED
  BY <1>1, <1>2, <1>3, <1>4, <1>5, <1>6, <1>7, <1>8, <1>9, <1>10, <1>11,
     <1>12, <1>13, <1>14, <1>15, <1>16, <1>17, <1>18, <1>19, <1>20,
     <1>21, <1>22, <1>23, <1>24, <1>25, <1>26, <1>27, <1>28, <1>29,
     <1>30, <1>31, <1>32, <1>33, <1>34, <1>35, <1>36, <1>37, <1>38,
     <1>39, <1>40, <1>41, <1>42, <1>43, <1>44, <1>45, <1>46, <1>47,
     <1>48, <1>49, <1>50
  DEF Next, ClientStep, Proceed, HoldAllOff, Environment

\* No command at first: all fit
LEMMA CommandInit == Init => CommandOK
  BY DEF Init, CommandOK, Fits, NoJob, Command, MotionLabels, SyncLabels, Thread

\* Whatever is interleaved, a client thread is only ever at labels of the command it
\* executes, with its sides, directions and flags unchanged since it was received:
\* dispatch runs one handler per thread to its end
THEOREM CommandCorrect == Spec => []CommandOK
  BY TypeCorrect, CommandInit, CommandStep, PTL DEF Spec

-----------------------------------------------------------------------------
(***************************************************************************)
(* motion_mtx.                                                             *)
(***************************************************************************)
\* The part of a command that runs under the lock, by its operation and label
Guarded(op, label) ==
  \/ label \in MotionLabels \cup SyncLabels \cup {"mCheck", "rollStop", "rollFlags"}
  \/ label \in {"oneFlags", "oneDrive", "actLoad", "actStore"} /\ op \in LockOps

\* Protected, as a predicate on operation and label alone
LEMMA ProtectedGuarded ==
  \A c : Protected(c) <=> Guarded(job[c].op, pc[c])
  BY DEF Protected, Guarded, Locks, LockOps

\* Only c moves; it keeps, takes or frees the lock as its label asks for
LEMMA MutexOne ==
  ASSUME TypeOK, MotionMutex, NEW c \in Client,
         \A d \in Client : d # c => pc'[d] = pc[d] /\ job'[d].op = job[d].op,
         \/ /\ lock' = lock
            /\ Guarded(job'[c].op, pc'[c]) <=> Guarded(job[c].op, pc[c])
         \/ lock = NoOne /\ lock' = c /\ Guarded(job'[c].op, pc'[c])
         \/ /\ lock' = NoOne
            /\ Guarded(job[c].op, pc[c]) /\ ~Guarded(job'[c].op, pc'[c])
  PROVE  MotionMutex'
<1> USE ThreadAssumption
<1>1. \A d \in Client : Guarded(job[d].op, pc[d]) => lock = d
  BY ProtectedGuarded DEF MotionMutex
<1>2. lock # NoOne => lock \in Client /\ Guarded(job[lock].op, pc[lock])
  BY ProtectedGuarded DEF MotionMutex, TypeOK
<1>3. \A d \in Client : d # c =>
        (Guarded(job'[d].op, pc'[d]) <=> Guarded(job[d].op, pc[d]))
  OBVIOUS
<1>4. \A d \in Client : Guarded(job'[d].op, pc'[d]) => lock' = d
  BY <1>1, <1>2, <1>3
<1>5. lock' # NoOne => Guarded(job'[lock'].op, pc'[lock'])
  BY <1>1, <1>2, <1>3
<1>6. \A d : Protected(d)' <=> Guarded(job'[d].op, pc'[d])
  BY DEF Protected, Guarded, Locks, LockOps
<1> QED
  BY <1>4, <1>5, <1>6 DEF MotionMutex

\* No command moves: nothing to show
LEMMA MutexQuiet ==
  ASSUME MotionMutex, TypeOK, \A c \in Client : pc'[c] = pc[c], UNCHANGED <<job, lock>>
  PROVE  MotionMutex'
  BY DEF MotionMutex, Protected, Locks, TypeOK

\* A command is received: it takes the lock, ...
LEMMA MutexTaken ==
  ASSUME TypeOK, MotionMutex, NEW c \in Client, NEW j, NEW label,
         Begin(c, j, label), lock = NoOne, lock' = c, Guarded(j.op, label)
  PROVE  MotionMutex'
  BY MutexOne DEF TypeOK, Begin, Ready, Goto, Thread

\* ... or it does without
LEMMA MutexBegun ==
  ASSUME TypeOK, MotionMutex, NEW c \in Client, NEW j, NEW label,
         Begin(c, j, label), lock' = lock, ~Guarded(j.op, label)
  PROVE  MotionMutex'
<1>1. ~Guarded(job[c].op, pc[c])
  BY DEF Begin, Ready, Guarded, MotionLabels, SyncLabels
<1> QED
  BY <1>1, MutexOne DEF TypeOK, Begin, Goto, Thread

\* A command goes on, on the same side of the lock, ...
LEMMA MutexMoved ==
  ASSUME TypeOK, MotionMutex, NEW c \in Client, NEW label, Goto(c, label), JobKept,
         lock' = lock, Guarded(job[c].op, label) <=> Guarded(job[c].op, pc[c])
  PROVE  MotionMutex'
  BY MutexOne DEF TypeOK, Goto, Thread, JobKept, Kept

\* ... taking it, ...
LEMMA MutexMovedIn ==
  ASSUME TypeOK, MotionMutex, NEW c \in Client, NEW label, Goto(c, label),
         UNCHANGED job, lock = NoOne, lock' = c, Guarded(job[c].op, label)
  PROVE  MotionMutex'
  BY MutexOne DEF TypeOK, Goto, Thread

\* ... or freeing it
LEMMA MutexMovedOut ==
  ASSUME TypeOK, MotionMutex, NEW c \in Client, NEW label, Goto(c, label),
         UNCHANGED job, lock' = NoOne, Guarded(job[c].op, pc[c]),
         ~Guarded(job[c].op, label)
  PROVE  MotionMutex'
  BY MutexOne DEF TypeOK, Goto, Thread

\* A command returns and frees it
LEMMA MutexFreed ==
  ASSUME TypeOK, MotionMutex, NEW c \in Client, Return(c), lock' = NoOne,
         Guarded(job[c].op, pc[c])
  PROVE  MotionMutex'
<1>1. \A d \in Client : /\ d # c => pc'[d] = pc[d] /\ job'[d] = job[d]
                        /\ d = c => pc'[d] = "idle"
  BY DEF TypeOK, Return, Goto, Thread
<1>2. ~Guarded(job'[c].op, pc'[c])
  BY <1>1 DEF Guarded, MotionLabels, SyncLabels
<1> QED
  BY <1>1, <1>2, MutexOne

\* Any thread returns from, or goes on within, what needs no lock
LEMMA MutexReturned ==
  ASSUME TypeOK, MotionMutex, NEW t \in Thread, Return(t), lock' = lock,
         t \in Client => ~Guarded(job[t].op, pc[t])
  PROVE  MotionMutex'
<1>1. \A d \in Client : /\ d # t => pc'[d] = pc[d] /\ job'[d] = job[d]
                        /\ d = t => pc'[d] = "idle"
  BY DEF TypeOK, Return, Goto, Thread
<1>2. CASE t \in Client
  <2>1. ~Guarded(job'[t].op, pc'[t])
    BY <1>1, <1>2 DEF Guarded, MotionLabels, SyncLabels
  <2> QED
    BY <1>1, <1>2, <2>1, MutexOne
<1>3. CASE t \notin Client
  BY <1>1, <1>3, MutexOne DEF MotionMutex, Protected, Locks, TypeOK
<1> QED
  BY <1>2, <1>3

\* hold_all_off goes on within what needs no lock
LEMMA MutexThread ==
  ASSUME TypeOK, MotionMutex, NEW t \in Thread, NEW label, Goto(t, label),
         UNCHANGED <<job, lock>>,
         pc[t] \in {"haoFlags", "haoStop", "haoActive"},
         label \in {"haoStop", "haoActive", "allOff"}
  PROVE  MotionMutex'
  BY DEF TypeOK, Goto, Thread, MotionMutex, Protected, Locks, MotionLabels, SyncLabels

\* Every step keeps lock and commands agreed
LEMMA MutexStep ==
  TypeOK /\ CommandOK /\ MotionMutex /\ [Next]_vars => MotionMutex'
<1> SUFFICES ASSUME TypeOK, CommandOK, MotionMutex, [Next]_vars
             PROVE  MotionMutex'
  OBVIOUS
<1> USE ThreadAssumption DEF Thread, drive, flags, clock
<1>1. ASSUME NEW c \in Client, Refused(c) \/ HoldRenew(c)
      PROVE  MotionMutex'
  BY <1>1, MutexQuiet
  DEF Refused, HoldRenew
<1>2. ASSUME HoldLapse \/ HoldGuard \/ WatchdogFires
      PROVE  MotionMutex'
  BY <1>2, MutexQuiet
  DEF HoldLapse, HoldGuard, WatchdogFires, Goto, TypeOK
<1>3. ASSUME Environment
      PROVE  MotionMutex'
  BY <1>3, MutexQuiet
  DEF Environment, LeaseAges, BeatAges, MetersChange, BusFails, BusReturns
<1>4. ASSUME NEW c \in Client, NEW s \in Side, NEW d \in Dir, HoldOn(c, s, d)
      PROVE  MotionMutex'
  BY <1>4, MutexTaken
  DEF HoldOn, TryLock, Command, Guarded, MotionLabels, SyncLabels, LockOps
<1>5. ASSUME NEW c \in Client, NEW d \in Dir, HoldOnBoth(c, d)
      PROVE  MotionMutex'
  BY <1>5, MutexTaken
  DEF HoldOnBoth, TryLock, Command, Guarded, MotionLabels, SyncLabels,
      LockOps
<1>6. ASSUME NEW c \in Client,
             RopeMotion(c) \/ RollCorrect(c) \/ AlignLengths(c) \/ SideMeasured(c)
      PROVE  MotionMutex'
  BY <1>6, MutexTaken
  DEF RopeMotion, RollCorrect, AlignLengths, SideMeasured, Motion, TryLock,
      Command, Guarded, MotionLabels, SyncLabels, LockOps
<1>7. ASSUME NEW c \in Client, NEW s \in Side, NEW d \in Dir, HoldOff(c, s, d)
      PROVE  MotionMutex'
  BY <1>7, MutexBegun
  DEF HoldOff, Command, Guarded, MotionLabels, SyncLabels, LockOps
<1>8. ASSUME NEW c \in Client, NEW d \in Dir, HoldOffBoth(c, d)
      PROVE  MotionMutex'
  BY <1>8, MutexBegun
  DEF HoldOffBoth, Command, Guarded, MotionLabels, SyncLabels, LockOps
<1>9. ASSUME NEW c \in Client, Stop(c)
      PROVE  MotionMutex'
  BY <1>9, MutexBegun
  DEF Stop, Command, Guarded, MotionLabels, SyncLabels, LockOps
<1>10. ASSUME NEW c \in Client, NEW s \in Side, Trim(c, s)
      PROVE  MotionMutex'
  BY <1>10, MutexBegun
  DEF Trim, Command, Guarded, MotionLabels, SyncLabels, LockOps
<1>11. ASSUME NEW c \in Client, NEW s \in Side, NEW d \in Dir, ManualOn(c, s, d)
      PROVE  MotionMutex'
  BY <1>11, MutexBegun
  DEF ManualOn, Command, Guarded, MotionLabels, SyncLabels, LockOps
<1>12. ASSUME NEW c \in Client, NEW s \in Side, ManualOff(c, s)
      PROVE  MotionMutex'
  <2>1. ~Guarded(job[c].op, pc[c])
    BY <1>12 DEF ManualOff, Ready, Guarded, MotionLabels, SyncLabels
  <2>2. \A d \in Client : d # c => pc'[d] = pc[d] /\ job'[d] = job[d]
    BY <1>12 DEF ManualOff, Goto, TypeOK
  <2>3. pc'[c] \in {"idle", "manClear"}
    BY <1>12 DEF ManualOff, Ready, Goto, TypeOK
  <2>4. ~Guarded(job'[c].op, pc'[c])
    BY <2>3 DEF Guarded, MotionLabels, SyncLabels
  <2> QED
    BY <1>12, <2>1, <2>2, <2>4, MutexOne DEF ManualOff
<1>13. ASSUME NEW c \in Client, OneFlags(c)
      PROVE  MotionMutex'
  BY <1>13, MutexMoved
  DEF OneFlags, CommandOK, Fits, JobKept, Kept, MotionOps, IsMotion,
      Guarded, MotionLabels, SyncLabels, LockOps
<1>14. ASSUME NEW c \in Client, BothFlags(c)
      PROVE  MotionMutex'
  BY <1>14, MutexMoved
  DEF BothFlags, CommandOK, Fits, JobKept, Kept, MotionOps, IsMotion,
      Guarded, MotionLabels, SyncLabels, LockOps
<1>15. ASSUME NEW c \in Client, OffFlags(c)
      PROVE  MotionMutex'
  BY <1>15, MutexMoved
  DEF OffFlags, CommandOK, Fits, JobKept, Kept, MotionOps, IsMotion,
      Guarded, MotionLabels, SyncLabels, LockOps
<1>16. ASSUME NEW c \in Client, RollStop(c)
      PROVE  MotionMutex'
  BY <1>16, MutexMoved
  DEF RollStop, CommandOK, Fits, JobKept, Kept, MotionOps, IsMotion,
      Guarded, MotionLabels, SyncLabels, LockOps
<1>17. ASSUME NEW c \in Client, SyncVerify(c)
      PROVE  MotionMutex'
  BY <1>17, MutexMoved
  DEF SyncVerify, Verify, CommandOK, Fits, JobKept, Kept, MotionOps,
      IsMotion, Guarded, MotionLabels, SyncLabels, LockOps
<1>18. ASSUME NEW c \in Client, HoldVerify(c)
      PROVE  MotionMutex'
  BY <1>18, MutexMoved
  DEF HoldVerify, Verify, CommandOK, Fits, JobKept, Kept, MotionOps,
      IsMotion, Guarded, MotionLabels, SyncLabels, LockOps
<1>19. ASSUME NEW c \in Client, MotionBegins(c)
      PROVE  MotionMutex'
  BY <1>19, MutexMoved
  DEF MotionBegins, MotionSetUp, CommandOK, Fits, JobKept, Kept, MotionOps,
      IsMotion, Guarded, MotionLabels, SyncLabels, LockOps
<1>20. ASSUME NEW c \in Client, SideRun(c)
      PROVE  MotionMutex'
  BY <1>20, MutexMoved
  DEF SideRun, CommandOK, Fits, JobKept, Kept, MotionOps, IsMotion, Guarded,
      MotionLabels, SyncLabels, LockOps
<1>21. ASSUME NEW c \in Client, LoopAbort(c)
      PROVE  MotionMutex'
  BY <1>21, MutexMoved
  DEF LoopAbort, InLoop, CommandOK, Fits, JobKept, Kept, MotionOps,
      IsMotion, Guarded, MotionLabels, SyncLabels, LockOps
<1>22. ASSUME NEW c \in Client, AbortReset(c)
      PROVE  MotionMutex'
  BY <1>22, MutexMoved
  DEF AbortReset, CommandOK, Fits, JobKept, Kept, MotionOps, IsMotion,
      Guarded, MotionLabels, SyncLabels, LockOps
<1>23. ASSUME NEW c \in Client, LoopTimeout(c)
      PROVE  MotionMutex'
  BY <1>23, MutexMoved
  DEF LoopTimeout, InLoop, CommandOK, Fits, JobKept, Kept, MotionOps,
      IsMotion, Guarded, MotionLabels, SyncLabels, LockOps
<1>24. ASSUME NEW c \in Client, LoopHardAbort(c)
      PROVE  MotionMutex'
  BY <1>24, MutexMoved
  DEF LoopHardAbort, InLoop, CommandOK, Fits, JobKept, Kept, MotionOps,
      IsMotion, Guarded, MotionLabels, SyncLabels, LockOps
<1>25. ASSUME NEW c \in Client, LoopReached(c)
      PROVE  MotionMutex'
  BY <1>25, MutexMoved
  DEF LoopReached, InLoop, CommandOK, Fits, JobKept, Kept, MotionOps,
      IsMotion, Guarded, MotionLabels, SyncLabels, LockOps
<1>26. ASSUME NEW c \in Client, LoopTaut(c)
      PROVE  MotionMutex'
  BY <1>26, MutexMoved
  DEF LoopTaut, InLoop, CommandOK, Fits, JobKept, Kept, MotionOps, IsMotion,
      Guarded, MotionLabels, SyncLabels, LockOps
<1>27. ASSUME NEW c \in Client, LoopDone(c)
      PROVE  MotionMutex'
  BY <1>27, MutexMoved
  DEF LoopDone, InLoop, CommandOK, Fits, JobKept, Kept, MotionOps, IsMotion,
      Guarded, MotionLabels, SyncLabels, LockOps
<1>28. ASSUME NEW c \in Client, MotionHardStop(c)
      PROVE  MotionMutex'
  BY <1>28, MutexMoved
  DEF MotionHardStop, CommandOK, Fits, JobKept, Kept, MotionOps, IsMotion,
      Guarded, MotionLabels, SyncLabels, LockOps
<1>29. ASSUME NEW c \in Client, MotionOff(c)
      PROVE  MotionMutex'
  BY <1>29, MutexMoved
  DEF MotionOff, CommandOK, Fits, JobKept, Kept, MotionOps, IsMotion,
      Guarded, MotionLabels, SyncLabels, LockOps
<1>30. ASSUME NEW c \in Client, FineSkip(c)
      PROVE  MotionMutex'
  BY <1>30, MutexMoved
  DEF FineSkip, CommandOK, Fits, JobKept, Kept, MotionOps, IsMotion,
      Guarded, MotionLabels, SyncLabels, LockOps
<1>31. ASSUME NEW c \in Client, FineRun(c)
      PROVE  MotionMutex'
  BY <1>31, MutexMoved
  DEF FineRun, CommandOK, Fits, JobKept, Kept, MotionOps, IsMotion, Guarded,
      MotionLabels, SyncLabels, LockOps
<1>32. ASSUME NEW c \in Client, FineReached(c)
      PROVE  MotionMutex'
  BY <1>32, MutexMoved
  DEF FineReached, CommandOK, Fits, JobKept, Kept, MotionOps, IsMotion,
      Guarded, MotionLabels, SyncLabels, LockOps
<1>33. ASSUME NEW c \in Client, FineAbort(c)
      PROVE  MotionMutex'
  BY <1>33, MutexMoved
  DEF FineAbort, CommandOK, Fits, JobKept, Kept, MotionOps, IsMotion,
      Guarded, MotionLabels, SyncLabels, LockOps
<1>34. ASSUME NEW c \in Client, CorrStop(c)
      PROVE  MotionMutex'
  BY <1>34, MutexMoved
  DEF CorrStop, CommandOK, Fits, JobKept, Kept, MotionOps, IsMotion,
      Guarded, MotionLabels, SyncLabels, LockOps
<1>35. ASSUME NEW c \in Client, CorrDone(c)
      PROVE  MotionMutex'
  BY <1>35, MutexMoved
  DEF CorrDone, CommandOK, Fits, JobKept, Kept, MotionOps, IsMotion,
      Guarded, MotionLabels, SyncLabels, LockOps
<1>36. ASSUME NEW c \in Client, TrimEnd(c)
      PROVE  MotionMutex'
  BY <1>36, MutexMoved
  DEF TrimEnd, CommandOK, Fits, JobKept, Kept, MotionOps, IsMotion, Guarded,
      MotionLabels, SyncLabels, LockOps
<1>37. ASSUME NEW c \in Client, OneDrive(c)
      PROVE  MotionMutex'
  <2>1. JobKept
    BY <1>37, ErrKept DEF OneDrive, Errs
  <2> QED
    BY <1>37, <2>1, MutexMoved
    DEF OneDrive, CommandOK, Fits, JobKept, Kept, MotionOps, IsMotion,
        Guarded, MotionLabels, SyncLabels, LockOps
<1>38. ASSUME NEW c \in Client, OffStop(c)
      PROVE  MotionMutex'
  <2>1. JobKept
    BY <1>38, ErrKept DEF OffStop, Errs
  <2> QED
    BY <1>38, <2>1, MutexMoved
    DEF OffStop, CommandOK, Fits, JobKept, Kept, MotionOps, IsMotion,
        Guarded, MotionLabels, SyncLabels, LockOps
<1>39. ASSUME NEW c \in Client, ActLoad(c)
      PROVE  MotionMutex'
  <2>1. JobKept
    BY <1>39, AnyKept DEF ActLoad, AnyHold
  <2> QED
    BY <1>39, <2>1, MutexMoved
    DEF ActLoad, CommandOK, Fits, JobKept, Kept, MotionOps, IsMotion,
        Guarded, MotionLabels, SyncLabels, LockOps
<1>40. ASSUME NEW c \in Client, RollFlags(c)
      PROVE  MotionMutex'
  <2>1. JobKept
    BY <1>40, ErrKept DEF RollFlags, Errs
  <2> QED
    BY <1>40, <2>1, MutexMoved
    DEF RollFlags, CommandOK, Fits, JobKept, Kept, MotionOps, IsMotion,
        Guarded, MotionLabels, SyncLabels, LockOps
<1>41. ASSUME NEW c \in Client, SyncRun(c)
      PROVE  MotionMutex'
  <2>1. JobKept
    BY <1>41, ErrKept DEF SyncRun, StartFailed, Errs, JobKept, Kept
  <2> QED
    BY <1>41, <2>1, MutexMoved
    DEF SyncRun, StartFailed, CommandOK, Fits, JobKept, Kept, MotionOps,
        IsMotion, Guarded, MotionLabels, SyncLabels, LockOps
<1>42. ASSUME NEW c \in Client, EmergencyStop(c)
      PROVE  MotionMutex'
  <2>1. JobKept
    BY <1>42, ErrKept DEF EmergencyStop, StartFailed, Errs, JobKept, Kept
  <2> QED
    BY <1>42, <2>1, MutexMoved
    DEF EmergencyStop, StartFailed, CommandOK, Fits, JobKept, Kept,
        MotionOps, IsMotion, Guarded, MotionLabels, SyncLabels,
        LockOps
<1>43. ASSUME NEW c \in Client, FineBegin(c)
      PROVE  MotionMutex'
  <2>1. PICK N \in SUBSET Side :
         job' = [job EXCEPT ![c].need = N]
    BY <1>43 DEF FineBegin
  <2>2. JobKept
    BY <1>43, <2>1, NeedKept DEF FineBegin
  <2> QED
    BY <1>43, <2>2, MutexMoved
    DEF FineBegin, CommandOK, Fits, JobKept, Kept, MotionOps, IsMotion,
        Guarded, MotionLabels, SyncLabels, LockOps
<1>44. ASSUME NEW c \in Client, CorrRun(c)
      PROVE  MotionMutex'
  <2>1. PICK N \in SUBSET Side :
         job' = [job EXCEPT ![c] = [@ EXCEPT !.need = N, !.pass = job[c].pass + 1]]
    BY <1>44 DEF CorrRun
  <2>2. JobKept
    BY <1>44, <2>1, PassKept DEF CorrRun
  <2> QED
    BY <1>44, <2>2, MutexMoved
    DEF CorrRun, CommandOK, Fits, JobKept, Kept, MotionOps, IsMotion,
        Guarded, MotionLabels, SyncLabels, LockOps
<1>45. ASSUME NEW c \in Client, TrimHold(c)
      PROVE  MotionMutex'
  BY <1>45, MutexMoved, MutexMovedIn
  DEF TrimHold, TryLock, CommandOK, Fits, JobKept, Kept, MotionOps,
      IsMotion, Guarded, MotionLabels, SyncLabels, LockOps
<1>46. ASSUME NEW c \in Client, ActStore(c)
      PROVE  MotionMutex'
  BY <1>46, MutexMoved, MutexMovedOut, MutexReturned, MutexFreed
  DEF ActStore, Locks, CommandOK, Fits, JobKept, Kept, MotionOps, IsMotion,
      Guarded, MotionLabels, SyncLabels, LockOps
<1>47. ASSUME NEW c \in Client, MotionRefused(c) \/ MotionEnd(c)
      PROVE  MotionMutex'
  BY <1>47, MutexFreed
  DEF MotionRefused, MotionEnd, Guarded, MotionLabels, SyncLabels, LockOps
<1>48. ASSUME NEW c \in Client, ManualDrive(c) \/ ManualClear(c)
      PROVE  MotionMutex'
  BY <1>48, MutexReturned
  DEF ManualDrive, ManualClear, Guarded, MotionLabels, SyncLabels, LockOps
<1>49. ASSUME NEW c \in Client, NEW s \in Side, LoopSideReached(c, s)
      PROVE  MotionMutex'
  BY <1>49, MutexQuiet
  DEF LoopSideReached
<1>50. ASSUME NEW t \in Thread, HoldAllOff(t)
      PROVE  MotionMutex'
  BY <1>50, MutexThread, MutexReturned
  DEF HoldAllOff, HoldAllOffFlags, HoldAllOffStop, HoldAllOffActive,
      AllMotionOff, Guarded, MotionLabels, SyncLabels, LockOps
<1>51. CASE UNCHANGED vars
  BY <1>51 DEF vars, drive, flags, clock, MotionMutex, Protected, Locks
<1> QED
  BY <1>1, <1>2, <1>3, <1>4, <1>5, <1>6, <1>7, <1>8, <1>9, <1>10, <1>11,
     <1>12, <1>13, <1>14, <1>15, <1>16, <1>17, <1>18, <1>19, <1>20,
     <1>21, <1>22, <1>23, <1>24, <1>25, <1>26, <1>27, <1>28, <1>29,
     <1>30, <1>31, <1>32, <1>33, <1>34, <1>35, <1>36, <1>37, <1>38,
     <1>39, <1>40, <1>41, <1>42, <1>43, <1>44, <1>45, <1>46, <1>47,
     <1>48, <1>49, <1>50, <1>51
  DEF Next, ClientStep, Proceed, HoldAllOff, Environment

\* The lock is free at first and nobody needs it
LEMMA MutexInit == Init => MotionMutex
  BY DEF Init, MotionMutex, Protected, Thread, MotionLabels, SyncLabels

(***************************************************************************)
(* MotionMutex: the lock is held where it must be and free where it must.  *)
(***************************************************************************)
THEOREM MutexCorrect == Spec => []MotionMutex
  BY TypeCorrect, CommandCorrect, MutexInit, MutexStep, PTL DEF Spec

-----------------------------------------------------------------------------
(***************************************************************************)
(* No rope moves unanswered for.                                           *)
(***************************************************************************)
\* A stop leaves its sides at rest or orphaned and the others alone
LEMMA StopSidesEffect ==
  ASSUME TypeOK, NEW S, StopSides(S)
  PROVE  \A r \in Side :
           /\ r \in S => vfd'[r] = "stop" \/ orphan'[r] # {}
           /\ r \notin S => vfd'[r] = vfd[r] /\ orphan'[r] = orphan[r]
  BY DEF StopSides, TypeOK, Running

\* A run command leaves its sides at rest, orphaned, or (its link is up) with
\* somebody answering for them
LEMMA RunSidesEffect ==
  ASSUME TypeOK, NEW S, NEW go, NEW A, RunSides(S, go, A)
  PROVE  \A r \in Side :
           /\ r \in S => \/ vfd'[r] = "stop" \/ orphan'[r] # {}
                         \/ r \in A /\ bus[r]
           /\ r \notin S => vfd'[r] = vfd[r] /\ orphan'[r] = orphan[r]
  BY DEF RunSides, TypeOK

\* InCharge, by a command's label
Charge(label, j, s) ==
  \/ label \in {"haoFlags", "haoStop", "allOff"}
  \/ /\ s \in j.sides
     /\ \/ label \in {"syncVerify", "holdVerify", "bothFlags", "emStop", "offStop",
                      "rollStop", "mLoop", "mReset", "mHard", "mOff", "fine"}
        \/ label \in {"oneFlags", "oneDrive"} /\ j.want = {}
        \/ label \in {"actLoad", "actStore"} /\ j.op \in LockOps /\ j.err = "yes"
        \/ label \in {"fineRun", "fineLoop", "corrLoop"} /\ s \in j.need

\* InCharge, read off the label, operation, sides and flags of a command
LEMMA ChargeInCharge ==
  \A c \in Client : \A s : InCharge(c, s) <=> Charge(pc[c], job[c], s)
  BY DEF InCharge, Charge, Locks, LockOps

\* A step of command c: the others are where they were ...
Others(c) ==
  /\ \A t \in Thread : t # c => pc'[t] = pc[t]
  /\ \A d \in Client : d # c => job'[d] = job[d]

\* ... and a side ends answered for, or is left as it was by one not in charge
Stays(c, r) ==
  \/ vfd'[r] = "stop" \/ orphan'[r] # {} \/ hold'[r] # {} \/ manual'[r]
  \/ Charge(pc'[c], job'[c], r)
  \/ /\ vfd'[r] = vfd[r] /\ orphan'[r] = orphan[r]
     /\ hold'[r] = hold[r] /\ manual'[r] = manual[r]
     /\ ~Charge(pc[c], job[c], r)

\* A step of one command keeps every moving rope answered for, if each side stays so
LEMMA AnsweredOne ==
  ASSUME MovingRopeAnswered, NEW c \in Client, Others(c),
         \A r \in Side : Stays(c, r)
  PROVE  MovingRopeAnswered'
<1> SUFFICES ASSUME NEW r \in Side, (vfd[r] # "stop")', (hold[r] = {})', (~manual[r])',
                    (orphan[r] = {})'
             PROVE  \E t \in Thread : InCharge(t, r)'
  BY DEF MovingRopeAnswered, Running
<1>1. CASE Charge(pc'[c], job'[c], r)
  BY <1>1 DEF Thread, InCharge, Charge, Locks, LockOps
<1>2. CASE ~Charge(pc'[c], job'[c], r)
  <2>1. /\ vfd'[r] = vfd[r] /\ orphan'[r] = orphan[r]
        /\ hold'[r] = hold[r] /\ manual'[r] = manual[r]
        /\ ~Charge(pc[c], job[c], r)
    BY <1>2 DEF Stays
  <2>2. PICK t \in Thread : InCharge(t, r)
    BY <2>1 DEF MovingRopeAnswered, Running
  <2>3. t # c
    BY <2>1, <2>2, ChargeInCharge
  <2> QED
    BY <2>2, <2>3 DEF Others, InCharge, Locks
<1> QED
  BY <1>1, <1>2

\* Nobody moves, and no rope: nothing to show
LEMMA AnsweredQuiet ==
  ASSUME MovingRopeAnswered, UNCHANGED <<vfd, orphan, hold, manual, pc, job>>
  PROVE  MovingRopeAnswered'
  BY DEF MovingRopeAnswered, InCharge, Running, Locks

\* The hold loop and the watchdog only ever take charge of more
LEMMA AnsweredLoop ==
  ASSUME TypeOK, MovingRopeAnswered, UNCHANGED <<vfd, orphan, hold, manual, job>>,
         NEW t \in {HoldLoop, Watchdog}, pc[t] = "idle",
         UNCHANGED pc \/ Goto(t, "haoFlags")
  PROVE  MovingRopeAnswered'
<1> USE ThreadAssumption DEF Thread
<1>1. \A u \in Thread : pc'[u] = pc[u] \/ (u = t /\ pc'[u] = "haoFlags")
  BY DEF Goto, TypeOK
<1>2. \A u \in Thread, s \in Side : InCharge(u, s) => InCharge(u, s)'
  BY <1>1 DEF InCharge, Locks
<1> QED
  BY <1>2 DEF MovingRopeAnswered, Running

\* hold_all_off answers for every side until it has stopped them all
LEMMA AnsweredAllOff ==
  ASSUME TypeOK, MovingRopeAnswered, NEW t \in Thread, HoldAllOff(t)
  PROVE  MovingRopeAnswered'
<1> USE DEF drive, flags
<1>1. CASE HoldAllOffFlags(t)
  <2>1. pc'[t] = "haoStop"
    BY <1>1 DEF HoldAllOffFlags, Goto, TypeOK
  <2> QED
    BY <2>1 DEF MovingRopeAnswered, InCharge
<1>2. CASE HoldAllOffStop(t)
  <2>1. \A r \in Side : vfd'[r] = "stop" \/ orphan'[r] # {}
    BY <1>2, StopSidesEffect DEF HoldAllOffStop
  <2> QED
    BY <2>1 DEF MovingRopeAnswered, Running
<1>3. CASE HoldAllOffActive(t)
  <2>1. \A u \in Thread : u # t => pc'[u] = pc[u]
    BY <1>3 DEF HoldAllOffActive, Return, Goto, TypeOK
  <2>2. \A d \in Client : d # t => job'[d] = job[d]
    BY <1>3 DEF HoldAllOffActive, Return, TypeOK
  <2>3. \A r \in Side : ~InCharge(t, r)
    BY <1>3 DEF HoldAllOffActive, InCharge
  <2>4. \A u \in Thread, r \in Side : InCharge(u, r) => InCharge(u, r)'
    BY <2>1, <2>2, <2>3 DEF InCharge, Locks
  <2> QED
    BY <1>3, <2>4 DEF HoldAllOffActive, MovingRopeAnswered, Running
<1>4. CASE AllMotionOff(t)
  <2>1. \A r \in Side : vfd'[r] = "stop" \/ orphan'[r] # {}
    BY <1>4, StopSidesEffect DEF AllMotionOff
  <2> QED
    BY <2>1 DEF MovingRopeAnswered, Running
<1> QED
  BY <1>1, <1>2, <1>3, <1>4 DEF HoldAllOff

\* Every step leaves every moving rope answered for
LEMMA AnsweredStep ==
  TypeOK /\ CommandOK /\ MovingRopeAnswered /\ [Next]_vars => MovingRopeAnswered'
<1> SUFFICES ASSUME TypeOK, CommandOK, MovingRopeAnswered, [Next]_vars
             PROVE  MovingRopeAnswered'
  OBVIOUS
<1> USE ThreadAssumption DEF Thread, drive, flags
<1>1. ASSUME NEW c \in Client, Refused(c) \/ HoldRenew(c)
      PROVE  MovingRopeAnswered'
  BY <1>1, AnsweredQuiet
  DEF Refused, HoldRenew
<1>2. ASSUME Environment
      PROVE  MovingRopeAnswered'
  BY <1>2, AnsweredQuiet
  DEF Environment, LeaseAges, BeatAges, MetersChange, BusFails, BusReturns
<1>3. ASSUME HoldLapse \/ HoldGuard \/ WatchdogFires
      PROVE  MovingRopeAnswered'
  BY <1>3, AnsweredLoop
  DEF HoldLapse, HoldGuard, WatchdogFires
<1>4. ASSUME NEW c \in Client, NEW s \in Side, NEW d \in Dir, HoldOn(c, s, d)
      PROVE  MovingRopeAnswered'
  <2>1. Others(c)
    BY <1>4
    DEF HoldOn, Others, Begin, Goto, TypeOK
  <2>2. \A r \in Side : Stays(c, r)
    BY <1>4
    DEF HoldOn, Stays, Begin, Ready, Charge
  <2> QED
    BY <2>1, <2>2, AnsweredOne
<1>5. ASSUME NEW c \in Client, NEW d \in Dir, HoldOnBoth(c, d)
      PROVE  MovingRopeAnswered'
  <2>1. Others(c)
    BY <1>5
    DEF HoldOnBoth, Others, Begin, Goto, TypeOK
  <2>2. \A r \in Side : Stays(c, r)
    BY <1>5
    DEF HoldOnBoth, Stays, Begin, Ready, Charge
  <2> QED
    BY <2>1, <2>2, AnsweredOne
<1>6. ASSUME NEW c \in Client, NEW s \in Side, NEW d \in Dir, HoldOff(c, s, d)
      PROVE  MovingRopeAnswered'
  <2>1. Others(c)
    BY <1>6
    DEF HoldOff, Others, Begin, Goto, TypeOK
  <2>2. \A r \in Side : Stays(c, r)
    BY <1>6
    DEF HoldOff, Stays, Begin, Ready, Charge
  <2> QED
    BY <2>1, <2>2, AnsweredOne
<1>7. ASSUME NEW c \in Client, NEW d \in Dir, HoldOffBoth(c, d)
      PROVE  MovingRopeAnswered'
  <2>1. Others(c)
    BY <1>7
    DEF HoldOffBoth, Others, Begin, Goto, TypeOK
  <2>2. \A r \in Side : Stays(c, r)
    BY <1>7
    DEF HoldOffBoth, Stays, Begin, Ready, Charge
  <2> QED
    BY <2>1, <2>2, AnsweredOne
<1>8. ASSUME NEW c \in Client, Stop(c)
      PROVE  MovingRopeAnswered'
  <2>1. Others(c)
    BY <1>8
    DEF Stop, Others, Begin, Goto, TypeOK
  <2>2. \A r \in Side : Stays(c, r)
    BY <1>8
    DEF Stop, Stays, Begin, Ready, Charge
  <2> QED
    BY <2>1, <2>2, AnsweredOne
<1>9. ASSUME NEW c \in Client, NEW s \in Side, Trim(c, s)
      PROVE  MovingRopeAnswered'
  <2>1. Others(c)
    BY <1>9
    DEF Trim, Others, Begin, Goto, TypeOK
  <2>2. \A r \in Side : Stays(c, r)
    BY <1>9
    DEF Trim, Stays, Begin, Ready, Charge
  <2> QED
    BY <2>1, <2>2, AnsweredOne
<1>10. ASSUME NEW c \in Client, NEW s \in Side, NEW d \in Dir, ManualOn(c, s, d)
      PROVE  MovingRopeAnswered'
  <2>1. Others(c)
    BY <1>10
    DEF ManualOn, Others, Begin, Goto, TypeOK
  <2>2. \A r \in Side : Stays(c, r)
    BY <1>10
    DEF ManualOn, Stays, Begin, Ready, Charge, TypeOK
  <2> QED
    BY <2>1, <2>2, AnsweredOne
<1>11. ASSUME NEW c \in Client,
             RopeMotion(c) \/ RollCorrect(c) \/ AlignLengths(c) \/ SideMeasured(c)
      PROVE  MovingRopeAnswered'
  <2>1. PICK op \in AllOps, S \in SUBSET Side, go \in [Side -> Dir] :
         Motion(c, op, S, go)
    BY <1>11, BothType
    DEF RopeMotion, RollCorrect, AlignLengths, SideMeasured, AllOps, Dir
  <2>2. Others(c)
    BY <2>1 DEF Motion, Others, Begin, Goto, TypeOK
  <2>3. \A r \in Side : Stays(c, r)
    BY <2>1 DEF Motion, Stays, Begin, Ready, Charge
  <2> QED
    BY <2>2, <2>3, AnsweredOne
<1>12. ASSUME NEW c \in Client, NEW s \in Side, ManualOff(c, s)
      PROVE  MovingRopeAnswered'
  <2>1. Others(c)
    BY <1>12
    DEF ManualOff, Others, Goto, TypeOK
  <2>2. \A r \in Side : Stays(c, r)
    BY <1>12, StopSidesEffect
    DEF ManualOff, Stays, Ready, Charge
  <2> QED
    BY <2>1, <2>2, AnsweredOne
<1>13. ASSUME NEW c \in Client, OneFlags(c)
      PROVE  MovingRopeAnswered'
  <2>1. Others(c)
    BY <1>13
    DEF OneFlags, Others, Goto, TypeOK
  <2>2. \A r \in Side : Stays(c, r)
    BY <1>13
    DEF OneFlags, Stays, Goto, Charge, TypeOK
  <2> QED
    BY <2>1, <2>2, AnsweredOne
<1>14. ASSUME NEW c \in Client, OneDrive(c)
      PROVE  MovingRopeAnswered'
  <2>1. /\ JobKept
       /\ \A d \in Client : d # c => job'[d] = job[d]
       /\ job'[c].err = IF Answers(job[c].sides) THEN "no" ELSE "yes"
    BY <1>14, ErrKept DEF OneDrive, Errs
  <2>2. Others(c)
    BY <1>14, <2>1
    DEF OneDrive, Others, Goto, TypeOK
  <2>3. \A r \in Side : Stays(c, r)
    BY <1>14, <2>1, StopSidesEffect, RunSidesEffect, BothType
    DEF OneDrive, Stays, Goto, Charge, TypeOK, Dir, JobKept, Kept,
        CommandOK, Fits, Locks
  <2> QED
    BY <2>2, <2>3, AnsweredOne
<1>15. ASSUME NEW c \in Client, BothFlags(c)
      PROVE  MovingRopeAnswered'
  <2>1. Others(c)
    BY <1>15
    DEF BothFlags, Others, Goto, TypeOK
  <2>2. \A r \in Side : Stays(c, r)
    BY <1>15
    DEF BothFlags, Stays, Goto, Charge, TypeOK, CommandOK, Fits
  <2> QED
    BY <2>1, <2>2, AnsweredOne
<1>16. ASSUME NEW c \in Client, OffStop(c)
      PROVE  MovingRopeAnswered'
  <2>1. JobKept /\ \A d \in Client : d # c => job'[d] = job[d]
    BY <1>16, ErrKept DEF OffStop, Errs
  <2>2. Others(c)
    BY <1>16, <2>1
    DEF OffStop, Others, Goto, TypeOK
  <2>3. \A r \in Side : Stays(c, r)
    BY <1>16, <2>1, StopSidesEffect
    DEF OffStop, Stays, Goto, Charge, TypeOK, CommandOK, Fits
  <2> QED
    BY <2>2, <2>3, AnsweredOne
<1>17. ASSUME NEW c \in Client, OffFlags(c)
      PROVE  MovingRopeAnswered'
  <2>1. Others(c)
    BY <1>17
    DEF OffFlags, Others, Goto, TypeOK
  <2>2. \A r \in Side : Stays(c, r)
    BY <1>17
    DEF OffFlags, Stays, Goto, Charge, TypeOK, Cleared, Running
  <2> QED
    BY <2>1, <2>2, AnsweredOne
<1>18. ASSUME NEW c \in Client, ActLoad(c)
      PROVE  MovingRopeAnswered'
  <2>1. /\ JobKept
       /\ job'[c].err = job[c].err
       /\ \A d \in Client : d # c => job'[d] = job[d]
    BY <1>18, AnyKept DEF ActLoad, AnyHold
  <2>2. Others(c)
    BY <1>18, <2>1
    DEF ActLoad, Others, Goto, TypeOK
  <2>3. \A r \in Side : Stays(c, r)
    BY <1>18, <2>1
    DEF ActLoad, Stays, Goto, Charge, TypeOK, JobKept, Kept, Locks
  <2> QED
    BY <2>2, <2>3, AnsweredOne
<1>19. ASSUME NEW c \in Client, ActStore(c)
      PROVE  MovingRopeAnswered'
  <2>1. Others(c)
    BY <1>19
    DEF ActStore, Others, Goto, TypeOK, Return
  <2>2. \A r \in Side : Stays(c, r)
    BY <1>19
    DEF ActStore, Stays, Goto, Charge, TypeOK, Return, Locks, LockOps
  <2> QED
    BY <2>1, <2>2, AnsweredOne
<1>20. ASSUME NEW c \in Client, RollStop(c)
      PROVE  MovingRopeAnswered'
  <2>1. Others(c)
    BY <1>20
    DEF RollStop, Others, Goto, TypeOK
  <2>2. \A r \in Side : Stays(c, r)
    BY <1>20, StopSidesEffect
    DEF RollStop, Stays, Goto, Charge, TypeOK
  <2> QED
    BY <2>1, <2>2, AnsweredOne
<1>21. ASSUME NEW c \in Client, RollFlags(c)
      PROVE  MovingRopeAnswered'
  <2>1. JobKept /\ \A d \in Client : d # c => job'[d] = job[d]
    BY <1>21, ErrKept DEF RollFlags, Errs
  <2>2. Others(c)
    BY <1>21, <2>1
    DEF RollFlags, Others, Goto, TypeOK
  <2>3. \A r \in Side : Stays(c, r)
    BY <1>21, <2>1
    DEF RollFlags, Stays, Goto, Charge, TypeOK, JobKept, Kept, Cleared,
        Running
  <2> QED
    BY <2>2, <2>3, AnsweredOne
<1>22. ASSUME NEW c \in Client, SyncRun(c)
      PROVE  MovingRopeAnswered'
  <2>1. JobKept /\ \A d \in Client : d # c => job'[d] = job[d]
    BY <1>22, ErrKept DEF SyncRun, StartFailed, Errs, JobKept, Kept
  <2>2. Others(c)
    BY <1>22, <2>1
    DEF SyncRun, Others, Goto, TypeOK, StartFailed
  <2>3. \A r \in Side : Stays(c, r)
    BY <1>22, <2>1, RunSidesEffect
    DEF SyncRun, Stays, Goto, Charge, TypeOK, JobKept, Kept, CommandOK,
        Fits, StartFailed, SyncLabels, Job, drive
  <2> QED
    BY <2>2, <2>3, AnsweredOne
<1>23. ASSUME NEW c \in Client, SyncVerify(c)
      PROVE  MovingRopeAnswered'
  <2>1. Others(c)
    BY <1>23
    DEF SyncVerify, Others, Goto, TypeOK, Verify
  <2>2. \A r \in Side : Stays(c, r)
    BY <1>23
    DEF SyncVerify, Stays, Goto, Charge, TypeOK, Verify
  <2> QED
    BY <2>1, <2>2, AnsweredOne
<1>24. ASSUME NEW c \in Client, HoldVerify(c)
      PROVE  MovingRopeAnswered'
  <2>1. Others(c)
    BY <1>24
    DEF HoldVerify, Others, Goto, TypeOK, Verify
  <2>2. \A r \in Side : Stays(c, r)
    BY <1>24
    DEF HoldVerify, Stays, Goto, Charge, TypeOK, Verify
  <2> QED
    BY <2>1, <2>2, AnsweredOne
<1>25. ASSUME NEW c \in Client, EmergencyStop(c)
      PROVE  MovingRopeAnswered'
  <2>1. JobKept /\ \A d \in Client : d # c => job'[d] = job[d]
    BY <1>25, ErrKept DEF EmergencyStop, StartFailed, Errs, JobKept, Kept
  <2>2. Others(c)
    BY <1>25, <2>1
    DEF EmergencyStop, Others, Goto, TypeOK, StartFailed
  <2>3. \A r \in Side : Stays(c, r)
    BY <1>25, <2>1, StopSidesEffect
    DEF EmergencyStop, Stays, Goto, Charge, TypeOK
  <2> QED
    BY <2>2, <2>3, AnsweredOne
<1>26. ASSUME NEW c \in Client, MotionRefused(c)
      PROVE  MovingRopeAnswered'
  <2>1. Others(c)
    BY <1>26
    DEF MotionRefused, Others, Goto, TypeOK, Return
  <2>2. \A r \in Side : Stays(c, r)
    BY <1>26
    DEF MotionRefused, Stays, Goto, Charge, TypeOK, Return
  <2> QED
    BY <2>1, <2>2, AnsweredOne
<1>27. ASSUME NEW c \in Client, MotionBegins(c)
      PROVE  MovingRopeAnswered'
  <2>1. Others(c)
    BY <1>27
    DEF MotionBegins, Others, Goto, TypeOK, MotionSetUp
  <2>2. \A r \in Side : Stays(c, r)
    BY <1>27
    DEF MotionBegins, Stays, Goto, Charge, TypeOK, MotionSetUp
  <2> QED
    BY <2>1, <2>2, AnsweredOne
<1>28. ASSUME NEW c \in Client, SideRun(c)
      PROVE  MovingRopeAnswered'
  <2>1. Others(c)
    BY <1>28
    DEF SideRun, Others, Goto, TypeOK
  <2>2. \A r \in Side : Stays(c, r)
    BY <1>28, RunSidesEffect
    DEF SideRun, Stays, Goto, Charge, TypeOK, Job
  <2> QED
    BY <2>1, <2>2, AnsweredOne
<1>29. ASSUME NEW c \in Client, LoopAbort(c)
      PROVE  MovingRopeAnswered'
  <2>1. Others(c)
    BY <1>29
    DEF LoopAbort, Others, Goto, TypeOK
  <2>2. \A r \in Side : Stays(c, r)
    BY <1>29
    DEF LoopAbort, Stays, Goto, Charge, TypeOK, InLoop
  <2> QED
    BY <2>1, <2>2, AnsweredOne
<1>30. ASSUME NEW c \in Client, LoopTimeout(c)
      PROVE  MovingRopeAnswered'
  <2>1. Others(c)
    BY <1>30
    DEF LoopTimeout, Others, Goto, TypeOK
  <2>2. \A r \in Side : Stays(c, r)
    BY <1>30
    DEF LoopTimeout, Stays, Goto, Charge, TypeOK, InLoop
  <2> QED
    BY <2>1, <2>2, AnsweredOne
<1>31. ASSUME NEW c \in Client, LoopHardAbort(c)
      PROVE  MovingRopeAnswered'
  <2>1. Others(c)
    BY <1>31
    DEF LoopHardAbort, Others, Goto, TypeOK
  <2>2. \A r \in Side : Stays(c, r)
    BY <1>31
    DEF LoopHardAbort, Stays, Goto, Charge, TypeOK, InLoop
  <2> QED
    BY <2>1, <2>2, AnsweredOne
<1>32. ASSUME NEW c \in Client, LoopDone(c)
      PROVE  MovingRopeAnswered'
  <2>1. Others(c)
    BY <1>32
    DEF LoopDone, Others, Goto, TypeOK
  <2>2. \A r \in Side : Stays(c, r)
    BY <1>32
    DEF LoopDone, Stays, Goto, Charge, TypeOK, InLoop
  <2> QED
    BY <2>1, <2>2, AnsweredOne
<1>33. ASSUME NEW c \in Client, AbortReset(c)
      PROVE  MovingRopeAnswered'
  <2>1. Others(c)
    BY <1>33
    DEF AbortReset, Others, Goto, TypeOK
  <2>2. \A r \in Side : Stays(c, r)
    BY <1>33
    DEF AbortReset, Stays, Goto, Charge, TypeOK
  <2> QED
    BY <2>1, <2>2, AnsweredOne
<1>34. ASSUME NEW c \in Client, LoopReached(c)
      PROVE  MovingRopeAnswered'
  <2>1. Others(c)
    BY <1>34
    DEF LoopReached, Others, Goto, TypeOK
  <2>2. \A r \in Side : Stays(c, r)
    BY <1>34, StopSidesEffect
    DEF LoopReached, Stays, Goto, Charge, TypeOK, InLoop
  <2> QED
    BY <2>1, <2>2, AnsweredOne
<1>35. ASSUME NEW c \in Client, LoopTaut(c)
      PROVE  MovingRopeAnswered'
  <2>1. Others(c)
    BY <1>35
    DEF LoopTaut, Others, Goto, TypeOK
  <2>2. \A r \in Side : Stays(c, r)
    BY <1>35, StopSidesEffect
    DEF LoopTaut, Stays, Goto, Charge, TypeOK, InLoop
  <2> QED
    BY <2>1, <2>2, AnsweredOne
<1>36. ASSUME NEW c \in Client, MotionHardStop(c)
      PROVE  MovingRopeAnswered'
  <2>1. Others(c)
    BY <1>36
    DEF MotionHardStop, Others, Goto, TypeOK
  <2>2. \A r \in Side : Stays(c, r)
    BY <1>36, StopSidesEffect
    DEF MotionHardStop, Stays, Goto, Charge, TypeOK
  <2> QED
    BY <2>1, <2>2, AnsweredOne
<1>37. ASSUME NEW c \in Client, MotionOff(c)
      PROVE  MovingRopeAnswered'
  <2>1. Others(c)
    BY <1>37
    DEF MotionOff, Others, Goto, TypeOK
  <2>2. \A r \in Side : Stays(c, r)
    BY <1>37, StopSidesEffect
    DEF MotionOff, Stays, Goto, Charge, TypeOK
  <2> QED
    BY <2>1, <2>2, AnsweredOne
<1>38. ASSUME NEW c \in Client, MotionEnd(c)
      PROVE  MovingRopeAnswered'
  <2>1. Others(c)
    BY <1>38
    DEF MotionEnd, Others, Goto, TypeOK, Return
  <2>2. \A r \in Side : Stays(c, r)
    BY <1>38
    DEF MotionEnd, Stays, Goto, Charge, TypeOK, Return
  <2> QED
    BY <2>1, <2>2, AnsweredOne
<1>39. ASSUME NEW c \in Client, FineSkip(c)
      PROVE  MovingRopeAnswered'
  <2>1. Others(c)
    BY <1>39
    DEF FineSkip, Others, Goto, TypeOK
  <2>2. \A r \in Side : Stays(c, r)
    BY <1>39
    DEF FineSkip, Stays, Goto, Charge, TypeOK, Running
  <2> QED
    BY <2>1, <2>2, AnsweredOne
<1>40. ASSUME NEW c \in Client, TrimHold(c)
      PROVE  MovingRopeAnswered'
  <2>1. Others(c)
    BY <1>40
    DEF TrimHold, Others, Goto, TypeOK
  <2>2. \A r \in Side : Stays(c, r)
    BY <1>40
    DEF TrimHold, Stays, Goto, Charge, TypeOK
  <2> QED
    BY <2>1, <2>2, AnsweredOne
<1>41. ASSUME NEW c \in Client, TrimEnd(c)
      PROVE  MovingRopeAnswered'
  <2>1. Others(c)
    BY <1>41
    DEF TrimEnd, Others, Goto, TypeOK
  <2>2. \A r \in Side : Stays(c, r)
    BY <1>41
    DEF TrimEnd, Stays, Goto, Charge, TypeOK
  <2> QED
    BY <2>1, <2>2, AnsweredOne
<1>42. ASSUME NEW c \in Client, CorrDone(c)
      PROVE  MovingRopeAnswered'
  <2>1. Others(c)
    BY <1>42
    DEF CorrDone, Others, Goto, TypeOK
  <2>2. \A r \in Side : Stays(c, r)
    BY <1>42
    DEF CorrDone, Stays, Goto, Charge, TypeOK
  <2> QED
    BY <2>1, <2>2, AnsweredOne
<1>43. ASSUME NEW c \in Client, FineBegin(c)
      PROVE  MovingRopeAnswered'
  <2>1. PICK N \in SUBSET Side :
         job' = [job EXCEPT ![c].need = N]
         /\ N # Side /\ StopSides(Side \ N)
         /\ pc'[c] = IF N = {} THEN "mEnd" ELSE "fineRun"
    BY <1>43 DEF FineBegin, Goto, TypeOK
  <2>2. JobKept /\ job'[c].need = N /\ \A d \in Client : d # c => job'[d] = job[d]
    BY <1>43, <2>1, NeedKept DEF FineBegin
  <2>3. Others(c)
    BY <1>43, <2>1, <2>2
    DEF FineBegin, Others, Goto, TypeOK
  <2>4. \A r \in Side : Stays(c, r)
    BY <1>43, <2>1, <2>2, StopSidesEffect
    DEF FineBegin, Stays, Goto, Charge, TypeOK, CommandOK, Fits, JobKept,
        Kept
  <2> QED
    BY <2>3, <2>4, AnsweredOne
<1>44. ASSUME NEW c \in Client, FineRun(c)
      PROVE  MovingRopeAnswered'
  <2>1. Others(c)
    BY <1>44
    DEF FineRun, Others, Goto, TypeOK
  <2>2. \A r \in Side : Stays(c, r)
    BY <1>44, RunSidesEffect
    DEF FineRun, Stays, Goto, Charge, TypeOK, CommandOK, Fits, Job
  <2> QED
    BY <2>1, <2>2, AnsweredOne
<1>45. ASSUME NEW c \in Client, FineReached(c)
      PROVE  MovingRopeAnswered'
  <2>1. Others(c)
    BY <1>45
    DEF FineReached, Others, Goto, TypeOK
  <2>2. \A r \in Side : Stays(c, r)
    BY <1>45, StopSidesEffect
    DEF FineReached, Stays, Goto, Charge, TypeOK, CommandOK, Fits
  <2> QED
    BY <2>1, <2>2, AnsweredOne
<1>46. ASSUME NEW c \in Client, FineAbort(c)
      PROVE  MovingRopeAnswered'
  <2>1. Others(c)
    BY <1>46
    DEF FineAbort, Others, Goto, TypeOK
  <2>2. \A r \in Side : Stays(c, r)
    BY <1>46, StopSidesEffect
    DEF FineAbort, Stays, Goto, Charge, TypeOK, CommandOK, Fits
  <2> QED
    BY <2>1, <2>2, AnsweredOne
<1>47. ASSUME NEW c \in Client, CorrStop(c)
      PROVE  MovingRopeAnswered'
  <2>1. Others(c)
    BY <1>47
    DEF CorrStop, Others, Goto, TypeOK
  <2>2. \A r \in Side : Stays(c, r)
    BY <1>47, StopSidesEffect
    DEF CorrStop, Stays, Goto, Charge, TypeOK, CommandOK, Fits
  <2> QED
    BY <2>1, <2>2, AnsweredOne
<1>48. ASSUME NEW c \in Client, CorrRun(c)
      PROVE  MovingRopeAnswered'
  <2>1. PICK N \in SUBSET Side :
         job' = [job EXCEPT ![c] = [@ EXCEPT !.need = N, !.pass = job[c].pass + 1]]
         /\ \E go \in [Side -> Dir] : RunSides(N, go, Side)
    BY <1>48 DEF CorrRun
  <2>2. JobKept /\ job'[c].need = N /\ \A d \in Client : d # c => job'[d] = job[d]
    BY <1>48, <2>1, PassKept DEF CorrRun
  <2>3. Others(c)
    BY <1>48, <2>1, <2>2
    DEF CorrRun, Others, Goto, TypeOK
  <2>4. \A r \in Side : Stays(c, r)
    BY <1>48, <2>1, <2>2, RunSidesEffect
    DEF CorrRun, Stays, Goto, Charge, TypeOK, CommandOK, Fits, JobKept, Kept
  <2> QED
    BY <2>3, <2>4, AnsweredOne
<1>49. ASSUME NEW c \in Client, ManualDrive(c)
      PROVE  MovingRopeAnswered'
  <2>1. Others(c)
    BY <1>49
    DEF ManualDrive, Others, Goto, TypeOK, Return
  <2>2. \A r \in Side : Stays(c, r)
    BY <1>49, RunSidesEffect
    DEF ManualDrive, Stays, Goto, Charge, TypeOK, Return, Job
  <2> QED
    BY <2>1, <2>2, AnsweredOne
<1>50. ASSUME NEW c \in Client, ManualClear(c)
      PROVE  MovingRopeAnswered'
  <2>1. Others(c)
    BY <1>50
    DEF ManualClear, Others, Goto, TypeOK, Return
  <2>2. \A r \in Side : Stays(c, r)
    BY <1>50
    DEF ManualClear, Stays, Goto, Charge, TypeOK, Return, Running
  <2> QED
    BY <2>1, <2>2, AnsweredOne
<1>51. ASSUME NEW c \in Client, NEW s \in Side, LoopSideReached(c, s)
      PROVE  MovingRopeAnswered'
  <2>1. Others(c)
    BY <1>51
    DEF LoopSideReached, Others, Goto, TypeOK
  <2>2. \A r \in Side : Stays(c, r)
    BY <1>51, StopSidesEffect
    DEF LoopSideReached, Stays, Charge
  <2> QED
    BY <2>1, <2>2, AnsweredOne
<1>52. ASSUME NEW t \in Thread, HoldAllOff(t)
      PROVE  MovingRopeAnswered'
  BY <1>52, AnsweredAllOff
<1>53. CASE UNCHANGED vars
  BY <1>53 DEF vars, drive, flags, clock, MovingRopeAnswered, InCharge, Running, Locks
<1> QED
  BY <1>1, <1>2, <1>3, <1>4, <1>5, <1>6, <1>7, <1>8, <1>9, <1>10, <1>11,
     <1>12, <1>13, <1>14, <1>15, <1>16, <1>17, <1>18, <1>19, <1>20,
     <1>21, <1>22, <1>23, <1>24, <1>25, <1>26, <1>27, <1>28, <1>29,
     <1>30, <1>31, <1>32, <1>33, <1>34, <1>35, <1>36, <1>37, <1>38,
     <1>39, <1>40, <1>41, <1>42, <1>43, <1>44, <1>45, <1>46, <1>47,
     <1>48, <1>49, <1>50, <1>51, <1>52, <1>53
  DEF Next, ClientStep, Proceed, HoldAllOff, Environment

\* At first no rope moves
LEMMA AnsweredInit == Init => MovingRopeAnswered
  BY DEF Init, MovingRopeAnswered, Running

(***************************************************************************)
(* MovingRopeAnswered: a rope that moves has somebody who will stop it, or *)
(* is orphaned for one of the four known reasons.                          *)
(***************************************************************************)
THEOREM AnsweredCorrect == Spec => []MovingRopeAnswered
  BY TypeCorrect, CommandCorrect, AnsweredInit, AnsweredStep, PTL DEF Spec

-----------------------------------------------------------------------------
(***************************************************************************)
(* Holds and motions apart.  HoldsAndMotionsApart speaks of the labels of  *)
(* a motion's own; a motion that starts both sides is past its check at    *)
(* three labels more, which it shares with a combined hold, and these too  *)
(* exclude a hold flag.  Flags are only set under motion_mtx, which the    *)
(* motion owns; a one-side "off" alone sets them without.                  *)
(***************************************************************************)
Past(op, label) ==
  \/ label \in MotionLabels
  \/ op \in MotionOps /\ label \in {"syncRun", "syncVerify", "emStop"}

Apart == "off" \notin scenario.ops =>
           \A c \in Client : Past(job[c].op, pc[c]) => ~AnyHold

NoNewHold == \A s \in Side : hold'[s] # {} => hold[s] # {}

\* No flag is set, and only c may move: it was past its check before or is not now
LEMMA ApartOne ==
  ASSUME Apart, scenario' = scenario, NoNewHold, NEW c,
         \A d \in Client : d # c => pc'[d] = pc[d] /\ job'[d].op = job[d].op,
         c \in Client /\ Past(job'[c].op, pc'[c]) => Past(job[c].op, pc[c])
  PROVE  Apart'
<1>1. AnyHold' => AnyHold
  BY DEF AnyHold, NoNewHold
<1>2. \A d \in Client : Past(job'[d].op, pc'[d]) => Past(job[d].op, pc[d])
  OBVIOUS
<1> QED
  BY <1>1, <1>2 DEF Apart

\* No command moves
LEMMA ApartQuiet ==
  ASSUME Apart, hold' = hold, UNCHANGED <<scenario, job>>,
         \A c \in Client : pc'[c] = pc[c]
  PROVE  Apart'
  BY ApartOne DEF NoNewHold

\* A command is received
LEMMA ApartBegun ==
  ASSUME TypeOK, Apart, NEW c \in Client, NEW j, NEW label,
         Begin(c, j, label), hold' = hold, ~Past(j.op, label)
  PROVE  Apart'
<1>1. /\ \A d \in Client : d # c => pc'[d] = pc[d] /\ job'[d] = job[d]
      /\ pc'[c] = label /\ job'[c] = j
  BY DEF TypeOK, Begin, Goto, Thread
<1> QED
  BY <1>1, ApartOne DEF Begin, NoNewHold

\* A command goes on
LEMMA ApartMoved ==
  ASSUME TypeOK, Apart, scenario' = scenario, NoNewHold, NEW c \in Client, NEW label,
         Goto(c, label), JobKept,
         Past(job[c].op, label) => Past(job[c].op, pc[c])
  PROVE  Apart'
<1>1. /\ \A d \in Client : d # c => pc'[d] = pc[d] /\ job'[d].op = job[d].op
      /\ pc'[c] = label /\ job'[c].op = job[c].op
  BY DEF TypeOK, Goto, Thread, JobKept, Kept
<1> QED
  BY <1>1, ApartOne

\* A command, or hold_all_off, returns
LEMMA ApartReturned ==
  ASSUME TypeOK, Apart, scenario' = scenario, NoNewHold, NEW t \in Thread, Return(t)
  PROVE  Apart'
<1>1. \A d \in Client : /\ d # t => pc'[d] = pc[d] /\ job'[d] = job[d]
                        /\ d = t => pc'[d] = "idle"
  BY DEF TypeOK, Return, Goto, Thread
<1> QED
  BY <1>1, ApartOne DEF Past, MotionLabels

\* hold_all_off goes on
LEMMA ApartThread ==
  ASSUME TypeOK, Apart, UNCHANGED <<scenario, job>>, NoNewHold, NEW t \in Thread,
         NEW label \in {"haoStop", "haoActive", "allOff"}, Goto(t, label)
  PROVE  Apart'
<1>1. \A d \in Client : /\ d # t => pc'[d] = pc[d]
                        /\ d = t => pc'[d] = label
  BY DEF TypeOK, Goto, Thread
<1> QED
  BY <1>1, ApartOne DEF Past, MotionLabels

\* Flags are set by who owns the lock, and a motion past its check would own it
LEMMA ApartFlags ==
  ASSUME TypeOK, CommandOK, MotionMutex, Apart, NEW c \in Client, NEW label,
         Goto(c, label), UNCHANGED <<scenario, job>>, ~Past(job[c].op, label),
         ~Past(job[c].op, pc[c]), "off" \notin scenario.ops => Protected(c)
  PROVE  Apart'
<1>1. \A d \in Client : Past(job[d].op, pc[d]) => Protected(d)
  BY DEF Past, Protected, SyncLabels
<1>2. ASSUME "off" \notin scenario.ops
      PROVE  \A d \in Client : ~Past(job[d].op, pc[d])
  BY <1>1, <1>2 DEF MotionMutex
<1>3. \A d \in Client : /\ d # c => pc'[d] = pc[d]
                        /\ d = c => pc'[d] = label
  BY DEF TypeOK, Goto, Thread
<1> QED
  BY <1>2, <1>3 DEF Apart

\* Every step keeps them apart
LEMMA ApartStep ==
  TypeOK /\ CommandOK /\ MotionMutex /\ Apart /\ [Next]_vars => Apart'
<1> SUFFICES ASSUME TypeOK, CommandOK, MotionMutex, Apart, [Next]_vars
             PROVE  Apart'
  OBVIOUS
<1> USE ThreadAssumption DEF Thread, drive, flags, clock, NoNewHold
<1>1. ASSUME NEW c \in Client, Refused(c) \/ HoldRenew(c)
      PROVE  Apart'
  BY <1>1, ApartQuiet
  DEF Refused, HoldRenew
<1>2. ASSUME HoldLapse \/ HoldGuard \/ WatchdogFires
      PROVE  Apart'
  BY <1>2, ApartQuiet
  DEF HoldLapse, HoldGuard, WatchdogFires, Goto, TypeOK
<1>3. ASSUME Environment
      PROVE  Apart'
  BY <1>3, ApartQuiet
  DEF Environment, LeaseAges, BeatAges, MetersChange, BusFails, BusReturns
<1>4. ASSUME NEW c \in Client, NEW s \in Side, NEW d \in Dir, HoldOn(c, s, d)
      PROVE  Apart'
  BY <1>4, ApartBegun
  DEF HoldOn, Command, Past, MotionLabels, SyncLabels
<1>5. ASSUME NEW c \in Client, NEW d \in Dir, HoldOnBoth(c, d)
      PROVE  Apart'
  BY <1>5, ApartBegun
  DEF HoldOnBoth, Command, Past, MotionLabels, MotionOps
<1>6. ASSUME NEW c \in Client,
             RopeMotion(c) \/ RollCorrect(c) \/ AlignLengths(c) \/ SideMeasured(c)
      PROVE  Apart'
  <2>1. \A op : ~Past(op, "mCheck")
    BY DEF Past, MotionLabels
  <2>2. ASSUME NEW op, NEW S, NEW go, Motion(c, op, S, go)
        PROVE  Apart'
    BY <2>1, <2>2, ApartBegun DEF Motion
  <2> QED
    BY <1>6, <2>2 DEF RopeMotion, RollCorrect, AlignLengths, SideMeasured
<1>7. ASSUME NEW c \in Client, NEW s \in Side, NEW d \in Dir, HoldOff(c, s, d)
      PROVE  Apart'
  BY <1>7, ApartBegun
  DEF HoldOff, Command, Past, MotionLabels, SyncLabels
<1>8. ASSUME NEW c \in Client, NEW d \in Dir, HoldOffBoth(c, d)
      PROVE  Apart'
  BY <1>8, ApartBegun
  DEF HoldOffBoth, Command, Past, MotionLabels, SyncLabels
<1>9. ASSUME NEW c \in Client, Stop(c)
      PROVE  Apart'
  BY <1>9, ApartBegun
  DEF Stop, Command, Past, MotionLabels, SyncLabels
<1>10. ASSUME NEW c \in Client, NEW s \in Side, Trim(c, s)
      PROVE  Apart'
  BY <1>10, ApartBegun
  DEF Trim, Command, Past, MotionLabels, SyncLabels
<1>11. ASSUME NEW c \in Client, NEW s \in Side, NEW d \in Dir, ManualOn(c, s, d)
      PROVE  Apart'
  BY <1>11, ApartBegun
  DEF ManualOn, Command, Past, MotionLabels, SyncLabels
<1>12. ASSUME NEW c \in Client, NEW s \in Side, ManualOff(c, s)
      PROVE  Apart'
  <2>1. \A d \in Client : d # c => pc'[d] = pc[d] /\ job'[d] = job[d]
    BY <1>12 DEF ManualOff, Goto, TypeOK
  <2>2. pc'[c] \in {"idle", "manClear"}
    BY <1>12 DEF ManualOff, Ready, Goto, TypeOK
  <2>3. ~Past(job'[c].op, pc'[c])
    BY <2>2 DEF Past, MotionLabels
  <2> QED
    BY <1>12, <2>1, <2>3, ApartOne DEF ManualOff
<1>13. ASSUME NEW c \in Client, OneFlags(c)
      PROVE  Apart'
  BY <1>13, ApartFlags
  DEF OneFlags, CommandOK, Fits, MotionLabels, SyncLabels, Protected, Locks, LockOps, Past
<1>14. ASSUME NEW c \in Client, BothFlags(c)
      PROVE  Apart'
  BY <1>14, ApartFlags DEF BothFlags, MotionLabels, SyncLabels, Protected, Past
<1>15. ASSUME NEW c \in Client, OffFlags(c)
      PROVE  Apart'
  BY <1>15, ApartMoved
  DEF OffFlags, CommandOK, Fits, JobKept, Kept, MotionOps, IsMotion,
      Past, MotionLabels, SyncLabels
<1>16. ASSUME NEW c \in Client, RollStop(c)
      PROVE  Apart'
  BY <1>16, ApartMoved
  DEF RollStop, CommandOK, Fits, JobKept, Kept, MotionOps, IsMotion,
      Past, MotionLabels, SyncLabels
<1>17. ASSUME NEW c \in Client, SyncVerify(c)
      PROVE  Apart'
  BY <1>17, ApartMoved
  DEF SyncVerify, Verify, CommandOK, Fits, JobKept, Kept, MotionOps,
      IsMotion, Past, MotionLabels, SyncLabels
<1>18. ASSUME NEW c \in Client, HoldVerify(c)
      PROVE  Apart'
  BY <1>18, ApartMoved
  DEF HoldVerify, Verify, CommandOK, Fits, JobKept, Kept, MotionOps,
      IsMotion, Past, MotionLabels, SyncLabels
<1>19. ASSUME NEW c \in Client, MotionBegins(c)
      PROVE  Apart'
  BY <1>19 DEF MotionBegins, MotionSetUp, AnyHold, Apart
<1>20. ASSUME NEW c \in Client, SideRun(c)
      PROVE  Apart'
  BY <1>20, ApartMoved
  DEF SideRun, CommandOK, Fits, JobKept, Kept, MotionOps, IsMotion, Past, MotionLabels, SyncLabels
<1>21. ASSUME NEW c \in Client, LoopAbort(c)
      PROVE  Apart'
  BY <1>21, ApartMoved
  DEF LoopAbort, InLoop, CommandOK, Fits, JobKept, Kept, MotionOps,
      IsMotion, Past, MotionLabels, SyncLabels
<1>22. ASSUME NEW c \in Client, AbortReset(c)
      PROVE  Apart'
  BY <1>22, ApartMoved
  DEF AbortReset, CommandOK, Fits, JobKept, Kept, MotionOps, IsMotion,
      Past, MotionLabels, SyncLabels
<1>23. ASSUME NEW c \in Client, LoopTimeout(c)
      PROVE  Apart'
  BY <1>23, ApartMoved
  DEF LoopTimeout, InLoop, CommandOK, Fits, JobKept, Kept, MotionOps,
      IsMotion, Past, MotionLabels, SyncLabels
<1>24. ASSUME NEW c \in Client, LoopHardAbort(c)
      PROVE  Apart'
  BY <1>24, ApartMoved
  DEF LoopHardAbort, InLoop, CommandOK, Fits, JobKept, Kept, MotionOps,
      IsMotion, Past, MotionLabels, SyncLabels
<1>25. ASSUME NEW c \in Client, LoopReached(c)
      PROVE  Apart'
  BY <1>25, ApartMoved
  DEF LoopReached, InLoop, CommandOK, Fits, JobKept, Kept, MotionOps,
      IsMotion, Past, MotionLabels, SyncLabels
<1>26. ASSUME NEW c \in Client, LoopTaut(c)
      PROVE  Apart'
  BY <1>26, ApartMoved
  DEF LoopTaut, InLoop, CommandOK, Fits, JobKept, Kept, MotionOps, IsMotion,
      Past, MotionLabels, SyncLabels
<1>27. ASSUME NEW c \in Client, LoopDone(c)
      PROVE  Apart'
  BY <1>27, ApartMoved
  DEF LoopDone, InLoop, CommandOK, Fits, JobKept, Kept, MotionOps, IsMotion,
      Past, MotionLabels, SyncLabels
<1>28. ASSUME NEW c \in Client, MotionHardStop(c)
      PROVE  Apart'
  BY <1>28, ApartMoved
  DEF MotionHardStop, CommandOK, Fits, JobKept, Kept, MotionOps, IsMotion,
      Past, MotionLabels, SyncLabels
<1>29. ASSUME NEW c \in Client, MotionOff(c)
      PROVE  Apart'
  BY <1>29, ApartMoved
  DEF MotionOff, CommandOK, Fits, JobKept, Kept, MotionOps, IsMotion,
      Past, MotionLabels, SyncLabels
<1>30. ASSUME NEW c \in Client, FineSkip(c)
      PROVE  Apart'
  BY <1>30, ApartMoved
  DEF FineSkip, CommandOK, Fits, JobKept, Kept, MotionOps, IsMotion,
      Past, MotionLabels, SyncLabels
<1>31. ASSUME NEW c \in Client, FineRun(c)
      PROVE  Apart'
  BY <1>31, ApartMoved
  DEF FineRun, CommandOK, Fits, JobKept, Kept, MotionOps, IsMotion, Past, MotionLabels, SyncLabels
<1>32. ASSUME NEW c \in Client, FineReached(c)
      PROVE  Apart'
  BY <1>32, ApartMoved
  DEF FineReached, CommandOK, Fits, JobKept, Kept, MotionOps, IsMotion,
      Past, MotionLabels, SyncLabels
<1>33. ASSUME NEW c \in Client, FineAbort(c)
      PROVE  Apart'
  BY <1>33, ApartMoved
  DEF FineAbort, CommandOK, Fits, JobKept, Kept, MotionOps, IsMotion,
      Past, MotionLabels, SyncLabels
<1>34. ASSUME NEW c \in Client, CorrStop(c)
      PROVE  Apart'
  BY <1>34, ApartMoved
  DEF CorrStop, CommandOK, Fits, JobKept, Kept, MotionOps, IsMotion,
      Past, MotionLabels, SyncLabels
<1>35. ASSUME NEW c \in Client, CorrDone(c)
      PROVE  Apart'
  BY <1>35, ApartMoved
  DEF CorrDone, CommandOK, Fits, JobKept, Kept, MotionOps, IsMotion,
      Past, MotionLabels, SyncLabels
<1>36. ASSUME NEW c \in Client, TrimEnd(c)
      PROVE  Apart'
  BY <1>36, ApartMoved
  DEF TrimEnd, CommandOK, Fits, JobKept, Kept, MotionOps, IsMotion, Past, MotionLabels, SyncLabels
<1>37. ASSUME NEW c \in Client, OneDrive(c)
      PROVE  Apart'
  <2>1. JobKept
    BY <1>37, ErrKept DEF OneDrive, Errs
  <2> QED
    BY <1>37, <2>1, ApartMoved
    DEF OneDrive, CommandOK, Fits, JobKept, Kept, MotionOps, IsMotion,
        Past, MotionLabels, SyncLabels
<1>38. ASSUME NEW c \in Client, OffStop(c)
      PROVE  Apart'
  <2>1. JobKept
    BY <1>38, ErrKept DEF OffStop, Errs
  <2> QED
    BY <1>38, <2>1, ApartMoved
    DEF OffStop, CommandOK, Fits, JobKept, Kept, MotionOps, IsMotion,
        Past, MotionLabels, SyncLabels
<1>39. ASSUME NEW c \in Client, ActLoad(c)
      PROVE  Apart'
  <2>1. JobKept
    BY <1>39, AnyKept DEF ActLoad, AnyHold
  <2> QED
    BY <1>39, <2>1, ApartMoved
    DEF ActLoad, CommandOK, Fits, JobKept, Kept, MotionOps, IsMotion,
        Past, MotionLabels, SyncLabels
<1>40. ASSUME NEW c \in Client, RollFlags(c)
      PROVE  Apart'
  <2>1. JobKept
    BY <1>40, ErrKept DEF RollFlags, Errs
  <2> QED
    BY <1>40, <2>1, ApartMoved
    DEF RollFlags, CommandOK, Fits, JobKept, Kept, MotionOps, IsMotion,
        Past, MotionLabels, SyncLabels
<1>41. ASSUME NEW c \in Client, SyncRun(c)
      PROVE  Apart'
  <2>1. JobKept
    BY <1>41, ErrKept DEF SyncRun, StartFailed, Errs, JobKept, Kept
  <2> QED
    BY <1>41, <2>1, ApartMoved
    DEF SyncRun, StartFailed, CommandOK, Fits, JobKept, Kept, MotionOps,
        IsMotion, Past, MotionLabels, SyncLabels
<1>42. ASSUME NEW c \in Client, EmergencyStop(c)
      PROVE  Apart'
  <2>1. JobKept
    BY <1>42, ErrKept DEF EmergencyStop, StartFailed, Errs, JobKept, Kept
  <2> QED
    BY <1>42, <2>1, ApartMoved
    DEF EmergencyStop, StartFailed, CommandOK, Fits, JobKept, Kept,
        MotionOps, IsMotion, Past, MotionLabels, SyncLabels
<1>43. ASSUME NEW c \in Client, FineBegin(c)
      PROVE  Apart'
  <2>1. PICK N \in SUBSET Side :
         job' = [job EXCEPT ![c].need = N]
    BY <1>43 DEF FineBegin
  <2>2. JobKept
    BY <1>43, <2>1, NeedKept DEF FineBegin
  <2> QED
    BY <1>43, <2>2, ApartMoved
    DEF FineBegin, CommandOK, Fits, JobKept, Kept, MotionOps, IsMotion,
        Past, MotionLabels, SyncLabels
<1>44. ASSUME NEW c \in Client, CorrRun(c)
      PROVE  Apart'
  <2>1. PICK N \in SUBSET Side :
         job' = [job EXCEPT ![c] = [@ EXCEPT !.need = N, !.pass = job[c].pass + 1]]
    BY <1>44 DEF CorrRun
  <2>2. JobKept
    BY <1>44, <2>1, PassKept DEF CorrRun
  <2> QED
    BY <1>44, <2>2, ApartMoved
    DEF CorrRun, CommandOK, Fits, JobKept, Kept, MotionOps, IsMotion,
        Past, MotionLabels, SyncLabels
<1>45. ASSUME NEW c \in Client, TrimHold(c)
      PROVE  Apart'
  BY <1>45, ApartMoved
  DEF TrimHold, TryLock, CommandOK, Fits, JobKept, Kept, MotionOps,
      IsMotion, Past, MotionLabels, SyncLabels
<1>46. ASSUME NEW c \in Client, ActStore(c)
      PROVE  Apart'
  BY <1>46, ApartMoved, ApartReturned
  DEF ActStore, Locks, CommandOK, Fits, JobKept, Kept, MotionOps, IsMotion,
      Past, MotionLabels, SyncLabels
<1>47. ASSUME NEW c \in Client, MotionRefused(c) \/ MotionEnd(c)
      PROVE  Apart'
  BY <1>47, ApartReturned
  DEF MotionRefused, MotionEnd, Past, MotionLabels, SyncLabels
<1>48. ASSUME NEW c \in Client, ManualDrive(c) \/ ManualClear(c)
      PROVE  Apart'
  BY <1>48, ApartReturned
  DEF ManualDrive, ManualClear, Past, MotionLabels, SyncLabels
<1>49. ASSUME NEW c \in Client, NEW s \in Side, LoopSideReached(c, s)
      PROVE  Apart'
  BY <1>49, ApartQuiet
  DEF LoopSideReached
<1>50. ASSUME NEW t \in Thread, HoldAllOff(t)
      PROVE  Apart'
  BY <1>50, ApartThread, ApartReturned
  DEF HoldAllOff, HoldAllOffFlags, HoldAllOffStop, HoldAllOffActive,
      AllMotionOff, Past, MotionLabels, SyncLabels
<1>51. CASE UNCHANGED vars
  BY <1>51, ApartQuiet DEF vars
<1> QED
  BY <1>1, <1>2, <1>3, <1>4, <1>5, <1>6, <1>7, <1>8, <1>9, <1>10, <1>11,
     <1>12, <1>13, <1>14, <1>15, <1>16, <1>17, <1>18, <1>19, <1>20,
     <1>21, <1>22, <1>23, <1>24, <1>25, <1>26, <1>27, <1>28, <1>29,
     <1>30, <1>31, <1>32, <1>33, <1>34, <1>35, <1>36, <1>37, <1>38,
     <1>39, <1>40, <1>41, <1>42, <1>43, <1>44, <1>45, <1>46, <1>47,
     <1>48, <1>49, <1>50, <1>51
  DEF Next, ClientStep, Proceed, HoldAllOff, Environment

\* No motion at first
LEMMA ApartInit == Init => Apart
  BY DEF Init, Apart, AnyHold

\* Without a one-side "off", no hold flag is set while a motion is past its check of the
\* holds: neither by cmd_hold, which finds motion_mtx taken, nor by its rollback
THEOREM OneSideOffCorrect == Spec => []OnlyOneSideOffMixes
<1>1. Apart => OnlyOneSideOffMixes
  BY DEF Apart, Past, OnlyOneSideOffMixes, HoldsAndMotionsApart
<1> QED
  BY <1>1, TypeCorrect, CommandCorrect, MutexCorrect, ApartInit, ApartStep, PTL DEF Spec
=============================================================================
