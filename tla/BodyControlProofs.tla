-------------------------- MODULE BodyControlProofs --------------------------
(***************************************************************************)
(* BodyControl for any number of flows, connections, steps, commands and   *)
(* events: its types, that a stop is not outrun, and that a pause holds.   *)
(***************************************************************************)
EXTENDS BodyControl, TLAPS

-----------------------------------------------------------------------------
(* The operations of the commands *)

LEMMA OpsOf ==
  ASSUME NEW c \in AllCommands
  PROVE  /\ c = "init" => Ops[c] = InitOps
         /\ c \in {"attach", "pusher"} => Ops[c] = AttachOps
         /\ c \in {"detach"} => Ops[c] = <<Unasked>>
         /\ c \in {"recover", "realign"} => Ops[c] = <<Last>>
         /\ c \in Stepping => Ops[c] = StepOps
         /\ c = "return_home" => Ops[c] = HomeOps
         /\ c = "arm_sweep" => Ops[c] = ArmSweepOps
BY DEF Ops, AllCommands, Stepping

\* An operation that is begun without a look at abort_flag follows one that
\* check_abort_ follows, or is the first, or is the end of init
LEMMA Untested ==
  ASSUME NEW c \in AllCommands, NEW n \in 1..Len(Ops[c])
  PROVE  /\ Len(Ops[c]) \in 1..3
         /\ n # 1 => n - 1 \in 1..Len(Ops[c])
         /\ n # 1 /\ ~Ops[c][n].tested => Ops[c][n-1].checked \/ (c = "init" /\ n = Len(InitOps))
<1>1. CASE c = "init"
  <2>1. Len(InitOps) = 2 /\ InitOps[1].tested
    BY DEF InitOps, Asked, Last, Op
  <2> QED
    BY <1>1, <2>1, OpsOf
<1>2. CASE c \in {"attach", "pusher"}
  <2>1. Len(AttachOps) = 2 /\ \A i \in {1, 2} : AttachOps[i].tested
    BY DEF AttachOps, Asked, Op
  <2> QED
    BY <1>2, <2>1, OpsOf
<1>3. CASE c \in Stepping
  <2>1. Len(StepOps) = 3 /\ StepOps[1].checked /\ StepOps[2].checked
    BY DEF StepOps, AskedCheck, Level, Seal, Op
  <2> QED
    BY <1>3, <2>1, OpsOf
<1>4. CASE c = "return_home"
  <2>1. Len(HomeOps) = 3 /\ HomeOps[2].tested /\ HomeOps[2].checked
    BY DEF HomeOps, Unasked, AskedCheck, Last, Op
  <2> QED
    BY <1>4, <2>1, OpsOf
<1>5. CASE c \in {"detach", "recover", "realign"}
  <2>1. Ops[c] = <<Unasked>> \/ Ops[c] = <<Last>>
    BY <1>5, OpsOf
  <2>2. Len(<<Unasked>>) = 1 /\ Len(<<Last>>) = 1
    OBVIOUS
  <2>3. Len(Ops[c]) = 1
    BY <2>1, <2>2, Zenon
  <2>4. n \in 1..1
    BY <2>3, Zenon
  <2> QED
    BY <2>3, <2>4
<1>6. CASE c = "arm_sweep"
  <2>1. Len(ArmSweepOps) = 2 /\ \A i \in {1, 2} : ArmSweepOps[i].tested
    BY DEF ArmSweepOps, AskedCheck, Asked, Op
  <2> QED
    BY <1>6, <2>1, OpsOf
<1> QED
  BY <1>1, <1>2, <1>3, <1>4, <1>5, <1>6 DEF AllCommands, Stepping

\* Of the commands that a pause can find, only return_home has an operation that
\* no check_abort_ follows, its first and its last
LEMMA Unchecked ==
  ASSUME NEW c \in Stepping \cup {"return_home"}, NEW n \in 1..Len(Ops[c]), ~Ops[c][n].checked
  PROVE  n = Len(Ops[c]) \/ (c = "return_home" /\ n = 1)
<1>0. c \in AllCommands
  BY DEF AllCommands, Stepping
<1>1. CASE c \in Stepping
  <2>1. Len(StepOps) = 3 /\ StepOps[1].checked /\ StepOps[2].checked
    BY DEF StepOps, AskedCheck, Level, Seal, Op
  <2>2. Ops[c] = StepOps
    BY <1>0, <1>1, OpsOf
  <2>3. n \in 1..3
    BY <2>1, <2>2, Zenon
  <2>4. n = 1 \/ n = 2 \/ n = 3
    BY <2>3
  <2> QED
    BY <2>1, <2>2, <2>4
<1>2. CASE c = "return_home"
  <2>1. Len(HomeOps) = 3 /\ HomeOps[2].checked
    BY DEF HomeOps, Unasked, AskedCheck, Last, Op
  <2>2. Ops[c] = HomeOps
    BY <1>0, <1>2, OpsOf
  <2>3. n \in 1..3
    BY <2>1, <2>2, Zenon
  <2>4. n = 1 \/ n = 2 \/ n = 3
    BY <2>3
  <2> QED
    BY <1>2, <2>1, <2>2, <2>4
<1> QED
  BY <1>1, <1>2

-----------------------------------------------------------------------------
(* The invariant *)

Working == {"try", "go", "op", "check", "ask", "parked"}
Owning  == Working \cup {"sweeping"}

\* A flow that works on a command is at one of its operations, and the manual pusher
\* command never queues for motion_mtx_
FlowsOK ==
  \A f \in Flow :
    /\ flow[f].at # "idle" => flow[f].cmd \in AllCommands
    /\ flow[f].at \in Working => flow[f].op \in 1..Len(Ops[flow[f].cmd])
    /\ flow[f].at # "idle" /\ flow[f].cmd = "pusher" => flow[f].at \in Working

\* motion_mtx_ belongs to the flow that works, the pusher command apart
Owner ==
  \A f \in Flow : mtx = f <=> flow[f].at \in Owning /\ flow[f].cmd # "pusher"

\* Who has been stopped is the owner, and abort_flag is still up; what it begins without
\* looking is the one operation already admitted, or the end of init
EndOfInit(f) == flow[f].cmd = "init" /\ flow[f].op = Len(InitOps)
Stopping ==
  \A f \in Flow :
    /\ since[f] # 0 => abort /\ mtx = f
    /\ since[f] = 3 => EndOfInit(f)
    /\ since[f] = 2 /\ flow[f].at = "go" => EndOfInit(f)

\* Who has been paused is the owner, and pause_flag is still up; it goes on from the
\* first operation of return_home alone
Pausing ==
  \A f \in Flow : heldAt[f] # 0 =>
    /\ pause /\ mtx = f
    /\ flow[f].cmd \in Stepping \cup {"return_home"}
    /\ \/ flow[f].op = heldAt[f]
       \/ flow[f].cmd = "return_home" /\ heldAt[f] = 1 /\ flow[f].op = 2

Core == FlowsOK /\ Owner /\ Stopping /\ Pausing

-----------------------------------------------------------------------------
(* What the steps of a flow do to its record *)

LEMMA GotoEffect ==
  ASSUME flow \in [Flow -> FlowType], NEW f \in Flow, NEW a \in Places, Goto(f, a)
  PROVE  /\ flow' \in [Flow -> FlowType]
         /\ flow'[f].at = a
         /\ flow'[f].cmd = flow[f].cmd /\ flow'[f].op = flow[f].op
         /\ \A g \in Flow : g # f => flow'[g] = flow[g]
BY DEF Goto, FlowType

LEMMA ReturnEffect ==
  ASSUME flow \in [Flow -> FlowType], NEW f \in Flow, Return(f)
  PROVE  /\ flow' \in [Flow -> FlowType]
         /\ flow'[f] = Idle
         /\ \A g \in Flow : g # f => flow'[g] = flow[g]
BY BoundAssumption DEF Return, FlowType, Idle, Places, States

LEMMA ArriveEffect ==
  ASSUME flow \in [Flow -> FlowType], NEW f \in Flow, NEW n \in 1..4, Arrive(f, n)
  PROVE  /\ flow' \in [Flow -> FlowType]
         /\ flow'[f].at = IF Ops[flow[f].cmd][n].tested THEN "try" ELSE "go"
         /\ flow'[f].cmd = flow[f].cmd /\ flow'[f].op = n
         /\ \A g \in Flow : g # f => flow'[g] = flow[g]
<1> DEFINE x == IF Ops[flow[f].cmd][n].tested THEN "try" ELSE "go"
           r == [flow[f] EXCEPT !.op = n, !.at = x]
<1>1. flow' = [flow EXCEPT ![f] = r]
  BY DEF Arrive
<1>2. x \in Places /\ n \in 0..4
  BY DEF Places
<1>3. flow[f] \in FlowType
  OBVIOUS
<1> HIDE DEF x
<1>4. r \in FlowType /\ r.at = x /\ r.cmd = flow[f].cmd /\ r.op = n
  BY <1>2, <1>3 DEF FlowType
<1> HIDE DEF r
<1>5. flow'[f] = r /\ (\A g \in Flow : g # f => flow'[g] = flow[g]) /\ flow' \in [Flow -> FlowType]
  BY <1>1, <1>4
<1> QED
  BY <1>4, <1>5 DEF x

LEMMA IdleIs ==
  Idle.at = "idle" /\ Idle.cmd = "none" /\ Idle.op = 0
BY DEF Idle

-----------------------------------------------------------------------------
(* The invariant under the kinds of steps *)

\* A step of one flow from place to place
LEMMA GotoKeeps ==
  ASSUME TypeOK, Core, NEW f \in Flow, NEW a \in Places \ {"idle"}, Goto(f, a),
         flow[f].at # "idle",
         a \in Owning <=> flow[f].at \in Owning,
         a \in Working => flow[f].at \in Working,
         flow[f].cmd = "pusher" => a \in Working,
         a = "go" => since[f] = 0,
         abort => abort', pause => pause',
         UNCHANGED <<mtx, since, heldAt>>
  PROVE  Core'
<1>1. /\ flow'[f].at = a
      /\ flow'[f].cmd = flow[f].cmd /\ flow'[f].op = flow[f].op
      /\ \A g \in Flow : g # f => flow'[g] = flow[g]
  BY GotoEffect DEF TypeOK
<1>2. FlowsOK'
  BY <1>1 DEF Core, FlowsOK
<1>3. Owner'
  BY <1>1 DEF Core, Owner
<1>4. Stopping'
  BY <1>1 DEF Core, Stopping, EndOfInit
<1>5. Pausing'
  BY <1>1 DEF Core, Pausing
<1> QED
  BY <1>2, <1>3, <1>4, <1>5 DEF Core

\* A step that leaves the flows alone
LEMMA FlagsKeep ==
  ASSUME Core, UNCHANGED <<mtx, flow>>,
         \A f \in Flow : \/ since'[f] = 0
                         \/ since'[f] = since[f] /\ (abort => abort')
                         \/ since'[f] = 1 /\ abort' /\ mtx = f,
         \A f \in Flow : \/ heldAt'[f] = 0
                         \/ heldAt'[f] = heldAt[f] /\ (pause => pause')
                         \/ /\ heldAt'[f] = flow[f].op /\ pause' /\ mtx = f
                            /\ flow[f].cmd \in Stepping \cup {"return_home"}
  PROVE  Core'
<1>1. FlowsOK' /\ Owner'
  BY DEF Core, FlowsOK, Owner
<1>2. Stopping'
  BY DEF Core, Stopping, EndOfInit
<1>3. Pausing'
  BY DEF Core, Pausing
<1> QED
  BY <1>1, <1>2, <1>3 DEF Core

\* A flow that leaves its command, or its last operation, lets motion_mtx_ go
Leaves(f) ==
  /\ \A g \in Flow : g # f => flow'[g] = flow[g]
  /\ \/ flow'[f] = Idle
     \/ /\ flow'[f].at \in {"failed", "done", "turn"}
        /\ flow'[f].cmd = flow[f].cmd /\ flow[f].cmd # "pusher"
  /\ mtx' = IF mtx = f THEN NoFlow ELSE mtx
  /\ \A g \in Flow : since'[g] = 0 \/ (g # f /\ since'[g] = since[g] /\ (abort => abort'))
  /\ \A g \in Flow : heldAt'[g] = 0 \/ (g # f /\ heldAt'[g] = heldAt[g] /\ (pause => pause'))

LEMMA LeavesKeeps ==
  ASSUME Core, NEW f \in Flow, flow[f].at # "idle", Leaves(f)
  PROVE  Core'
<1>1. FlowsOK'
  BY IdleIs DEF Core, FlowsOK, Leaves, Working
<1>2. Owner'
  BY IdleIs, NoFlowAssumption DEF Core, Owner, Leaves, Owning, Working
<1>3. Stopping'
  BY NoFlowAssumption DEF Core, Stopping, EndOfInit, Leaves
<1>4. Pausing'
  BY NoFlowAssumption DEF Core, Pausing, Leaves
<1> QED
  BY <1>1, <1>2, <1>3, <1>4 DEF Core

LEMMA UnlockEffect ==
  ASSUME TypeOK, NEW f \in Flow, Unlock(f), UNCHANGED <<abort, pause>>
  PROVE  /\ mtx' = IF mtx = f THEN NoFlow ELSE mtx
         /\ \A g \in Flow : since'[g] = 0 \/ (g # f /\ since'[g] = since[g] /\ (abort => abort'))
         /\ \A g \in Flow : heldAt'[g] = 0 \/ (g # f /\ heldAt'[g] = heldAt[g] /\ (pause => pause'))
BY DEF TypeOK, Unlock

\* However a flow gives up, stalls or succeeds, it leaves
LEMMA EndsLeave ==
  ASSUME TypeOK, Core, NEW f \in Flow, flow[f].at \in Working,
         GiveUp(f) \/ Succeed(f) \/ (flow[f].cmd = "realign" /\ Stall(f))
  PROVE  Leaves(f)
<1> USE DEF flags
<1>0. /\ flow \in [Flow -> FlowType] /\ flow[f].cmd \in AllCommands
      /\ flow[f].cmd = "pusher" => mtx # f /\ heldAt[f] = 0
      /\ flow[f].cmd # "pusher" => mtx = f
  BY DEF TypeOK, Core, FlowsOK, Owner, Owning, Working, Pausing
<1>1. ASSUME flow[f].cmd # "pusher", Unlock(f), UNCHANGED <<abort, pause>>,
             Return(f) \/ \E a \in {"failed", "done", "turn"} : Goto(f, a)
      PROVE  Leaves(f)
  <2>1. CASE Return(f)
    BY <1>0, <1>1, <2>1, UnlockEffect, ReturnEffect DEF Leaves
  <2>2. ASSUME NEW a \in {"failed", "done", "turn"}, Goto(f, a)
        PROVE  Leaves(f)
    <3>1. a \in Places
      BY DEF Places
    <3> QED
      BY <1>0, <1>1, <2>2, <3>1, UnlockEffect, GotoEffect DEF Leaves
  <2> QED
    BY <1>1, <2>1, <2>2
<1>2. CASE GiveUp(f)
  <2>1. CASE flow[f].cmd \in Stepping
    BY <1>2, <1>1, <2>1 DEF GiveUp, Stepping
  <2>2. CASE flow[f].cmd = "return_home"
    BY <1>2, <1>1, <2>2 DEF GiveUp, Stepping
  <2>3. CASE flow[f].cmd = "pusher"
    <3>1. ClearAbort /\ Return(f) /\ UNCHANGED <<pause, heldAt, mtx>>
      BY <1>2, <2>3 DEF GiveUp, Stepping
    <3> QED
      BY <1>0, <2>3, <3>1, ReturnEffect DEF Leaves, ClearAbort
  <2>4. CASE flow[f].cmd \notin Stepping \cup {"return_home", "pusher"}
    BY <1>2, <1>1, <2>4 DEF GiveUp
  <2> QED
    BY <2>1, <2>2, <2>3, <2>4
<1>3. CASE flow[f].cmd = "realign" /\ Stall(f)
  BY <1>3, <1>1 DEF Stall
<1>4. CASE Succeed(f)
  <2>1. CASE flow[f].cmd = "step"
    BY <1>4, <1>1, <2>1 DEF Succeed
  <2>2. CASE flow[f].cmd \in Loops
    BY <1>4, <1>1, <2>2 DEF Succeed, Loops
  <2>3. CASE flow[f].cmd \in {"realign", "arm_sweep"}
    BY <1>4, <1>1, <2>3 DEF Succeed, Loops
  <2>4. CASE flow[f].cmd = "pusher"
    <3>1. Unlock(f) /\ Return(f) /\ UNCHANGED <<abort, pause>>
      BY <1>4, <2>4 DEF Succeed, Loops
    <3> QED
      BY <1>0, <3>1, UnlockEffect, ReturnEffect DEF Leaves
  <2>5. CASE flow[f].cmd = "recover"
    <3>1. /\ Return(f) /\ mtx' = NoFlow
          /\ since' = [g \in Flow |-> 0] /\ heldAt' = [g \in Flow |-> 0]
      BY <1>4, <2>5 DEF Succeed, Loops
    <3> QED
      BY <1>0, <2>5, <3>1, ReturnEffect DEF Leaves
  <2>6. CASE flow[f].cmd \notin Loops \cup {"step", "realign", "pusher", "arm_sweep", "recover"}
    BY <1>4, <1>1, <2>6 DEF Succeed
  <2> QED
    BY <2>1, <2>2, <2>3, <2>4, <2>5, <2>6
<1> QED
  BY <1>2, <1>3, <1>4

\* A flow that arrives at an operation has motion_mtx_, and neither a stop nor a pause
\* forbids it
LEMMA Arrives ==
  ASSUME TypeOK, Core, NEW f \in Flow, NEW n \in 1..Len(Ops[flow[f].cmd]), Arrive(f, n),
         flow[f].cmd \in AllCommands,
         \/ flow[f].cmd = "pusher" /\ mtx' = mtx /\ mtx # f
         \/ flow[f].cmd # "pusher" /\ mtx' = f /\ mtx \in {f, NoFlow},
         \A g \in Flow : since'[g] = 0 \/ (since'[g] = since[g] /\ (abort => abort')),
         \A g \in Flow : heldAt'[g] = 0 \/ (heldAt'[g] = heldAt[g] /\ (pause => pause')),
         \/ since'[f] = 0
         \/ since'[f] # 3 /\ (Ops[flow[f].cmd][n].tested \/ (flow[f].cmd = "init" /\ n = Len(InitOps))),
         \/ heldAt'[f] = 0
         \/ flow[f].cmd = "return_home" /\ heldAt[f] = 1 /\ n = 2
  PROVE  Core'
<1>0. n \in 1..4
  BY Untested
<1>1. /\ flow'[f].at = IF Ops[flow[f].cmd][n].tested THEN "try" ELSE "go"
      /\ flow'[f].cmd = flow[f].cmd /\ flow'[f].op = n
      /\ \A g \in Flow : g # f => flow'[g] = flow[g]
  BY <1>0, ArriveEffect DEF TypeOK
<1>2. flow'[f].at \in {"try", "go"}
  BY <1>1
<1>3. FlowsOK'
  BY <1>1, <1>2 DEF Core, FlowsOK, Working
<1>4. Owner'
  BY <1>1, <1>2, NoFlowAssumption DEF Core, Owner, Owning, Working
<1>5. Stopping'
  <2> SUFFICES ASSUME NEW g \in Flow
               PROVE  /\ since'[g] # 0 => abort' /\ mtx' = g
                      /\ since'[g] = 3 => EndOfInit(g)'
                      /\ since'[g] = 2 /\ flow'[g].at = "go" => EndOfInit(g)'
    BY DEF Stopping
  <2>1. since[g] # 0 => mtx = g /\ abort
    BY DEF Core, Stopping
  <2>2. CASE g = f
    BY <1>1, <2>1, <2>2, NoFlowAssumption DEF EndOfInit
  <2>3. CASE g # f
    BY <1>1, <2>1, <2>3, NoFlowAssumption DEF Core, Stopping, EndOfInit
  <2> QED
    BY <2>2, <2>3
<1>6. Pausing'
  BY <1>1, NoFlowAssumption DEF Core, Pausing
<1> QED
  BY <1>3, <1>4, <1>5, <1>6 DEF Core

\* A flow goes on only after check_abort_ has let it, or where no check_abort_ is
LEMMA Advances ==
  ASSUME TypeOK, Core, NEW f \in Flow, flow[f].at \in Working, Advance(f),
         (since[f] = 0 /\ heldAt[f] = 0) \/ ~OpOf(f).checked
  PROVE  Core'
<1>0. /\ flow[f].cmd \in AllCommands /\ flow[f].op \in 1..Len(Ops[flow[f].cmd])
      /\ flow[f].at # "idle"
      /\ flow[f].cmd = "pusher" => mtx # f
      /\ flow[f].cmd # "pusher" => mtx = f
  BY DEF Core, FlowsOK, Owner, Owning, Working
<1>1. CASE flow[f].op = Len(Ops[flow[f].cmd])
  BY <1>0, <1>1, EndsLeave, LeavesKeeps DEF Advance
<1>2. CASE flow[f].op # Len(Ops[flow[f].cmd])
  <2> DEFINE c == flow[f].cmd
             n == flow[f].op + 1
  <2>1. Arrive(f, n) /\ UNCHANGED <<abort, pause, mtx, since, heldAt>>
    BY <1>2 DEF Advance, flags, history
  <2>2. Len(Ops[c]) \in 1..3
    BY <1>0, Untested
  <2>3. n \in 1..Len(Ops[c]) /\ n # 1 /\ n - 1 = flow[f].op
    BY <1>0, <1>2, <2>2
  <2>4. \/ Ops[c][n].tested \/ OpOf(f).checked
        \/ c = "init" /\ n = Len(InitOps)
    BY <1>0, <2>3, Untested DEF OpOf
  <2>5. since[f] # 3 \/ since[f] = 0
    BY <1>0, <1>2, OpsOf DEF Core, Stopping, EndOfInit
  <2>6. heldAt[f] = 0 \/ (c = "return_home" /\ heldAt[f] = 1 /\ n = 2)
    <3> SUFFICES ASSUME heldAt[f] # 0
                 PROVE  c = "return_home" /\ heldAt[f] = 1 /\ n = 2
      OBVIOUS
    <3>1. c \in Stepping \cup {"return_home"}
      BY DEF Core, Pausing
    <3>2. c = "return_home" /\ flow[f].op = 1
      BY <1>0, <1>2, <3>1, Unchecked DEF OpOf
    <3>3. heldAt[f] = 1
      BY <3>2 DEF Core, Pausing
    <3> QED
      BY <3>2, <3>3
  <2> QED
    BY <1>0, <2>1, <2>3, <2>4, <2>5, <2>6, Arrives
<1> QED
  BY <1>1, <1>2

-----------------------------------------------------------------------------
(* Every action keeps the invariant *)

LEMMA FreeIs ==
  ASSUME \E f \in Flow : flow[f].at = "idle"
  PROVE  FreeThread \in Flow /\ flow[FreeThread].at = "idle"
BY DEF FreeThread

\* A command is entered by a thread that owns nothing
LEMMA EnterKeeps ==
  ASSUME TypeOK, Core, NEW cmd \in AllCommands, Enter(cmd)
  PROVE  Core' /\ flow' \in [Flow -> FlowType]
<1> DEFINE f == FreeThread
           r == [cmd |-> cmd, entry |-> IF cmd = "pusher" THEN state ELSE "idle",
                 step |-> IF cmd = "run" THEN 1 ELSE 0,
                 op |-> IF cmd = "pusher" THEN 1 ELSE 0,
                 at |-> CASE cmd = "run" -> "top" [] cmd = "script" -> "sweep"
                          [] cmd = "pusher" -> "try" [] OTHER -> "lock"]
<1>1. f \in Flow /\ flow[f].at = "idle"
  BY FreeIs DEF Enter
<1>2. flow' = [flow EXCEPT ![f] = r] /\ UNCHANGED <<abort, pause, mtx, since, heldAt>>
  BY DEF Enter, EnterAs, flags, history
<1>3. /\ r.cmd = cmd
      /\ r.at \in {"top", "sweep", "try", "lock"}
      /\ r.at = "try" <=> cmd = "pusher"
      /\ r.op = IF cmd = "pusher" THEN 1 ELSE 0
  OBVIOUS
<1>4. r \in FlowType
  <2>1. r.step \in 0..MaxSteps /\ r.entry \in States /\ r.op \in 0..4 /\ r.at \in Places
    BY BoundAssumption DEF TypeOK, States, Places
  <2> QED
    BY <1>3, <2>1 DEF FlowType
<1> HIDE DEF f, r
<1>5. /\ flow'[f] = r /\ (\A g \in Flow : g # f => flow'[g] = flow[g])
      /\ flow' \in [Flow -> FlowType]
  BY <1>1, <1>2, <1>4 DEF TypeOK
<1>6. mtx # f /\ since[f] = 0 /\ heldAt[f] = 0
  BY <1>1 DEF Core, Owner, Stopping, Pausing, Owning, Working
<1>7. FlowsOK'
  <2>1. cmd = "pusher" => r.op \in 1..Len(Ops[cmd])
    <3>1. Len(AttachOps) = 2
      BY DEF AttachOps
    <3> QED
      BY <1>3, <3>1, OpsOf
  <2> QED
    BY <1>3, <1>5, <2>1 DEF Core, FlowsOK, Working
<1>8. Owner'
  BY <1>2, <1>3, <1>5, <1>6 DEF Core, Owner, Owning, Working
<1>9. Stopping' /\ Pausing'
  BY <1>2, <1>5, <1>6 DEF Core, Stopping, Pausing, EndOfInit
<1> QED
  BY <1>5, <1>7, <1>8, <1>9 DEF Core

\* With motion_mtx_ free nobody is being stopped or held
LEMMA FreeMutex ==
  ASSUME Core, mtx = NoFlow
  PROVE  \A f \in Flow : since[f] = 0 /\ heldAt[f] = 0
BY NoFlowAssumption DEF Core, Stopping, Pausing

LEMMA LockKeeps ==
  ASSUME TypeOK, Core, NEW f \in Flow, Lock(f)
  PROVE  Core'
<1>1. /\ flow[f].cmd \in AllCommands /\ flow[f].cmd # "pusher"
      /\ Arrive(f, 1) /\ mtx' = f /\ mtx = NoFlow
  BY DEF Lock, Core, FlowsOK, Working
<1>2. \A g \in Flow : since'[g] = 0 /\ heldAt'[g] = 0
  BY FreeMutex DEF Lock, ClearAbort, ClearPause
<1>3. 1 \in 1..Len(Ops[flow[f].cmd])
  <2> DEFINE k == Len(Ops[flow[f].cmd])
  <2>1. /\ Len(InitOps) = 2 /\ Len(AttachOps) = 2 /\ Len(<<Unasked>>) = 1 /\ Len(<<Last>>) = 1
        /\ Len(StepOps) = 3 /\ Len(HomeOps) = 3 /\ Len(ArmSweepOps) = 2
    BY DEF InitOps, AttachOps, StepOps, HomeOps, ArmSweepOps
  <2>2. k \in {1, 2, 3}
    BY <1>1, <2>1, OpsOf DEF AllCommands, Stepping
  <2> HIDE DEF k
  <2>3. 1 \in 1..k
    BY <2>2
  <2> QED
    BY <2>3 DEF k
<1>4. /\ mtx \in {f, NoFlow}
      /\ \A g \in Flow : since'[g] = 0 \/ (since'[g] = since[g] /\ (abort => abort'))
      /\ \A g \in Flow : heldAt'[g] = 0 \/ (heldAt'[g] = heldAt[g] /\ (pause => pause'))
      /\ since'[f] = 0 /\ heldAt'[f] = 0
  BY <1>1, <1>2
<1>5. PICK n \in 1..Len(Ops[flow[f].cmd]) : n = 1
  BY <1>3
<1>6. Arrive(f, n)
  BY <1>1, <1>5
<1> QED
  BY <1>1, <1>4, <1>6, Arrives

\* A step from place to place that starts nothing leaves the flags of the others
LEMMA FlowStepKeeps ==
  ASSUME TypeOK, Core, NEW f \in Flow, FlowStep(f)
  PROVE  Core'
<1> USE DEF elsewhere, flags, history
<1>0. /\ flow \in [Flow -> FlowType]
      /\ flow[f].at # "idle" => flow[f].cmd \in AllCommands
      /\ flow[f].cmd = "pusher" /\ flow[f].at # "idle" => flow[f].at \in Working
      /\ ~abort => since[f] = 0
      /\ ~pause => heldAt[f] = 0
  BY DEF TypeOK, Core, FlowsOK, Stopping, Pausing
<1>1. CASE Sweep(f)
  <2>1. Goto(f, "sweeping") /\ mtx' = f /\ mtx = NoFlow /\ UNCHANGED <<abort, pause, since, heldAt>>
        /\ flow[f].at = "sweep"
    BY <1>1 DEF Sweep
  <2>2. /\ flow'[f].at = "sweeping" /\ flow'[f].cmd = flow[f].cmd /\ flow'[f].op = flow[f].op
        /\ \A g \in Flow : g # f => flow'[g] = flow[g]
    BY <1>0, <2>1, GotoEffect DEF Places
  <2>3. flow[f].cmd # "pusher"
    BY <1>0, <2>1 DEF Working
  <2>4. \A g \in Flow : since[g] = 0 /\ heldAt[g] = 0
    BY <2>1, FreeMutex
  <2>5. FlowsOK'
    BY <2>1, <2>2, <2>3 DEF Core, FlowsOK, Working
  <2>6. Owner'
    BY <2>1, <2>2, <2>3, NoFlowAssumption DEF Core, Owner, Owning, Working
  <2>7. Stopping' /\ Pausing'
    BY <2>1, <2>4 DEF Stopping, Pausing
  <2> QED
    BY <2>5, <2>6, <2>7 DEF Core
<1>2. CASE Swept(f)
  <2>1. Goto(f, "swept") /\ flow[f].at = "sweeping" /\ mtx' = IF mtx = f THEN NoFlow ELSE mtx
    BY <1>2 DEF Swept, Unlock
  <2>2. /\ flow'[f].at = "swept" /\ flow'[f].cmd = flow[f].cmd /\ flow'[f].op = flow[f].op
        /\ \A g \in Flow : g # f => flow'[g] = flow[g]
    BY <1>0, <2>1, GotoEffect DEF Places
  <2>3. flow[f].cmd # "pusher" /\ mtx = f
    BY <1>0, <2>1 DEF Working, Owning, Core, Owner
  <2>4. \A g \in Flow : since'[g] = 0 /\ heldAt'[g] = 0
    BY <1>2, <2>3, NoFlowAssumption DEF Swept, Unlock, TypeOK, Core, Stopping, Pausing
  <2>5. FlowsOK'
    BY <2>1, <2>2, <2>3 DEF Core, FlowsOK, Working
  <2>6. Owner'
    BY <2>1, <2>2, <2>3, NoFlowAssumption DEF Core, Owner, Owning, Working
  <2>7. Stopping' /\ Pausing'
    BY <2>4 DEF Stopping, Pausing
  <2> QED
    BY <2>5, <2>6, <2>7 DEF Core
\* Whoever has no motion_mtx_ and takes none stays out of everything
<1>3. ASSUME flow[f].at \in {"swept", "top", "failed", "done", "turn", "wait"},
             UNCHANGED <<mtx, abort, since, heldAt>>, pause => pause',
             \A g \in Flow : g # f => flow'[g] = flow[g],
             \/ flow'[f] = Idle
             \/ flow'[f].cmd = flow[f].cmd /\ flow'[f].at \in {"top", "lock", "wait"}
      PROVE  Core'
  <2>1. flow[f].cmd # "pusher" /\ flow[f].at \notin Owning
    BY <1>0, <1>3 DEF Owning, Working
  <2>2. mtx # f /\ since[f] = 0 /\ heldAt[f] = 0
    BY <2>1 DEF Core, Owner, Stopping, Pausing
  <2>3. flow'[f].at \notin Owning
    BY <1>3, IdleIs DEF Owning, Working
  <2>4. FlowsOK'
    BY <1>3, <2>1, IdleIs DEF Core, FlowsOK, Working
  <2>5. Owner'
    BY <1>3, <2>2, <2>3 DEF Core, Owner
  <2>6. Stopping' /\ Pausing'
    BY <1>3, <2>2 DEF Core, Stopping, Pausing, EndOfInit
  <2> QED
    BY <2>4, <2>5, <2>6 DEF Core
<1>4. CASE CheckSwept(f)
  <2>1. CASE Return(f)
    BY <1>0, <1>3, <1>4, <2>1, ReturnEffect DEF CheckSwept
  <2>2. CASE flow' = [flow EXCEPT ![f].step = 1, ![f].at = "top"]
    BY <1>0, <1>3, <1>4, <2>2 DEF CheckSwept, FlowType
  <2> QED
    BY <1>4, <2>1, <2>2 DEF CheckSwept
<1>5. CASE Top(f)
  <2>1. CASE Return(f)
    BY <1>0, <1>3, <1>5, <2>1, ReturnEffect DEF Top
  <2>2. CASE Goto(f, "lock")
    BY <1>0, <1>3, <1>5, <2>2, GotoEffect DEF Top, Places
  <2> QED
    BY <1>5, <2>1, <2>2 DEF Top
<1>6. CASE Lock(f)
  BY <1>6, LockKeeps
<1>7. CASE StoreResult(f)
  BY <1>0, <1>3, <1>7, ReturnEffect DEF StoreResult
<1>8. CASE Turn(f)
  BY <1>0, <1>3, <1>8, GotoEffect DEF Turn, Places
<1>9. CASE Wait(f)
  <2>1. CASE Return(f)
    BY <1>0, <1>3, <1>9, <2>1, ReturnEffect DEF Wait
  <2>2. CASE flow' = [flow EXCEPT ![f].step = @ + 1, ![f].op = 0, ![f].at = "top"]
    BY <1>0, <1>3, <1>9, <2>2 DEF Wait, FlowType
  <2> QED
    BY <1>9, <2>1, <2>2 DEF Wait
<1>10. CASE Try(f)
  <2>1. CASE abort
    BY <1>10, <2>1, EndsLeave, LeavesKeeps DEF Try, Working
  <2>2. CASE ~abort
    BY <1>0, <1>10, <2>2, GotoKeeps DEF Try, Places, Owning, Working
  <2> QED
    BY <2>1, <2>2
<1>11. CASE Begin(f)
  <2>1. Goto(f, "op") /\ flow[f].at = "go" /\ UNCHANGED <<mtx, abort, pause, heldAt>>
        /\ since' = IF since[f] \in {1, 2} THEN [since EXCEPT ![f] = @ + 1] ELSE since
    BY <1>11 DEF Begin
  <2>2. /\ flow'[f].at = "op" /\ flow'[f].cmd = flow[f].cmd /\ flow'[f].op = flow[f].op
        /\ \A g \in Flow : g # f => flow'[g] = flow[g]
    BY <1>0, <2>1, GotoEffect DEF Places
  <2>3. FlowsOK' /\ Owner' /\ Pausing'
    BY <2>1, <2>2 DEF Core, FlowsOK, Owner, Pausing, Owning, Working
  <2>4. Stopping'
    BY <2>1, <2>2 DEF TypeOK, Core, Stopping, EndOfInit
  <2> QED
    BY <2>3, <2>4 DEF Core
<1>12. CASE OpSucceeds(f)
  <2>1. CASE OpOf(f).checked
    BY <1>0, <1>12, <2>1, GotoKeeps DEF OpSucceeds, Places, Owning, Working
  <2>2. CASE ~OpOf(f).checked
    BY <1>12, <2>2, Advances DEF OpSucceeds, Working
  <2> QED
    BY <2>1, <2>2
<1>13. CASE OpFails(f)
  <2>1. CASE Goto(f, "ask") /\ UNCHANGED <<flags, mtx, history>>
    BY <1>0, <1>13, <2>1, GotoKeeps DEF OpFails, Places, Owning, Working
  <2>2. CASE GiveUp(f) \/ (flow[f].cmd = "realign" /\ Stall(f))
    BY <1>13, <2>2, EndsLeave, LeavesKeeps DEF OpFails, Working
  <2> QED
    BY <1>13, <2>1, <2>2 DEF OpFails
<1>14. CASE Check(f)
  <2>1. CASE abort /\ GiveUp(f)
    BY <1>14, <2>1, EndsLeave, LeavesKeeps DEF Check, Working
  <2>2. CASE ~abort /\ ~pause /\ Advance(f)
    BY <1>0, <1>14, <2>2, Advances DEF Check, Working
  <2> QED
    BY <1>14, <2>1, <2>2 DEF Check
<1>15. CASE Ask(f)
  BY <1>0, <1>15, GotoKeeps DEF Ask, Places, Owning, Working
<1>16. CASE Answered(f)
  <2>1. CASE GiveUp(f)
    BY <1>16, <2>1, EndsLeave, LeavesKeeps DEF Answered, Working
  <2>2. CASE \E a \in {"check", "try"} : Goto(f, a) /\ UNCHANGED <<flags, mtx, history>>
    BY <1>0, <1>16, <2>2, GotoKeeps DEF Answered, Places, Owning, Working
  <2>3. CASE ~OpOf(f).checked /\ Advance(f)
    BY <1>16, <2>3, Advances DEF Answered, Working
  <2> QED
    BY <1>16, <2>1, <2>2, <2>3 DEF Answered
<1> QED
  BY <1>1, <1>2, <1>4, <1>5, <1>6, <1>7, <1>8, <1>9, <1>10, <1>11, <1>12, <1>13, <1>14, <1>15,
     <1>16 DEF FlowStep

\* The fast commands and the threads beside them touch no flow
LEMMA BesideKeeps ==
  ASSUME TypeOK, Core,
         \/ \E c \in Client : Receive(c) \/ EmergencyStop(c) \/ FastStep(c)
         \/ Background \/ WatchdogSees \/ LinkAborts \/ TiltEmergency \/ TiltAsks \/ TiltOver
  PROVE  Core'
<1> USE DEF flags, flows, history
<1>0. \A g \in Flow : since[g] # 0 => mtx = g
  BY DEF Core, Stopping
<1>1. ASSUME UNCHANGED <<mtx, flow, abort, pause, since, heldAt>>
      PROVE  Core'
  BY <1>1, FlagsKeep
<1>2. ASSUME RaiseAbort, UNCHANGED <<mtx, flow>>,
             (heldAt' = heldAt /\ pause' = pause) \/ ClearPause
      PROVE  Core'
  <2>1. abort' /\ \A g \in Flow : since'[g] = since[g] \/ (since'[g] = 1 /\ mtx = g)
    BY <1>2 DEF RaiseAbort
  <2>2. \A g \in Flow : heldAt'[g] = 0 \/ (heldAt'[g] = heldAt[g] /\ (pause => pause'))
    BY <1>2 DEF ClearPause
  <2> QED
    BY <1>2, <2>1, <2>2, FlagsKeep
<1>3. ASSUME NEW c \in Client, Receive(c) \/ EmergencyStop(c) \/ FastStep(c)
      PROVE  Core'
  <2>1. CASE Receive(c) \/ Answer(c) \/ Stopped(c)
    BY <1>1, <2>1 DEF Receive, Answer, Stopped
  <2>2. CASE EmergencyStop(c)
    BY <1>2, <2>2 DEF EmergencyStop
  <2>3. CASE Pause(c)
    <3>1. /\ UNCHANGED <<mtx, flow, abort, since>> /\ pause'
          /\ \A g \in Flow : \/ heldAt'[g] = heldAt[g]
                            \/ (g \in Pausable /\ heldAt'[g] = flow[g].op)
      BY <2>3 DEF Pause
    <3> QED
      BY <3>1, FlagsKeep DEF Pausable
  <2>4. CASE Resume(c)
    BY <2>4, FlagsKeep DEF Resume, ClearPause
  <2>5. CASE Reset(c)
    BY <2>5, FlagsKeep DEF Reset, ClearPause, ClearAbort
  <2> QED
    BY <1>3, <2>1, <2>2, <2>3, <2>4, <2>5 DEF FastStep
<1>4. CASE Background
  BY <1>1, <1>4 DEF Background, DetachDone, WatchdogPauses, TiltStopped
<1>5. CASE WatchdogSees \/ TiltAsks \/ TiltOver
  BY <1>1, <1>5 DEF WatchdogSees, TiltAsks, TiltOver
<1>6. CASE LinkAborts \/ TiltEmergency
  BY <1>2, <1>6 DEF LinkAborts, TiltEmergency
<1> QED
  BY <1>3, <1>4, <1>5, <1>6

LEMMA CoreInit ==
  ASSUME Init
  PROVE  Core
BY NoFlowAssumption, IdleIs DEF Init, Core, FlowsOK, Owner, Stopping, Pausing, Owning, Working

LEMMA CoreStep ==
  ASSUME TypeOK, Core, [Next]_vars
  PROVE  Core'
<1>1. CASE UNCHANGED vars
  BY <1>1, FlagsKeep DEF vars, flags, flows, history
<1>2. CASE \E f \in Flow : FlowStep(f)
  BY <1>2, FlowStepKeeps
<1>3. CASE \E cmd \in Commands : Enter(cmd)
  BY <1>3, EnterKeeps, CommandsAssumption
<1> QED
  BY <1>1, <1>2, <1>3, BesideKeeps DEF Next

-----------------------------------------------------------------------------
(* Types *)

\* What the flows touch, and the rest
OwnTypes ==
  /\ state \in States /\ before \in States
  /\ reason \in Reasons
  /\ action \in {"none", "retry", "skip"}
  /\ abort \in BOOLEAN /\ pause \in BOOLEAN /\ imuAsk \in BOOLEAN
  /\ stepping \in BOOLEAN
  /\ mtx \in Flow \cup {NoFlow}
  /\ flow \in [Flow -> FlowType]
  /\ since \in [Flow -> 0..3]
  /\ heldAt \in [Flow -> 0..4]

OtherTypes ==
  /\ waitBefore \in States /\ askSent \in BOOLEAN /\ watchdog \in BOOLEAN
  /\ monitor \in {"idle", "stopping"}
  /\ fast \in [Client -> {"none", "pause", "resume", "continue", "skip", "reset", "stop"}]
  /\ detach \in BOOLEAN
  /\ given \in 0..MaxGiven /\ events \in 0..MaxEvents

LEMMA TypeParts ==
  TypeOK <=> OwnTypes /\ OtherTypes
BY DEF TypeOK, OwnTypes, OtherTypes

LEMMA Cleared ==
  ASSUME TypeOK, NEW f \in Flow
  PROVE  /\ Unlock(f) => /\ mtx' \in Flow \cup {NoFlow}
                         /\ since' \in [Flow -> 0..3] /\ heldAt' \in [Flow -> 0..4]
         /\ ClearAbort => abort' \in BOOLEAN /\ since' \in [Flow -> 0..3]
         /\ ClearPause => pause' \in BOOLEAN /\ heldAt' \in [Flow -> 0..4]
         /\ RaiseAbort => abort' \in BOOLEAN /\ since' \in [Flow -> 0..3]
         /\ NoLongerStepping(f) => stepping' \in BOOLEAN
<1>0. TRUE \in BOOLEAN /\ FALSE \in BOOLEAN
  OBVIOUS
<1>1. Unlock(f) => /\ mtx' \in Flow \cup {NoFlow}
                   /\ since' \in [Flow -> 0..3] /\ heldAt' \in [Flow -> 0..4]
  BY DEF Unlock, TypeOK
<1>2. ClearAbort => abort' \in BOOLEAN /\ since' \in [Flow -> 0..3]
  <2>1. ClearAbort => since' \in [Flow -> 0..3]
    BY DEF ClearAbort
  <2>2. ClearAbort => abort' \in BOOLEAN
    BY <1>0, Zenon DEF ClearAbort
  <2> QED
    BY <2>1, <2>2
<1>3. ClearPause => pause' \in BOOLEAN /\ heldAt' \in [Flow -> 0..4]
  <2>1. ClearPause => heldAt' \in [Flow -> 0..4]
    BY DEF ClearPause
  <2>2. ClearPause => pause' \in BOOLEAN
    BY <1>0, Zenon DEF ClearPause
  <2> QED
    BY <2>1, <2>2
<1>4. RaiseAbort => abort' \in BOOLEAN /\ since' \in [Flow -> 0..3]
  <2>1. RaiseAbort => since' \in [Flow -> 0..3]
    BY DEF RaiseAbort, TypeOK
  <2>2. RaiseAbort => abort' \in BOOLEAN
    BY <1>0, Zenon DEF RaiseAbort
  <2> QED
    BY <2>1, <2>2
<1>5. NoLongerStepping(f) => stepping' \in BOOLEAN
  <2>1. stepping \in BOOLEAN
    BY DEF TypeOK
  <2>2. NoLongerStepping(f) => stepping' = FALSE \/ stepping' = stepping
    BY DEF NoLongerStepping
  <2> QED
    BY <1>0, <2>1, <2>2, Zenon
<1> QED
  BY <1>1, <1>2, <1>3, <1>4, <1>5

\* However a flow ends, the types are kept
LEMMA EndsTyped ==
  ASSUME TypeOK, Core, NEW f \in Flow, flow[f].at \in Working,
         GiveUp(f) \/ Succeed(f) \/ Stall(f)
  PROVE  OwnTypes'
<1> USE DEF flags, pausing, history
<1>0. /\ flow \in [Flow -> FlowType] /\ OwnTypes /\ flow[f] \in FlowType
      /\ flow[f].cmd \in AllCommands
  BY TypeParts DEF TypeOK, Core, FlowsOK, Working
<1>1. /\ Return(f) => flow' \in [Flow -> FlowType]
      /\ \A a \in {"failed", "done", "turn"} : Goto(f, a) => flow' \in [Flow -> FlowType]
  BY <1>0, ReturnEffect, GotoEffect DEF Places
<1>2. flow[f].entry \in States /\ {"error", "paused", "attached"} \subseteq States
  BY <1>0 DEF FlowType, States
<1>3. CASE GiveUp(f)
  BY <1>0, <1>1, <1>2, <1>3, Cleared DEF GiveUp, OwnTypes
<1>4. CASE Stall(f)
  <2>1. "error" \in Reasons
    BY DEF Reasons
  <2> QED
    BY <1>0, <1>1, <1>2, <1>4, <2>1, Cleared DEF Stall, OwnTypes
<1>5. CASE Succeed(f)
  <2>1. CASE flow[f].cmd \in {"step", "realign", "pusher", "arm_sweep"} \cup Loops
    <3>1. /\ UNCHANGED <<state, pausing, flags, stepping>> /\ Unlock(f)
          /\ Return(f) \/ \E a \in {"failed", "done", "turn"} : Goto(f, a)
      BY <1>5, <2>1 DEF Succeed, Loops
    <3> QED
      BY <1>0, <1>1, <3>1, Cleared DEF OwnTypes
  <2>2. CASE flow[f].cmd = "recover"
    <3>1. /\ abort' = FALSE /\ pause' = FALSE /\ imuAsk' = FALSE /\ state' = "attached"
          /\ mtx' = NoFlow /\ since' = [g \in Flow |-> 0] /\ heldAt' = [g \in Flow |-> 0]
          /\ Return(f) /\ UNCHANGED <<pausing, stepping>>
      BY <1>5, <2>2 DEF Succeed, Loops
    <3>2. since' \in [Flow -> 0..3] /\ heldAt' \in [Flow -> 0..4] /\ flow' \in [Flow -> FlowType]
      BY <1>1, <3>1
    <3>3. FALSE \in BOOLEAN
      OBVIOUS
    <3>4. abort' \in BOOLEAN /\ pause' \in BOOLEAN /\ imuAsk' \in BOOLEAN
      BY <3>1, <3>3, Zenon
    <3> QED
      BY <1>0, <1>2, <3>1, <3>2, <3>4 DEF OwnTypes
  <2>3. CASE flow[f].cmd \in {"init", "attach", "detach", "return_home"}
    <3>1. EndState[flow[f].cmd] \in States
      BY <2>3 DEF EndState, States
    <3> QED
      BY <1>0, <1>1, <1>5, <2>3, <3>1, Cleared DEF Succeed, OwnTypes, Loops
  <2> QED
    BY <1>0, <2>1, <2>2, <2>3 DEF AllCommands, Loops
<1> QED
  BY <1>3, <1>4, <1>5

LEMMA AdvanceTyped ==
  ASSUME TypeOK, Core, NEW f \in Flow, flow[f].at \in Working, Advance(f)
  PROVE  OwnTypes'
<1>0. /\ flow[f].cmd \in AllCommands /\ flow[f].op \in 1..Len(Ops[flow[f].cmd])
      /\ OwnTypes
  BY TypeParts DEF Core, FlowsOK, Working
<1>1. CASE flow[f].op = Len(Ops[flow[f].cmd])
  BY <1>1, EndsTyped DEF Advance
<1>2. CASE flow[f].op # Len(Ops[flow[f].cmd])
  <2>1. flow[f].op + 1 \in 1..4
    BY <1>0, Untested
  <2>2. flow' \in [Flow -> FlowType]
    BY <1>0, <1>2, <2>1, ArriveEffect DEF Advance, OwnTypes
  <2> QED
    BY <1>0, <1>2, <2>2 DEF Advance, OwnTypes, flags, pausing, history
<1> QED
  BY <1>1, <1>2

LEMMA FlowStepTyped ==
  ASSUME TypeOK, Core, NEW f \in Flow, FlowStep(f)
  PROVE  TypeOK'
<1> USE DEF flags, pausing, history, bounds
<1>0. /\ flow \in [Flow -> FlowType] /\ flow[f] \in FlowType
      /\ OwnTypes /\ OtherTypes
      /\ {"error", "paused", "attached"} \subseteq States
      /\ "error" \in Reasons
      /\ {"go", "op", "check", "ask", "try", "lock", "wait", "parked", "sweeping", "swept"} \subseteq Places
      /\ Return(f) => flow' \in [Flow -> FlowType]
  BY TypeParts, ReturnEffect DEF TypeOK, States, Reasons, Places
<1>1. \A a \in Places : Goto(f, a) => flow' \in [Flow -> FlowType]
  BY <1>0, GotoEffect
<1>2. ASSUME UNCHANGED elsewhere, OwnTypes'
      PROVE  TypeOK'
  <2>1. OtherTypes'
    BY <1>0, <1>2 DEF OtherTypes, elsewhere, imu
  <2> QED
    BY <1>2, <2>1, TypeParts, PTL
<1>3. ASSUME UNCHANGED <<state, pausing, flags, stepping>>, Unlock(f) \/ UNCHANGED <<mtx, history>>,
             flow' \in [Flow -> FlowType]
      PROVE  OwnTypes'
  BY <1>0, <1>3, Cleared DEF OwnTypes
<1>4. CASE Sweep(f)
  <2>1. UNCHANGED <<state, pausing, flags, stepping, since, heldAt, elsewhere>> /\ mtx' = f
        /\ flow' \in [Flow -> FlowType]
    BY <1>0, <1>1, <1>4 DEF Sweep, elsewhere
  <2>2. OwnTypes'
    BY <1>0, <2>1 DEF OwnTypes
  <2> QED
    BY <1>2, <2>1, <2>2
<1>5. CASE Swept(f)
  <2>1. UNCHANGED <<state, pausing, flags, stepping, elsewhere>> /\ Unlock(f)
        /\ flow' \in [Flow -> FlowType]
    BY <1>0, <1>1, <1>5 DEF Swept, elsewhere
  <2>2. OwnTypes'
    BY <1>3, <2>1
  <2> QED
    BY <1>2, <2>1, <2>2
<1>6. CASE CheckSwept(f)
  <2>1. UNCHANGED <<pausing, flags, mtx, stepping, history, elsewhere>>
        /\ (state' = "error" \/ state' = state)
    BY <1>6 DEF CheckSwept, elsewhere
  <2>2. flow' = [flow EXCEPT ![f].step = 1, ![f].at = "top"] => flow' \in [Flow -> FlowType]
    <3> DEFINE r == [flow[f] EXCEPT !.step = 1, !.at = "top"]
    <3>0. 1 \in 0..MaxSteps /\ "top" \in Places
      BY BoundAssumption DEF Places
    <3>1. r \in FlowType
      BY <1>0, <3>0 DEF FlowType
    <3>2. flow' = [flow EXCEPT ![f].step = 1, ![f].at = "top"] => flow' = [flow EXCEPT ![f] = r]
      OBVIOUS
    <3> HIDE DEF r
    <3> QED
      BY <1>0, <3>1, <3>2
  <2>3. flow' \in [Flow -> FlowType]
    BY <1>0, <1>6, <2>2 DEF CheckSwept
  <2>4. OwnTypes'
    BY <1>0, <2>1, <2>3 DEF OwnTypes
  <2> QED
    BY <1>2, <2>1, <2>4
<1>7. CASE Top(f)
  <2>1. UNCHANGED <<pausing, flags, mtx, history, elsewhere>>
        /\ (state' = "error" \/ state' = state)
        /\ flow' \in [Flow -> FlowType]
    BY <1>0, <1>1, <1>7 DEF Top, elsewhere
  <2>2. stepping' \in BOOLEAN
    <3>1. stepping' = stepping \/ stepping' = (stepping \/ flow[f].cmd = "script")
      BY <1>7 DEF Top
    <3>2. stepping \in BOOLEAN
      BY <1>0 DEF OwnTypes
    <3>3. (stepping \/ flow[f].cmd = "script") \in BOOLEAN
      OBVIOUS
    <3> QED
      BY <3>1, <3>2, <3>3, Zenon
  <2>3. OwnTypes'
    BY <1>0, <2>1, <2>2 DEF OwnTypes
  <2> QED
    BY <1>2, <2>1, <2>3
<1>8. CASE Lock(f)
  <2>1. UNCHANGED <<state, pausing, imuAsk, elsewhere>> /\ mtx' = f
    BY <1>8 DEF Lock, elsewhere
  <2>2. flow' \in [Flow -> FlowType]
    BY <1>0, <1>8, ArriveEffect DEF Lock
  <2>3. abort' \in BOOLEAN /\ since' \in [Flow -> 0..3]
    BY <1>0, <1>8, Cleared DEF Lock, OwnTypes
  <2>4. pause' \in BOOLEAN /\ heldAt' \in [Flow -> 0..4]
    BY <1>0, <1>8, Cleared DEF Lock, OwnTypes
  <2>5. stepping' \in BOOLEAN
    <3>1. (stepping' = TRUE \/ stepping' = stepping) /\ TRUE \in BOOLEAN /\ stepping \in BOOLEAN
      BY <1>0, <1>8 DEF Lock, OwnTypes
    <3> QED
      BY <3>1, Zenon
  <2>6. OwnTypes'
    BY <1>0, <2>1, <2>2, <2>3, <2>4, <2>5 DEF OwnTypes
  <2> QED
    BY <1>2, <2>1, <2>6
<1>9. CASE StoreResult(f)
  <2>1. UNCHANGED <<pausing, flags, mtx, history, elsewhere>>
        /\ state' \in {"error", "attached"} /\ flow' \in [Flow -> FlowType]
    BY <1>0, <1>9 DEF StoreResult
  <2>2. stepping' \in BOOLEAN
    BY <1>9, Cleared DEF StoreResult
  <2>3. OwnTypes'
    BY <1>0, <2>1, <2>2 DEF OwnTypes
  <2> QED
    BY <1>2, <2>1, <2>3
<1>10. CASE Turn(f)
  <2>1. UNCHANGED <<state, pausing, abort, imuAsk, mtx, stepping, history, elsewhere>>
        /\ flow' \in [Flow -> FlowType]
    BY <1>0, <1>1, <1>10 DEF Turn
  <2>2. pause' \in BOOLEAN
    <3>1. pause' = (pause \/ imuAsk) /\ (pause \/ imuAsk) \in BOOLEAN
      BY <1>10 DEF Turn
    <3> QED
      BY <3>1, Zenon
  <2>3. OwnTypes'
    BY <1>0, <2>1, <2>2 DEF OwnTypes
  <2> QED
    BY <1>2, <2>1, <2>3
<1>11. CASE Wait(f)
  <2>1. UNCHANGED <<pausing, flags, mtx, history, elsewhere>>
        /\ (state' \in {"error", "attached"} \/ state' = state)
    BY <1>11 DEF Wait
  <2>2. ASSUME MoreSteps(f), flow' = [flow EXCEPT ![f].step = @ + 1, ![f].op = 0, ![f].at = "top"]
        PROVE  flow' \in [Flow -> FlowType]
    <3> DEFINE r == [flow[f] EXCEPT !.step = @ + 1, !.op = 0, !.at = "top"]
    <3>1. flow[f].step \in 0..MaxSteps /\ flow[f].step < MaxSteps
      BY <1>0, <2>2 DEF FlowType, MoreSteps
    <3>2. flow[f].step + 1 \in 0..MaxSteps
      BY <3>1, BoundAssumption
    <3>5. 0 \in 0..4 /\ "top" \in Places
      BY DEF Places
    <3>3. r \in FlowType
      BY <1>0, <3>2, <3>5 DEF FlowType
    <3>4. flow' = [flow EXCEPT ![f] = r]
      BY <2>2
    <3> HIDE DEF r
    <3> QED
      BY <1>0, <3>3, <3>4
  <2>3. flow' \in [Flow -> FlowType]
    BY <1>0, <1>11, <2>2 DEF Wait
  <2>4. stepping' \in BOOLEAN
    BY <1>11, Cleared DEF Wait
  <2>5. OwnTypes'
    BY <1>0, <2>1, <2>3, <2>4 DEF OwnTypes
  <2> QED
    BY <1>2, <2>1, <2>5
<1>12. CASE Try(f)
  <2>1. CASE GiveUp(f)
    BY <1>2, <1>12, <2>1, EndsTyped DEF Try, Working
  <2>2. CASE Goto(f, "go") /\ UNCHANGED <<state, pausing, flags, mtx, stepping, history>>
    BY <1>0, <1>1, <1>2, <1>3, <1>12, <2>2 DEF Try
  <2> QED
    BY <1>12, <2>1, <2>2 DEF Try
<1>13. CASE Begin(f)
  <2>1. UNCHANGED <<state, pausing, flags, mtx, stepping, heldAt, elsewhere>>
        /\ flow' \in [Flow -> FlowType]
    BY <1>0, <1>1, <1>13 DEF Begin
  <2>2. since' \in [Flow -> 0..3]
    BY <1>0, <1>13 DEF Begin, OwnTypes
  <2>3. OwnTypes'
    BY <1>0, <2>1, <2>2 DEF OwnTypes
  <2> QED
    BY <1>2, <2>1, <2>3
<1>14. CASE OpSucceeds(f)
  <2>1. CASE Advance(f)
    BY <1>2, <1>14, <2>1, AdvanceTyped DEF OpSucceeds, Working
  <2>2. CASE Goto(f, "check") /\ UNCHANGED <<state, pausing, flags, mtx, stepping, history>>
    BY <1>0, <1>1, <1>2, <1>3, <1>14, <2>2 DEF OpSucceeds
  <2> QED
    BY <1>14, <2>1, <2>2 DEF OpSucceeds
<1>15. CASE OpFails(f)
  <2>1. OtherTypes'
    <3>1. events' \in 0..MaxEvents
      BY <1>0, <1>15, BoundAssumption DEF OpFails, Event, OtherTypes
    <3> QED
      BY <1>0, <1>15, <3>1 DEF OpFails, OtherTypes, imu
  <2>2. OwnTypes'
    <3>1. CASE GiveUp(f) \/ Stall(f)
      BY <1>15, <3>1, EndsTyped DEF OpFails, Working
    <3>2. CASE Goto(f, "ask") /\ UNCHANGED <<state, pausing, flags, mtx, stepping, history>>
      BY <1>0, <1>1, <1>3, <3>2
    <3> QED
      BY <1>15, <3>1, <3>2 DEF OpFails
  <2> QED
    BY <2>1, <2>2, TypeParts, PTL
<1>16. CASE Check(f)
  <2>1. CASE Advance(f)
    BY <1>2, <1>16, <2>1, AdvanceTyped DEF Check, Working
  <2>2. CASE GiveUp(f)
    BY <1>2, <1>16, <2>2, EndsTyped DEF Check, Working
  <2> QED
    BY <1>16, <2>1, <2>2 DEF Check
<1>17. CASE Ask(f)
  <2>1. UNCHANGED <<flags, mtx, stepping, history, elsewhere>>
        /\ before' \in States /\ action' = "none" /\ reason' = "error" /\ state' = "paused"
        /\ flow' \in [Flow -> FlowType]
    BY <1>0, <1>1, <1>17 DEF Ask, OwnTypes
  <2>2. OwnTypes'
    BY <1>0, <2>1 DEF OwnTypes
  <2> QED
    BY <1>2, <2>1, <2>2
<1>18. CASE Answered(f)
  <2>1. CASE Advance(f)
    BY <1>2, <1>18, <2>1, AdvanceTyped DEF Answered, Working
  <2>2. CASE GiveUp(f)
    BY <1>2, <1>18, <2>2, EndsTyped DEF Answered, Working
  <2>3. CASE (Goto(f, "check") \/ Goto(f, "try")) /\ UNCHANGED <<state, pausing, flags, mtx, stepping, history>>
    BY <1>0, <1>1, <1>2, <1>3, <1>18, <2>3 DEF Answered
  <2> QED
    BY <1>18, <2>1, <2>2, <2>3 DEF Answered
<1> QED
  BY <1>4, <1>5, <1>6, <1>7, <1>8, <1>9, <1>10, <1>11, <1>12, <1>13, <1>14, <1>15, <1>16,
     <1>17, <1>18 DEF FlowStep

LEMMA EnterTyped ==
  ASSUME TypeOK, Core, NEW cmd \in AllCommands, Enter(cmd)
  PROVE  TypeOK'
<1>1. flow' \in [Flow -> FlowType]
  BY EnterKeeps
<1>2. given' \in 0..MaxGiven
  BY BoundAssumption DEF TypeOK, Enter, EnterAs
<1>3. state' \in States
  BY DEF TypeOK, Enter, EnterAs, States
<1>4. stepping' \in BOOLEAN
  <2>1. (stepping' = TRUE \/ stepping' = stepping) /\ TRUE \in BOOLEAN /\ stepping \in BOOLEAN
    BY DEF TypeOK, Enter, EnterAs
  <2> QED
    BY <2>1, Zenon
<1>5. UNCHANGED <<pausing, flags, mtx, fast, detach, watchdog, imu, history, events>>
  BY DEF Enter, EnterAs
<1> QED
  BY <1>1, <1>2, <1>3, <1>4, <1>5 DEF TypeOK, pausing, flags, imu, history

LEMMA BesideTyped ==
  ASSUME TypeOK, Core,
         \/ \E c \in Client : Receive(c) \/ EmergencyStop(c) \/ FastStep(c)
         \/ Background \/ WatchdogSees \/ LinkAborts \/ TiltEmergency \/ TiltAsks \/ TiltOver
  PROVE  TypeOK'
<1> USE DEF flags, flows, pausing, imu, history, bounds
<1>0. TRUE \in BOOLEAN /\ FALSE \in BOOLEAN
  OBVIOUS
<1>1. Event => events' \in 0..MaxEvents
  BY BoundAssumption DEF Event, TypeOK
<1>2. /\ ClearAbort => abort' \in BOOLEAN /\ since' \in [Flow -> 0..3]
      /\ ClearPause => pause' \in BOOLEAN /\ heldAt' \in [Flow -> 0..4]
      /\ RaiseAbort => abort' \in BOOLEAN /\ since' \in [Flow -> 0..3]
  <2>1. CASE Flow = {}
    <3>1. (ClearAbort => abort' = FALSE) /\ (ClearPause => pause' = FALSE) /\ (RaiseAbort => abort' = TRUE)
      BY DEF ClearAbort, ClearPause, RaiseAbort
    <3>2. /\ ClearAbort \/ RaiseAbort => since' \in [Flow -> 0..3]
          /\ ClearPause => heldAt' \in [Flow -> 0..4]
      BY DEF ClearAbort, ClearPause, RaiseAbort, TypeOK
    <3>3. (ClearAbort => abort' \in BOOLEAN) /\ (ClearPause => pause' \in BOOLEAN) /\ (RaiseAbort => abort' \in BOOLEAN)
      BY <1>0, <3>1, Zenon
    <3> QED
      BY <3>2, <3>3
  <2>2. CASE Flow # {}
    BY <2>2, Cleared
  <2> QED
    BY <2>1, <2>2
<1>3. {"idle", "running", "paused", "error"} \subseteq States /\ {"none", "user", "error", "balance_ask"} \subseteq Reasons
  BY DEF States, Reasons
<1>4. ASSUME NEW c \in Client, Receive(c) \/ EmergencyStop(c) \/ FastStep(c)
      PROVE  TypeOK'
  <2>0. Replied(c) => fast' \in [Client -> {"none", "pause", "resume", "continue", "skip", "reset", "stop"}]
    BY DEF TypeOK, Replied
  <2>1. CASE Receive(c)
    <3>1. fast' \in [Client -> {"none", "pause", "resume", "continue", "skip", "reset", "stop"}]
      BY <2>1 DEF TypeOK, Receive, Admits
    <3>2. events' \in 0..MaxEvents
      BY <1>1, <2>1 DEF TypeOK, Receive
    <3>3. UNCHANGED <<state, pausing, flags, flows, detach, watchdog, imu, history, given>>
      BY <2>1 DEF Receive
    <3> QED
      BY <3>1, <3>2, <3>3 DEF TypeOK
  <2>2. CASE EmergencyStop(c)
    <3>1. fast' \in [Client -> {"none", "pause", "resume", "continue", "skip", "reset", "stop"}]
      BY <2>2 DEF TypeOK, EmergencyStop
    <3> QED
      BY <1>1, <1>2, <2>2, <3>1 DEF TypeOK, EmergencyStop
  <2>3. CASE Pause(c)
    <3>1. pause' \in BOOLEAN
      BY <1>0, <2>3, Zenon DEF Pause
    <3>2. heldAt' \in [Flow -> 0..4]
      BY <2>3 DEF Pause, TypeOK, FlowType
    <3>3. before' = "running" /\ reason' = "user" /\ state' = "paused" /\ Replied(c)
          /\ UNCHANGED <<action, abort, imuAsk, flows, detach, watchdog, imu, since, bounds>>
      BY <2>3 DEF Pause
    <3> QED
      BY <1>3, <2>0, <3>1, <3>2, <3>3 DEF TypeOK
  <2>4. CASE Resume(c)
    BY <1>2, <1>3, <2>0, <2>4 DEF TypeOK, Resume
  <2>5. CASE Answer(c)
    BY <1>3, <2>0, <2>5 DEF TypeOK, Answer
  <2>6. CASE Reset(c)
    <3>1. imuAsk' \in BOOLEAN
      BY <1>0, <2>6, Zenon DEF Reset
    <3>2. ClearAbort /\ ClearPause /\ reason' = "none" /\ state' = "idle" /\ Replied(c)
          /\ UNCHANGED <<before, action, flows, detach, watchdog, imu, bounds>>
      BY <2>6 DEF Reset
    <3> QED
      BY <1>2, <1>3, <2>0, <3>1, <3>2 DEF TypeOK
  <2>7. CASE Stopped(c)
    <3>1. detach' \in BOOLEAN
      BY <1>0, <2>7, Zenon DEF Stopped
    <3>2. state' = "error" /\ Replied(c) /\ UNCHANGED <<pausing, flags, flows, watchdog, imu, history, bounds>>
      BY <2>7 DEF Stopped
    <3> QED
      BY <1>3, <2>0, <3>1, <3>2 DEF TypeOK
  <2> QED
    BY <1>4, <2>1, <2>2, <2>3, <2>4, <2>5, <2>6, <2>7 DEF FastStep
<1>5. CASE DetachDone
  <2>1. detach' \in BOOLEAN
    BY <1>0, <1>5, Zenon DEF DetachDone
  <2> QED
    BY <1>3, <1>5, <2>1 DEF TypeOK, DetachDone
<1>6. CASE WatchdogPauses \/ WatchdogSees
  <2>1. watchdog' \in BOOLEAN
    BY <1>0, <1>6, Zenon DEF WatchdogPauses, WatchdogSees
  <2> QED
    BY <1>1, <1>3, <1>6, <2>1 DEF TypeOK, WatchdogPauses, WatchdogSees
<1>7. CASE TiltStopped
  BY <1>3, <1>7 DEF TypeOK, TiltStopped
<1>8. CASE LinkAborts
  BY <1>1, <1>2, <1>8 DEF TypeOK, LinkAborts
<1>9. CASE TiltEmergency
  BY <1>1, <1>2, <1>9 DEF TypeOK, TiltEmergency
<1>10. CASE TiltAsks \/ TiltOver
  <2>1. askSent' \in BOOLEAN /\ imuAsk' \in BOOLEAN
    BY <1>0, <1>10, Zenon DEF TiltAsks, TiltOver
  <2> QED
    BY <1>1, <1>3, <1>10, <2>1 DEF TypeOK, TiltAsks, TiltOver
<1> QED
  BY <1>4, <1>5, <1>6, <1>7, <1>8, <1>9, <1>10 DEF Background

LEMMA TypeInit ==
  ASSUME Init
  PROVE  TypeOK
<1>1. Idle \in FlowType
  BY BoundAssumption DEF Idle, FlowType, Places, States
<1>2. FALSE \in BOOLEAN
  OBVIOUS
<1>3. /\ abort \in BOOLEAN /\ pause \in BOOLEAN /\ imuAsk \in BOOLEAN /\ askSent \in BOOLEAN
      /\ stepping \in BOOLEAN /\ detach \in BOOLEAN /\ watchdog \in BOOLEAN
  BY <1>2, Zenon DEF Init
<1> QED
  BY <1>1, <1>3, BoundAssumption DEF Init, TypeOK, States, Reasons

LEMMA TypeStep ==
  ASSUME TypeOK, Core, [Next]_vars
  PROVE  TypeOK'
<1>1. CASE UNCHANGED vars
  BY <1>1 DEF vars, flags, flows, pausing, imu, history, bounds, TypeOK
<1>2. CASE \E f \in Flow : FlowStep(f)
  BY <1>2, FlowStepTyped
<1>3. CASE \E cmd \in Commands : Enter(cmd)
  BY <1>3, EnterTyped, CommandsAssumption
<1> QED
  BY <1>1, <1>2, <1>3, BesideTyped DEF Next

-----------------------------------------------------------------------------
(* The theorems *)

\* Every variable keeps its type, and a loop makes no step beyond those it was asked for
\* (cmd_run, cmd_run_script).
THEOREM TypeCorrect == Spec => []TypeOK
<1>1. Init => TypeOK /\ Core
  BY TypeInit, CoreInit
<1>2. (TypeOK /\ Core) /\ [Next]_vars => (TypeOK /\ Core)'
  BY TypeStep, CoreStep
<1> QED
  BY <1>1, <1>2, PTL DEF Spec

\* A flow past motion_mtx_ begins at most one operation after an emergency stop, however
\* many flows, connections and interfering threads there are (try_or_pause_,
\* check_abort_, await_user_intervention_).
THEOREM StopCorrect == Spec => []StopHolds
<1>1. Init => TypeOK /\ Core
  BY TypeInit, CoreInit
<1>2. (TypeOK /\ Core) /\ [Next]_vars => (TypeOK /\ Core)'
  BY TypeStep, CoreStep
<1>3. TypeOK /\ Core => StopHolds
  <2> SUFFICES ASSUME TypeOK, Core, NEW f \in Flow
               PROVE  since[f] <= 2 \/ (flow[f].cmd = "init" /\ flow[f].op = Len(InitOps))
    BY DEF StopHolds
  <2>1. since[f] \in 0..3 /\ (since[f] = 3 => EndOfInit(f))
    BY DEF TypeOK, Core, Stopping
  <2> QED
    BY <2>1 DEF EndOfInit
<1> QED
  BY <1>1, <1>2, <1>3, PTL DEF Spec

\* A step, a run, a script or a return_home gets at most one operation beyond the one at
\* which cmd_pause found it (check_abort_).
THEOREM PauseCorrect == Spec => []PauseHolds
<1>1. Init => TypeOK /\ Core
  BY TypeInit, CoreInit
<1>2. (TypeOK /\ Core) /\ [Next]_vars => (TypeOK /\ Core)'
  BY TypeStep, CoreStep
<1>3. TypeOK /\ Core => PauseHolds
  BY DEF TypeOK, FlowType, Core, Pausing, PauseHolds
<1> QED
  BY <1>1, <1>2, <1>3, PTL DEF Spec
=============================================================================
