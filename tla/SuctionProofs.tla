---------------------------- MODULE SuctionProofs ----------------------------
(***************************************************************************)
(* What holds the body to the glass, for any number of threads, cups,      *)
(* pumps and mishaps.  Pumps: its types with the exclusion of two swaps,   *)
(* and that no swap leaves both pumps off.  Pushers: its types, what a     *)
(* retract and an extension leave behind, and what an extension learns.    *)
(***************************************************************************)
EXTENDS Pumps, Pushers, TLAPS

-----------------------------------------------------------------------------
(* Pumps.                                                                  *)

\* The two halves of TypeOK: where the threads are, and what the variables hold
Places ==
  /\ pc \in [Thread -> {"idle"} \cup OpLabel \cup SwapLabel]
  /\ \A o \in Op : pc[o] \in {"idle"} \cup OpLabel
  /\ \A t \in Swapper : pc[t] \in {"idle"} \cup SwapLabel
  /\ \A t, u \in Swapper : pc[t] \in Inside /\ pc[u] \in Inside => t = u
  /\ swapping \in BOOLEAN
  /\ swapping <=> \E t \in Swapper : pc[t] \in Inside

Values ==
  /\ relay \in [Channel -> BOOLEAN]
  /\ active \in Pump
  /\ auto \in BOOLEAN /\ counting \in BOOLEAN /\ rotating \in BOOLEAN /\ wanted \in BOOLEAN
  /\ state \in {"idle", "ready", "work", "error"}
  /\ ch \in [Thread -> Channel] /\ tries \in [Thread -> 0..MaxVerify-1]
  /\ on \in [Thread -> BOOLEAN] /\ deep \in [Thread -> BOOLEAN]
  /\ faults \in 0..MaxFaults /\ commands \in 0..MaxCommands
  /\ why \in SUBSET {"unseen", "overlapped"}
  /\ \A t \in Swapper : ch[t] \in Pump

LEMMA TwoHalves == TypeOK <=> Places /\ Values
BY DEF TypeOK, Places, Values

-----------------------------------------------------------------------------
(* What the exchanges with the board do *)

\* A write sets its relay or is lost; nothing else of the board changes
LEMMA WriteEffect ==
  ASSUME Values, NEW c \in Channel, NEW v \in BOOLEAN, Sent(c, v) \/ SendFails
  PROVE  /\ relay' = relay \/ relay' = [relay EXCEPT ![c] = v]
         /\ relay' \in [Channel -> BOOLEAN]
         /\ faults' \in 0..MaxFaults
<1>1. relay' = relay \/ relay' = [relay EXCEPT ![c] = v]
  BY DEF Sent, SendFails, Fault
<1>2. faults' \in 0..MaxFaults
  BY BoundAssumption DEF Values, Sent, SendFails, Fault
<1> QED
  BY <1>1, <1>2 DEF Values

\* A readback writes at most its own relay, and goes to one of its three labels; one
\* that is done saw the relay as wanted, or did not see it
LEMMA ReadbackEffect ==
  ASSUME Values, NEW t \in Thread, NEW c \in Channel, NEW v \in BOOLEAN,
         NEW look, NEW done, NEW failed, Readback(t, c, v, look, done, failed)
  PROVE  /\ relay' = relay \/ relay' = [relay EXCEPT ![c] = v]
         /\ relay' \in [Channel -> BOOLEAN]
         /\ faults' \in 0..MaxFaults
         /\ tries' \in [Thread -> 0..MaxVerify-1]
         /\ Goto(t, look) \/ Goto(t, done) \/ Goto(t, failed)
         /\ relay[c] /\ UNCHANGED faults /\ v => relay'[c]
<1>1. CASE Passes(t, c, v) /\ Goto(t, done) /\ tries' = [tries EXCEPT ![t] = 0]
  <2>1. relay' = relay \/ relay' = [relay EXCEPT ![c] = v]
    BY <1>1 DEF Passes, board, Sent
  <2>2. faults' \in 0..MaxFaults
    BY <1>1, BoundAssumption DEF Values, Passes, board, Sent, Fault
  <2>3. tries' \in [Thread -> 0..MaxVerify-1]
    BY <1>1, BoundAssumption DEF Values
  <2>4. relay[c] /\ UNCHANGED faults /\ v => relay'[c]
    BY <1>1, <2>1 DEF Values
  <2> QED
    BY <1>1, <2>1, <2>2, <2>3, <2>4 DEF Values
<1>2. CASE Repeats(t, c, v, look, failed)
  <2>1. relay' = relay \/ relay' = [relay EXCEPT ![c] = v]
    BY <1>2 DEF Repeats, Sent, SendFails
  <2>2. faults' \in 0..MaxFaults
    BY <1>2, BoundAssumption DEF Values, Repeats, Sent, SendFails, Fault
  <2>3. tries' \in [Thread -> 0..MaxVerify-1]
    BY <1>2, BoundAssumption DEF Values, Repeats, LastTry
  <2>4. Goto(t, look) \/ Goto(t, failed)
    BY <1>2 DEF Repeats
  <2>5. relay[c] /\ UNCHANGED faults /\ v => relay'[c]
    BY <2>1 DEF Values
  <2> QED
    BY <2>1, <2>2, <2>3, <2>4, <2>5 DEF Values
<1> QED
  BY <1>1, <1>2 DEF Readback

\* The channel that comes is the other pump
LEMMA OtherDiffers ==
  ASSUME NEW p \in Pump
  PROVE  OtherPump(p) \in Pump /\ OtherPump(p) # p
BY PumpAssumption DEF OtherPump, Pump

LEMMA PhaseLabels ==
  ASSUME NEW p \in Phase
  PROVE  p \in Inside /\ Look[p] \in Inside /\ Done[p] \in Inside /\ Failed[p] \in Inside
BY DEF Phase, Look, Done, Failed, Inside

-----------------------------------------------------------------------------
(* Types *)

\* A thread of a command never comes inside a swap
LEMMA OpMoves ==
  ASSUME Places, NEW o \in Op, NEW l \in {"idle"} \cup OpLabel, Goto(o, l), UNCHANGED swapping
  PROVE  Places'
BY ThreadAssumption DEF Places, Goto, Thread, Swapper

\* One that swaps stays inside, or outside
LEMMA SwapMoves ==
  ASSUME Places, NEW t \in Swapper, NEW l \in {"idle"} \cup SwapLabel, Goto(t, l),
         UNCHANGED swapping, pc[t] \in Inside <=> l \in Inside
  PROVE  Places'
<1>1. /\ pc' \in [Thread -> {"idle"} \cup OpLabel \cup SwapLabel]
      /\ \A o \in Op : pc'[o] = pc[o]
      /\ \A u \in Swapper : pc'[u] = IF u = t THEN l ELSE pc[u]
  BY ThreadAssumption DEF Places, Goto, Thread, Swapper
<1> QED
  BY <1>1 DEF Places

\* ... and no swap is entered while one is under way
LEMMA PlacesStep == TypeOK /\ [Next]_vars => Places'
<1> SUFFICES ASSUME Places, Values, [Next]_vars
             PROVE  Places'
  BY TwoHalves
<1> USE DEF mode
<1>1. ASSUME NEW t \in Swapper, EnterSwap(t)
      PROVE  Places'
  <2>1. CASE swapping
    BY <1>1, <2>1, ThreadAssumption
       DEF EnterSwap, MayEnter, Places, Goto, Thread, Swapper, SwapLabel, Inside, Phase
  <2>2. CASE ~swapping
    <3>1. TRUE \in BOOLEAN
      OBVIOUS
    <3>2. /\ pc' \in [Thread -> {"idle"} \cup OpLabel \cup SwapLabel]
          /\ \A o \in Op : pc'[o] = pc[o]
          /\ \A u \in Swapper : pc'[u] = IF u = t THEN "open" ELSE pc[u]
          /\ \A u \in Swapper : pc[u] \notin Inside
      BY <1>1, <2>2, ThreadAssumption
         DEF EnterSwap, MayEnter, Places, Goto, Thread, Swapper, SwapLabel, Inside, Phase
    <3>3. "open" \in Inside
      BY DEF Inside, Phase
    <3> QED
      BY <1>1, <3>1, <3>2, <3>3 DEF EnterSwap, Places, SwapLabel
  <2> QED
    BY <2>1, <2>2 DEF Places
<1>2. ASSUME NEW t \in Swapper, NEW p \in Phase, SwapWrite(t, p) \/ SwapLook(t, p)
      PROVE  Places'
  <2>1. PICK l \in Inside : Goto(t, l)
    BY <1>2, PhaseLabels DEF SwapWrite, SwapLook, ControlRelay, Readback, Repeats
  <2>2. pc[t] \in Inside /\ UNCHANGED swapping
    BY <1>2, PhaseLabels DEF SwapWrite, SwapLook
  <2> QED
    BY <2>1, <2>2, SwapMoves DEF SwapLabel
<1>3. ASSUME NEW t \in Swapper, Overlap(t) \/ Verify(t) \/ Disarm(t)
      PROVE  Places'
  <2>1. PICK l \in Inside : Goto(t, l)
    BY <1>3 DEF Overlap, Verify, Disarm, Inside, Phase
  <2>2. pc[t] \in Inside /\ UNCHANGED swapping
    BY <1>3 DEF Overlap, Verify, Disarm, Inside, Phase
  <2> QED
    BY <2>1, <2>2, SwapMoves DEF SwapLabel
<1>4. ASSUME NEW t \in Swapper, LeaveSwap(t)
      PROVE  Places'
  <2>1. PICK l \in {"store_ok", "store_failed"} : Goto(t, l)
    BY <1>4 DEF LeaveSwap
  <2>2. /\ pc' \in [Thread -> {"idle"} \cup OpLabel \cup SwapLabel]
        /\ \A o \in Op : pc'[o] = pc[o]
        /\ \A u \in Swapper : pc'[u] = IF u = t THEN l ELSE pc[u]
    BY <2>1, ThreadAssumption DEF Places, Goto, Thread, Swapper, SwapLabel
  <2>3. l \notin Inside /\ l \in SwapLabel
    BY <2>1 DEF Inside, Phase, SwapLabel
  <2>4. pc[t] \in Inside
    BY <1>4 DEF LeaveSwap, Inside
  <2>5. \A u \in Swapper : pc'[u] \notin Inside
    BY <2>2, <2>3, <2>4 DEF Places
  <2>6. swapping' \in BOOLEAN /\ ~swapping'
    BY <1>4 DEF LeaveSwap
  <2> QED
    BY <2>2, <2>3, <2>5, <2>6 DEF Places
<1>5. ASSUME NEW t \in Swapper, StoreSwap(t)
      PROVE  Places'
  <2>1. pc[t] \notin Inside /\ "idle" \notin Inside /\ Goto(t, "idle") /\ UNCHANGED swapping
    BY <1>5 DEF StoreSwap, Inside, Phase
  <2> QED
    BY <2>1, SwapMoves
<1>6. CASE Tick \/ TickStores
  <2>1. PICK l \in {"idle", "tick", "enter"} : Goto(Loop, l)
    BY <1>6 DEF Tick, TickStores
  <2>2. pc[Loop] \notin Inside /\ l \notin Inside /\ UNCHANGED swapping
    BY <1>6, <2>1 DEF Tick, TickStores, Inside, Phase
  <2> QED
    BY <2>1, <2>2, SwapMoves DEF SwapLabel, Swapper
<1>7. ASSUME NEW h \in Hand, CmdPumpSwap(h) \/ HandStarts(h)
      PROVE  Places'
  <2>1. PICK l \in {"started", "enter"} : Goto(h, l)
    BY <1>7 DEF CmdPumpSwap, HandStarts
  <2>2. pc[h] \notin Inside /\ l \notin Inside /\ UNCHANGED swapping
    BY <1>7, <2>1 DEF CmdPumpSwap, HandStarts, Inside, Phase
  <2> QED
    BY <2>1, <2>2, SwapMoves DEF SwapLabel, Swapper
<1>8. ASSUME NEW o \in Op, Commands(o)
      PROVE  Places'
  <2>1. UNCHANGED swapping /\ \E l \in {"idle"} \cup OpLabel : Goto(o, l)
    BY <1>8 DEF Commands, CmdInit, CmdOff, CmdPump, CmdSetPumpRotateMin, CmdRelay, Command, OpLabel
  <2> QED
    BY <2>1, OpMoves
<1>9. ASSUME NEW o \in Op, Steps(o)
      PROVE  Places'
  <2>1. UNCHANGED swapping /\ \E l \in {"idle"} \cup OpLabel : Goto(o, l)
    BY <1>9 DEF Steps, InitOpensA, InitClosesB, InitStores, OffWrites, OffStores, SetWrites,
                SetLooks, SetStores, ControlRelay, Readback, Repeats, OpLabel
  <2> QED
    BY <2>1, OpMoves
<1>10. CASE StateMoves \/ UNCHANGED vars
  BY <1>10 DEF StateMoves, vars, Places
<1> QED
  BY <1>1, <1>2, <1>3, <1>4, <1>5, <1>6, <1>7, <1>8, <1>9, <1>10 DEF Next, PumpSwap

\* A swap's relays are pumps, and the locals it leaves are of their types
LEMMA ValuesStep == TypeOK /\ [Next]_vars => Values'
<1> SUFFICES ASSUME Places, Values, [Next]_vars
             PROVE  Values'
  BY TwoHalves
<1> USE BoundAssumption DEF mode, board, local, hist
<1>0. /\ TRUE \in BOOLEAN /\ FALSE \in BOOLEAN
      /\ Swapper \subseteq Thread /\ Op \subseteq Thread /\ Pump \subseteq Channel
      /\ A \in Pump /\ B \in Pump /\ Hand \subseteq Swapper /\ Loop \in Swapper
      /\ Op \cap Swapper = {}
  BY ThreadAssumption DEF Thread, Swapper, Channel, Pump
<1>a. \A o \in Op, c \in Channel : Says(o, c) =>
        wanted' \in BOOLEAN /\ why' \in SUBSET {"unseen", "overlapped"}
  BY DEF Says, Values
<1>b. \A x, y : \A t \in Thread, c \in Channel, v \in BOOLEAN : ControlRelay(t, c, v, x, y) =>
        relay' \in [Channel -> BOOLEAN] /\ faults' \in 0..MaxFaults
  BY WriteEffect DEF ControlRelay
<1>1. ASSUME NEW t \in Swapper, EnterSwap(t)
      PROVE  Values'
  <2>1. why' \in SUBSET {"unseen", "overlapped"}
    BY <1>1 DEF EnterSwap, Values
  <2> QED
    BY <1>1, <2>1 DEF EnterSwap, Values
<1>2. ASSUME NEW t \in Swapper, NEW p \in Phase, SwapWrite(t, p)
      PROVE  Values'
  <2>1. Target(t, p) \in Channel
    BY <1>0, OtherDiffers DEF Target, Comes, Values
  <2>2. relay' \in [Channel -> BOOLEAN] /\ faults' \in 0..MaxFaults
    BY <1>0, <1>2, <1>b, <2>1 DEF SwapWrite
  <2> QED
    BY <1>2, <2>2 DEF SwapWrite, Values
<1>3. ASSUME NEW t \in Swapper, NEW p \in Phase, SwapLook(t, p)
      PROVE  Values'
  <2>1. Target(t, p) \in Channel
    BY <1>0, OtherDiffers DEF Target, Comes, Values
  <2>2. /\ relay' \in [Channel -> BOOLEAN] /\ faults' \in 0..MaxFaults
        /\ tries' \in [Thread -> 0..MaxVerify-1]
    BY <1>0, <1>3, <2>1, ReadbackEffect DEF SwapLook
  <2>3. why' \in SUBSET {"unseen", "overlapped"}
    BY <1>3 DEF SwapLook, Blindly, Values
  <2> QED
    BY <1>3, <2>2, <2>3 DEF SwapLook, Values
<1>4. ASSUME NEW t \in Swapper, Overlap(t) \/ Verify(t)
      PROVE  Values'
  <2>1. deep' \in [Thread -> BOOLEAN]
    BY <1>0, <1>4 DEF Overlap, Verify, Values
  <2> QED
    BY <1>4, <2>1 DEF Overlap, Verify, Values
<1>5. ASSUME NEW t \in Swapper, Disarm(t) \/ LeaveSwap(t)
      PROVE  Values'
  BY <1>0, <1>5 DEF Disarm, LeaveSwap, Values
<1>6. ASSUME NEW t \in Swapper, StoreSwap(t)
      PROVE  Values'
  <2>1. ch' \in [Thread -> Channel] /\ \A u \in Swapper : ch'[u] \in Pump
    BY <1>0, <1>6 DEF StoreSwap, Values
  <2>2. active' \in Pump
    BY <1>0, <1>6, OtherDiffers DEF StoreSwap, Comes, Values
  <2>3. auto' \in BOOLEAN /\ counting' \in BOOLEAN
    <3>1. auto' = (auto \/ t \in Hand) \/ auto' = auto
      BY <1>6 DEF StoreSwap
    <3>2. auto' \in BOOLEAN
      BY <3>1 DEF Values
    <3> QED
      BY <1>0, <1>6, <3>2 DEF StoreSwap
  <2> QED
    BY <1>6, <2>1, <2>2, <2>3 DEF StoreSwap, Values
<1>7. CASE Tick \/ TickStores
  <2>1. ch' \in [Thread -> Channel] /\ \A u \in Swapper : ch'[u] \in Pump
    BY <1>0, <1>7 DEF Tick, TickStores, Values
  <2>2. counting' \in BOOLEAN
    BY <1>0, <1>7 DEF Tick, TickStores, Values
  <2> QED
    BY <1>7, <2>1, <2>2 DEF Tick, TickStores, Values
<1>8. ASSUME NEW h \in Hand, CmdPumpSwap(h) \/ HandStarts(h)
      PROVE  Values'
  <2>1. ch' \in [Thread -> Channel] /\ \A u \in Swapper : ch'[u] \in Pump
    BY <1>0, <1>8 DEF CmdPumpSwap, HandStarts, Values
  <2>2. commands' \in 0..MaxCommands
    BY <1>8 DEF CmdPumpSwap, HandStarts, Values
  <2> QED
    BY <1>8, <2>1, <2>2 DEF CmdPumpSwap, HandStarts, Values
<1>9. ASSUME NEW o \in Op, Commands(o)
      PROVE  Values'
  <2>0. commands' \in 0..MaxCommands
    BY <1>9 DEF Commands, CmdInit, CmdOff, CmdPump, CmdSetPumpRotateMin, CmdRelay, Command, Values
  <2>1. CASE CmdInit(o)
    <3>1. wanted' \in BOOLEAN /\ why' \in SUBSET {"unseen", "overlapped"}
      BY <1>0, <2>1 DEF CmdInit
    <3> QED
      BY <2>0, <2>1, <3>1 DEF CmdInit, Values
  <2>2. CASE CmdOff(o)
    BY <2>0, <2>2 DEF CmdOff, Values
  <2>3. ASSUME NEW v \in BOOLEAN, CmdPump(o, v)
        PROVE  Values'
    <3>1. PICK c \in Channel : ch' = [ch EXCEPT ![o] = c]
      BY <1>0, <2>3 DEF CmdPump, Values, Channel
    <3>2. ch' \in [Thread -> Channel] /\ \A u \in Swapper : ch'[u] \in Pump
      BY <1>0, <3>1 DEF Values
    <3>3. on' \in [Thread -> BOOLEAN]
      BY <1>0, <2>3 DEF CmdPump, Values
    <3> QED
      BY <2>0, <2>3, <3>2, <3>3 DEF CmdPump, Values
  <2>4. ASSUME NEW v \in BOOLEAN, CmdSetPumpRotateMin(o, v)
        PROVE  Values'
    <3>1. rotating' \in BOOLEAN /\ auto' \in BOOLEAN
      BY <2>4 DEF CmdSetPumpRotateMin
    <3> QED
      BY <2>0, <2>4, <3>1 DEF CmdSetPumpRotateMin, Values
  <2>5. ASSUME NEW v \in BOOLEAN, NEW c \in Channel, CmdRelay(o, c, v)
        PROVE  Values'
    <3>1. relay' \in [Channel -> BOOLEAN] /\ faults' \in 0..MaxFaults
      BY <2>5, WriteEffect DEF CmdRelay
    <3>2. wanted' \in BOOLEAN /\ why' \in SUBSET {"unseen", "overlapped"}
      BY <2>5, <1>a DEF CmdRelay
    <3> QED
      BY <2>0, <2>5, <3>1, <3>2 DEF CmdRelay, Values
  <2> QED
    BY <1>9, <2>1, <2>2, <2>3, <2>4, <2>5 DEF Commands
<1>10. ASSUME NEW o \in Op, Steps(o)
       PROVE  Values'
  <2>1. CASE InitOpensA(o)
    <3>1. relay' \in [Channel -> BOOLEAN] /\ faults' \in 0..MaxFaults
      BY <1>0, <2>1, WriteEffect DEF InitOpensA
    <3>2. why' \in SUBSET {"unseen", "overlapped"}
      BY <2>1 DEF InitOpensA, Values
    <3> QED
      BY <1>0, <2>1, <3>1, <3>2 DEF InitOpensA, Values
  <2>2. CASE InitClosesB(o)
    <3>1. /\ relay' \in [Channel -> BOOLEAN] /\ faults' \in 0..MaxFaults
          /\ wanted' \in BOOLEAN /\ why' \in SUBSET {"unseen", "overlapped"}
      BY <1>0, <1>a, <1>b, <2>2 DEF InitClosesB
    <3> QED
      BY <2>2, <3>1 DEF InitClosesB, Values
  <2>3. CASE InitStores(o)
    BY <1>0, <2>3 DEF InitStores, Values
  <2>4. CASE OffWrites(o)
    <3>1. /\ relay' \in [Channel -> BOOLEAN] /\ faults' \in 0..MaxFaults
          /\ wanted' \in BOOLEAN /\ why' \in SUBSET {"unseen", "overlapped"}
      BY <1>0, <1>a, <1>b, <2>4 DEF OffWrites
    <3> QED
      BY <2>4, <3>1 DEF OffWrites, Values
  <2>5. CASE OffStores(o)
    BY <1>0, <2>5 DEF OffStores, Values
  <2>6. CASE SetWrites(o)
    <3>1. ch[o] \in Channel /\ on[o] \in BOOLEAN /\ o \in Thread
      BY <1>0 DEF Values
    <3>2. /\ relay' \in [Channel -> BOOLEAN] /\ faults' \in 0..MaxFaults
          /\ wanted' \in BOOLEAN /\ why' \in SUBSET {"unseen", "overlapped"}
      BY <3>1, <1>a, <1>b, <2>6 DEF SetWrites
    <3> QED
      BY <2>6, <3>2 DEF SetWrites, Values
  <2>7. CASE SetLooks(o)
    <3>1. ch[o] \in Channel /\ on[o] \in BOOLEAN /\ o \in Thread
      BY <1>0 DEF Values
    <3>2. /\ relay' \in [Channel -> BOOLEAN] /\ faults' \in 0..MaxFaults
          /\ tries' \in [Thread -> 0..MaxVerify-1]
      BY <3>1, <2>7, ReadbackEffect DEF SetLooks
    <3>3. wanted' \in BOOLEAN
      BY <2>7 DEF SetLooks
    <3>4. why' \in SUBSET {"unseen", "overlapped"}
      BY <2>7 DEF SetLooks, Blindly, Values
    <3> QED
      BY <2>7, <3>2, <3>3, <3>4 DEF SetLooks, Values
  <2>8. CASE SetStores(o)
    <3>1. ch' \in [Thread -> Channel] /\ \A u \in Swapper : ch'[u] \in Pump
      BY <1>0, <2>8 DEF SetStores, Values
    <3>2. on' \in [Thread -> BOOLEAN]
      BY <1>0, <2>8 DEF SetStores, Values
    <3>3. on[o] \in BOOLEAN
      BY <1>0 DEF Values
    <3>4. counting' \in BOOLEAN
      BY <2>8, <3>3 DEF SetStores, Values
    <3>5. wanted' \in BOOLEAN
      BY <2>8 DEF SetStores
    <3> QED
      BY <2>8, <3>1, <3>2, <3>4, <3>5 DEF SetStores, Values
  <2> QED
    BY <1>10, <2>1, <2>2, <2>3, <2>4, <2>5, <2>6, <2>7, <2>8 DEF Steps
<1>11. CASE StateMoves \/ UNCHANGED vars
  BY <1>11 DEF StateMoves, vars, Values
<1> QED
  BY <1>0, <1>1, <1>2, <1>3, <1>4, <1>5, <1>6, <1>7, <1>8, <1>9, <1>10, <1>11 DEF Next, PumpSwap

\* Every variable stays within its type, and one swap at a time is under way
THEOREM TypeCorrect == Spec => []TypeOK
<1>1. Init => TypeOK
  <2> SUFFICES ASSUME Init
               PROVE  TypeOK
    OBVIOUS
  <2>1. TRUE \in BOOLEAN /\ FALSE \in BOOLEAN
    OBVIOUS
  <2>2. 0 \in 0..MaxFaults /\ 0 \in 0..MaxCommands /\ 0 \in 0..MaxVerify-1
    BY BoundAssumption
  <2>3. /\ \A t \in Thread : pc[t] = "idle"
        /\ pc \in [Thread -> {"idle"} \cup OpLabel \cup SwapLabel]
        /\ Swapper \subseteq Thread /\ Op \subseteq Thread
        /\ "idle" \notin Inside
    BY DEF Init, Thread, Inside, Phase
  <2>4. Places
    BY <2>1, <2>3 DEF Init, Places
  <2>5. /\ relay \in [Channel -> BOOLEAN]
        /\ on \in [Thread -> BOOLEAN] /\ deep \in [Thread -> BOOLEAN]
    BY <2>1 DEF Init
  <2>6. /\ ch \in [Thread -> Channel] /\ tries \in [Thread -> 0..MaxVerify-1]
        /\ active \in Pump /\ \A t \in Swapper : ch[t] \in Pump
    BY <2>2, <2>3 DEF Init, Channel, Pump
  <2>7. Values
    BY <2>1, <2>2, <2>5, <2>6 DEF Init, Values
  <2> QED
    BY <2>4, <2>7, TwoHalves
<1>2. TypeOK /\ [Next]_vars => TypeOK'
  BY PlacesStep, ValuesStep DEF TypeOK, Places, Values
<1> QED
  BY <1>1, <1>2, PTL DEF Spec

-----------------------------------------------------------------------------
(* One pump runs *)

\* Where a swap counts on the pump that comes
Counting == {"overlap", "close", "look_close"}
ComesRuns == \A t \in Swapper : pc[t] \in Counting => relay[Comes(t)] \/ why # {}

\* What an init and a pump command count on
InitRuns == \A o \in Op : pc[o] \in {"init_b", "init_store"} => relay[A] \/ why # {}
SetRuns == \A o \in Op : pc[o] = "count" /\ on[o] /\ ch[o] \in Pump => relay[ch[o]] \/ why # {}

\* A command that writes the pumps beside a swap has been recorded, by whichever of
\* the two came second
Writes(o) == \/ pc[o] \in {"init_a", "init_b", "init_store"}
             \/ pc[o] \in {"look", "count"} /\ ch[o] \in Pump
Apart == \A t \in Swapper, o \in Op : pc[t] \in Inside /\ Writes(o) => why # {}

PumpInv == ComesRuns /\ InitRuns /\ SetRuns /\ Apart /\ SuctionKept

\* A step that writes nothing, forgets no cause and brings nobody to a place that
\* counts on a pump
LEMMA Quiet ==
  ASSUME PumpInv, UNCHANGED relay,
         why # {} => why' # {},
         wanted' => wanted,
         \A t \in Swapper : pc'[t] \in Counting => pc[t] \in Counting /\ UNCHANGED ch[t],
         \A t \in Swapper : pc'[t] \in Inside => pc[t] \in Inside,
         \A o \in Op : \/ pc'[o] = pc[o] /\ UNCHANGED <<ch[o], on[o]>>
                       \/ pc'[o] \in {"idle", "off_a", "off_b", "off_since", "set"}
  PROVE  PumpInv'
<1>1. ComesRuns'
  BY DEF PumpInv, ComesRuns, Comes
<1>2. InitRuns'
  BY DEF PumpInv, InitRuns, OpLabel
<1>3. SetRuns'
  BY DEF PumpInv, SetRuns, OpLabel
<1>4. Apart'
  BY DEF PumpInv, Apart, Writes, OpLabel
<1>5. SuctionKept'
  BY DEF PumpInv, SuctionKept, AllOff
<1> QED
  BY <1>1, <1>2, <1>3, <1>4, <1>5 DEF PumpInv

\* A step of a swap that leaves the pump that comes as it is
LEMMA SwapKeeps ==
  ASSUME TypeOK, PumpInv, NEW t \in Swapper, pc[t] \in Inside,
         NEW l \in Inside, Goto(t, l),
         NEW c \in Pump, NEW v \in BOOLEAN,
         relay' = relay \/ relay' = [relay EXCEPT ![c] = v],
         v \/ (c # Comes(t) /\ pc[t] \in Counting),
         why # {} => why' # {},
         l \in Counting => relay'[Comes(t)] \/ why' # {},
         UNCHANGED <<on, ch, wanted>>
  PROVE  PumpInv'
<1>1. /\ \A u \in Swapper : u # t => pc'[u] \notin Inside
      /\ pc'[t] = l /\ \A o \in Op : pc'[o] = pc[o]
      /\ \A p \in Pump : relay'[p] = relay[p] \/ (p = c /\ relay'[p] = v)
  BY ThreadAssumption DEF TypeOK, Goto, Thread, Swapper, Channel
<1>2. ComesRuns'
  BY <1>1 DEF ComesRuns, Comes, Counting, Inside, Phase
<1>3. Apart'
  BY <1>1 DEF PumpInv, Apart, Writes
<1>4. InitRuns'
  <2>1. SUFFICES ASSUME NEW o \in Op, pc'[o] \in {"init_b", "init_store"}
                 PROVE  why' # {}
    BY DEF InitRuns
  <2>2. why # {}
    BY <1>1, <2>1 DEF PumpInv, Apart, Writes
  <2> QED
    BY <2>2
<1>5. SetRuns'
  <2>1. SUFFICES ASSUME NEW o \in Op, pc'[o] = "count", ch'[o] \in Pump
                 PROVE  why' # {}
    BY DEF SetRuns
  <2>2. why # {}
    BY <1>1, <2>1 DEF PumpInv, Apart, Writes
  <2> QED
    BY <2>2
<1>6. SuctionKept'
  <2>1. CASE v
    BY <1>1, <2>1 DEF PumpInv, SuctionKept, AllOff
  <2>2. CASE c # Comes(t) /\ pc[t] \in Counting
    <3>1. Comes(t) \in Pump
      BY OtherDiffers DEF Comes, TypeOK
    <3>2. relay[Comes(t)] \/ why # {}
      BY <2>2 DEF PumpInv, ComesRuns
    <3> QED
      BY <1>1, <2>2, <3>1, <3>2 DEF SuctionKept, AllOff
  <2> QED
    BY <2>1, <2>2
<1> QED
  BY <1>2, <1>3, <1>4, <1>5, <1>6 DEF PumpInv

\* A command that writes a channel: of what somebody else counts on, a pump that it
\* writes is recorded
LEMMA CommandWrites ==
  ASSUME TypeOK, PumpInv, NEW o \in Op, NEW l \in {"idle"} \cup OpLabel, Goto(o, l),
         NEW c \in Channel, NEW v \in BOOLEAN,
         relay' = relay \/ relay' = [relay EXCEPT ![c] = v],
         why # {} => why' # {},
         c \in Pump /\ Together(o) => why' # {},
         l \in {"init_b", "init_store"} => relay'[A] \/ why' # {},
         l = "count" /\ on[o] /\ ch[o] \in Pump => relay'[ch[o]] \/ why' # {},
         l \in {"init_a", "init_b", "init_store"} /\ Together(o) => why' # {},
         l \in {"look", "count"} /\ ch[o] \in Pump /\ Together(o) => why' # {},
         wanted' => ~AllOff(relay'),
         UNCHANGED <<on, ch>>
  PROVE  PumpInv'
<1>1. /\ pc'[o] = l /\ \A u \in Op : u # o => pc'[u] = pc[u]
      /\ \A t \in Swapper : pc'[t] = pc[t]
      /\ \A d \in Channel : d # c => relay'[d] = relay[d]
      /\ Pump \subseteq Channel /\ A \in Pump
  BY ThreadAssumption DEF TypeOK, Goto, Thread, Swapper, Channel, Pump
<1>2. \A t \in Swapper : pc[t] \in Inside => Together(o)
  BY DEF TypeOK, Together
<1>3. \A u \in Op : u # o /\ pc[u] # "idle" => Together(o)
  BY DEF Together, Midway
<1>4. ComesRuns'
  <2>1. SUFFICES ASSUME NEW t \in Swapper, pc[t] \in Counting
                 PROVE  relay'[Comes(t)] \/ why' # {}
    BY <1>1 DEF ComesRuns, Comes
  <2>2. Comes(t) \in Pump /\ Together(o)
    BY <1>2, <2>1, OtherDiffers DEF Comes, TypeOK, Counting, Inside, Phase
  <2>3. relay[Comes(t)] \/ why # {}
    BY <2>1 DEF PumpInv, ComesRuns
  <2> QED
    BY <1>1, <2>2, <2>3
<1>5. InitRuns'
  BY <1>1, <1>3 DEF PumpInv, InitRuns
<1>6. SetRuns'
  BY <1>1, <1>3 DEF PumpInv, SetRuns
<1>7. Apart'
  BY <1>1, <1>2 DEF PumpInv, Apart, Writes
<1>8. SuctionKept'
  BY DEF SuctionKept
<1> QED
  BY <1>4, <1>5, <1>6, <1>7, <1>8 DEF PumpInv

LEMMA PumpStep == TypeOK /\ TypeOK' /\ PumpInv /\ [Next]_vars => PumpInv'
<1> SUFFICES ASSUME TypeOK, TypeOK', PumpInv, [Next]_vars
             PROVE  PumpInv'
  OBVIOUS
<1>0. /\ Values /\ Places
      /\ Op \cap Swapper = {} /\ Pump \subseteq Channel /\ A \in Pump /\ B \in Pump
      /\ Thread = Op \cup Swapper /\ Loop \in Swapper /\ Hand \subseteq Swapper
  BY TwoHalves, ThreadAssumption DEF Thread, Swapper, Channel, Pump
<1>1. ASSUME NEW t \in Swapper, EnterSwap(t)
      PROVE  PumpInv'
  <2>1. PICK l \in {"open", "store_failed"} : Goto(t, l)
    BY <1>1 DEF EnterSwap
  <2>2. /\ \A u \in Swapper : u # t => pc'[u] = pc[u]
        /\ pc'[t] = l /\ \A o \in Op : pc'[o] = pc[o]
    BY <1>0, <2>1 DEF Places, Goto
  <2>3. UNCHANGED <<relay, on, ch, wanted>> /\ (why # {} => why' # {})
    BY <1>1 DEF EnterSwap, board, local
  <2>4. \A o \in Op : pc[o] # "idle" => why' # {}
    BY <1>1 DEF EnterSwap, Midway
  <2>5. ComesRuns'
    BY <2>2, <2>3 DEF PumpInv, ComesRuns, Comes, Counting
  <2>6. InitRuns' /\ SetRuns' /\ SuctionKept'
    BY <2>2, <2>3 DEF PumpInv, InitRuns, SetRuns, SuctionKept, AllOff
  <2>7. Apart'
    BY <2>2, <2>4 DEF Apart, Writes
  <2> QED
    BY <2>5, <2>6, <2>7 DEF PumpInv
<1>2. ASSUME NEW t \in Swapper, NEW p \in Phase, SwapWrite(t, p)
      PROVE  PumpInv'
  <2>1. /\ Target(t, p) \in Pump /\ Comes(t) \in Pump /\ Comes(t) # ch[t]
        /\ pc[t] = p /\ p \in Inside /\ (p # "close") \in BOOLEAN
    BY <1>0, <1>2, OtherDiffers, PhaseLabels DEF Target, Comes, Values, SwapWrite
  <2>2. PICK l \in {Look[p], Failed[p]} : Goto(t, l)
    BY <1>2 DEF SwapWrite, ControlRelay
  <2>3. l \in Inside /\ (l \in Counting => p = "close")
    BY <2>2, PhaseLabels DEF Phase, Look, Failed, Counting
  <2>4. relay' = relay \/ relay' = [relay EXCEPT ![Target(t, p)] = (p # "close")]
    BY <1>0, <1>2, <2>1, WriteEffect DEF SwapWrite, ControlRelay
  <2>5. p # "close" \/ (Target(t, p) # Comes(t) /\ pc[t] \in Counting)
    BY <2>1 DEF Target, Counting
  <2>6. UNCHANGED <<on, ch, wanted, why>>
    BY <1>2 DEF SwapWrite, local, hist
  <2>7. l \in Counting => relay'[Comes(t)] \/ why' # {}
    <3>1. SUFFICES ASSUME p = "close"
                   PROVE  relay'[Comes(t)] \/ why' # {}
      BY <2>3
    <3>2. relay[Comes(t)] \/ why # {}
      BY <2>1, <3>1 DEF PumpInv, ComesRuns, Counting
    <3>3. relay'[Comes(t)] = relay[Comes(t)]
      BY <1>0, <2>1, <2>4, <2>5, <3>1 DEF Values
    <3> QED
      BY <2>6, <3>2, <3>3
  <2> QED
    BY <2>1, <2>2, <2>3, <2>4, <2>5, <2>6, <2>7, SwapKeeps
<1>3. ASSUME NEW t \in Swapper, NEW p \in Phase, SwapLook(t, p)
      PROVE  PumpInv'
  <2>1. /\ Target(t, p) \in Pump /\ Comes(t) \in Pump /\ Comes(t) # ch[t]
        /\ pc[t] = Look[p] /\ Look[p] \in Inside /\ (p # "close") \in BOOLEAN
    BY <1>0, <1>3, OtherDiffers, PhaseLabels DEF Target, Comes, Values, SwapLook
  <2>2. /\ relay' = relay \/ relay' = [relay EXCEPT ![Target(t, p)] = (p # "close")]
        /\ Goto(t, Look[p]) \/ Goto(t, Done[p]) \/ Goto(t, Failed[p])
        /\ relay[Target(t, p)] /\ UNCHANGED faults /\ p # "close" => relay'[Target(t, p)]
    <3>1. CASE p = "close"
      <4>1. Readback(t, Target(t, p), FALSE, Look[p], Done[p], Failed[p])
        BY <1>3, <3>1 DEF SwapLook
      <4>2. t \in Thread /\ Target(t, p) \in Channel /\ FALSE \in BOOLEAN
        BY <1>0, <2>1
      <4>3. /\ relay' = relay \/ relay' = [relay EXCEPT ![Target(t, p)] = FALSE]
            /\ Goto(t, Look[p]) \/ Goto(t, Done[p]) \/ Goto(t, Failed[p])
            /\ relay[Target(t, p)] /\ UNCHANGED faults /\ FALSE => relay'[Target(t, p)]
        BY <1>0, <4>1, <4>2, ReadbackEffect
      <4> QED
        BY <3>1, <4>3
    <3>2. CASE p # "close"
      <4>1. Readback(t, Target(t, p), TRUE, Look[p], Done[p], Failed[p])
        BY <1>3, <3>2 DEF SwapLook
      <4>2. t \in Thread /\ Target(t, p) \in Channel /\ TRUE \in BOOLEAN
        BY <1>0, <2>1
      <4>3. /\ relay' = relay \/ relay' = [relay EXCEPT ![Target(t, p)] = TRUE]
            /\ Goto(t, Look[p]) \/ Goto(t, Done[p]) \/ Goto(t, Failed[p])
            /\ relay[Target(t, p)] /\ UNCHANGED faults /\ TRUE => relay'[Target(t, p)]
        BY <1>0, <4>1, <4>2, ReadbackEffect
      <4> QED
        BY <3>2, <4>3
    <3> QED
      BY <3>1, <3>2
  <2>3. PICK l \in {Look[p], Done[p], Failed[p]} : Goto(t, l)
    BY <2>2
  <2>4. /\ l \in Inside
        /\ l \in Counting => p = "close" \/ (p = "open" /\ l = Done[p])
    BY <2>3, PhaseLabels DEF Phase, Look, Done, Failed, Counting
  <2>5. p # "close" \/ (Target(t, p) # Comes(t) /\ pc[t] \in Counting)
    BY <2>1 DEF Target, Counting, Look
  <2>6. UNCHANGED <<on, ch, wanted>> /\ why' = why \cup Blindly(t, Target(t, p), p # "close", Done[p])
    BY <1>3 DEF SwapLook
  <2>7. l \in Counting => relay'[Comes(t)] \/ why' # {}
    <3>1. CASE p = "close"
      <4>1. relay[Comes(t)] \/ why # {}
        BY <2>1, <3>1 DEF PumpInv, ComesRuns, Counting, Look
      <4>2. relay'[Comes(t)] = relay[Comes(t)]
        BY <1>0, <2>1, <2>2, <2>5, <3>1 DEF Values
      <4> QED
        BY <2>6, <4>1, <4>2
    <3>2. CASE p = "open" /\ l = Done[p]
      <4>1. pc'[t] = Done[p]
        BY <1>0, <2>3, <3>2 DEF Goto, Places
      <4>2. Target(t, p) = Comes(t)
        BY <3>2 DEF Target
      <4>3. CASE relay[Target(t, p)] /\ UNCHANGED faults
        BY <2>2, <3>2, <4>2, <4>3
      <4>4. CASE ~(relay[Target(t, p)] /\ UNCHANGED faults)
        BY <2>6, <3>2, <4>1, <4>4 DEF Blindly
      <4> QED
        BY <4>3, <4>4
    <3> QED
      BY <2>4, <3>1, <3>2
  <2> QED
    BY <2>1, <2>2, <2>3, <2>4, <2>5, <2>6, <2>7, SwapKeeps
<1>4. ASSUME NEW t \in Swapper, Overlap(t) \/ Verify(t) \/ Disarm(t) \/ LeaveSwap(t)
      PROVE  PumpInv'
  <2>1. \/ pc[t] = "overlap" /\ Goto(t, "close")
        \/ pc[t] \in Inside /\ \E l \in {"ok", "reopen", "failed", "store_ok", "store_failed"} : Goto(t, l)
    BY <1>4 DEF Overlap, Verify, Disarm, LeaveSwap, Inside
  <2>2. UNCHANGED <<relay, on, ch, wanted, why>>
    BY <1>4 DEF Overlap, Verify, Disarm, LeaveSwap, board, local, hist
  <2>3. /\ \A o \in Op : pc'[o] = pc[o]
        /\ \A u \in Swapper : pc'[u] \in Counting => pc[u] \in Counting
        /\ \A u \in Swapper : pc'[u] \in Inside => pc[u] \in Inside
    BY <1>0, <2>1 DEF Places, Goto, Counting, Inside
  <2> QED
    BY <2>2, <2>3, Quiet
<1>5. ASSUME NEW t \in Swapper, StoreSwap(t)
      PROVE  PumpInv'
  <2>1. /\ pc'[t] = "idle" /\ \A u \in Thread : u # t => pc'[u] = pc[u] /\ ch'[u] = ch[u]
        /\ UNCHANGED <<relay, on, wanted, why>>
    BY <1>0, <1>5 DEF StoreSwap, Places, Values, Goto, board, hist
  <2> QED
    BY <1>0, <2>1, Quiet DEF Counting, Inside, Phase
<1>6. CASE Tick \/ TickStores
  <2>1. /\ pc'[Loop] \in {"idle", "tick", "enter"}
        /\ \A u \in Thread : u # Loop => pc'[u] = pc[u] /\ ch'[u] = ch[u]
        /\ UNCHANGED <<relay, on, wanted, why>>
    BY <1>0, <1>6 DEF Tick, TickStores, Places, Values, Goto, board, local, hist
  <2> QED
    BY <1>0, <2>1, Quiet DEF Counting, Inside, Phase
<1>7. ASSUME NEW h \in Hand, CmdPumpSwap(h) \/ HandStarts(h)
      PROVE  PumpInv'
  <2>1. /\ pc'[h] \in {"started", "enter"}
        /\ \A u \in Thread : u # h => pc'[u] = pc[u] /\ ch'[u] = ch[u]
        /\ UNCHANGED <<relay, on, wanted, why>>
    BY <1>0, <1>7 DEF CmdPumpSwap, HandStarts, Places, Values, Goto, board, local, hist
  <2> QED
    BY <1>0, <2>1, Quiet DEF Counting, Inside, Phase
<1>8. ASSUME NEW o \in Op, CmdInit(o)
      PROVE  PumpInv'
  \* The causes are forgotten here, when nobody else is at the pumps
  <2>1. /\ pc[o] = "idle" /\ pc'[o] = "init_a" /\ \A u \in Thread : u # o => pc'[u] = pc[u]
        /\ wanted' = FALSE /\ UNCHANGED <<relay, ch, on>>
        /\ Together(o) => why' # {}
    BY <1>0, <1>8 DEF CmdInit, Command, Places, Goto, board, local
  <2>2. (\A t \in Swapper : pc[t] \in Inside => Together(o))
        /\ (\A u \in Op : u # o /\ pc[u] # "idle" => Together(o))
    BY DEF TypeOK, Together, Midway
  <2>3. ComesRuns'
    BY <1>0, <2>1, <2>2 DEF ComesRuns, Counting, Inside, Phase
  <2>4. InitRuns' /\ SetRuns'
    BY <1>0, <2>1, <2>2 DEF InitRuns, SetRuns
  <2>5. Apart'
    BY <1>0, <2>1, <2>2 DEF Apart
  <2>6. SuctionKept'
    BY <2>1 DEF SuctionKept
  <2> QED
    BY <2>3, <2>4, <2>5, <2>6 DEF PumpInv
<1>9. ASSUME NEW o \in Op, NEW v \in BOOLEAN, CmdOff(o) \/ CmdPump(o, v) \/ CmdSetPumpRotateMin(o, v)
      PROVE  PumpInv'
  <2>1. /\ pc'[o] \in {"idle", "off_a", "set"}
        /\ \A u \in Thread : u # o => pc'[u] = pc[u] /\ ch'[u] = ch[u] /\ on'[u] = on[u]
        /\ UNCHANGED <<relay, wanted, why>>
    BY <1>0, <1>9 DEF CmdOff, CmdPump, CmdSetPumpRotateMin, Command, Places, Values, Goto, board, local, hist
  <2> QED
    BY <1>0, <2>1, Quiet DEF Counting, Inside, Phase
<1>10. ASSUME NEW o \in Op, NEW c \in Channel, NEW v \in BOOLEAN, CmdRelay(o, c, v)
       PROVE  PumpInv'
  <2>1. /\ relay' = relay \/ relay' = [relay EXCEPT ![c] = v]
        /\ Goto(o, "idle") /\ UNCHANGED <<on, ch>> /\ Says(o, c)
    BY <1>0, <1>10, WriteEffect DEF CmdRelay, Command, local
  <2>2. /\ wanted' => ~AllOff(relay')
        /\ c \in Pump /\ Together(o) => why' # {}
        /\ why # {} => why' # {}
    BY <2>1 DEF Says
  <2>3. "idle" \notin OpLabel /\ OpLabel = OpLabel \cup {"init_a", "init_b", "init_store", "look", "count"}
    BY DEF OpLabel
  <2> QED
    BY <2>1, <2>2, <2>3, CommandWrites
<1>11. ASSUME NEW o \in Op, InitOpensA(o)
       PROVE  PumpInv'
  <2>1. relay' = relay \/ relay' = [relay EXCEPT ![A] = TRUE]
    BY <1>0, <1>11, WriteEffect DEF InitOpensA
  <2>2. /\ wanted' = FALSE /\ UNCHANGED <<on, ch>>
        /\ Together(o) => why' # {}
        /\ relay'[A] \/ why' # {}
        /\ why # {} => why' # {}
    BY <1>11 DEF InitOpensA, local
  <2>3. PICK l \in {"init_a", "init_b", "idle"} : Goto(o, l)
    BY <1>11 DEF InitOpensA
  <2> QED
    BY <1>0, <2>1, <2>2, <2>3, CommandWrites DEF OpLabel
<1>12. ASSUME NEW o \in Op, InitClosesB(o)
       PROVE  PumpInv'
  <2>1. relay' = relay \/ relay' = [relay EXCEPT ![B] = FALSE]
    BY <1>0, <1>12, WriteEffect DEF InitClosesB, ControlRelay
  <2>2. Goto(o, "init_store") /\ UNCHANGED <<on, ch>> /\ Says(o, B)
    BY <1>12 DEF InitClosesB, ControlRelay, local
  <2>3. relay'[A] \/ why' # {}
    <3>1. relay[A] \/ why # {}
      BY <1>12 DEF PumpInv, InitRuns, InitClosesB
    <3> QED
      BY <1>0, <2>1, <2>2, <3>1, PumpAssumption DEF Says, Values
  <2> QED
    BY <1>0, <2>1, <2>2, <2>3, CommandWrites DEF Says, OpLabel
<1>13. ASSUME NEW o \in Op, InitStores(o)
       PROVE  PumpInv'
  <2>1. relay[A] \/ why # {}
    BY <1>13 DEF PumpInv, InitRuns, InitStores
  <2>2. /\ pc'[o] = "idle" /\ \A u \in Thread : u # o => pc'[u] = pc[u]
        /\ UNCHANGED <<relay, on, ch, why>>
    BY <1>0, <1>13 DEF InitStores, Places, Goto, board, local
  <2>3. ComesRuns' /\ Apart'
    BY <1>0, <2>2 DEF PumpInv, ComesRuns, Comes, Apart, Writes
  <2>4. InitRuns' /\ SetRuns'
    BY <1>0, <2>2 DEF PumpInv, InitRuns, SetRuns
  <2>5. SuctionKept'
    BY <1>0, <2>1, <2>2 DEF SuctionKept, AllOff
  <2> QED
    BY <2>3, <2>4, <2>5 DEF PumpInv
<1>14. ASSUME NEW o \in Op, OffWrites(o)
       PROVE  PumpInv'
  <2>1. PICK c \in Pump, l \in {"off_b", "off_since"} :
          ControlRelay(o, c, FALSE, l, l) /\ Says(o, c)
    BY <1>0, <1>14 DEF OffWrites
  <2>2. relay' = relay \/ relay' = [relay EXCEPT ![c] = FALSE]
    BY <1>0, <2>1, WriteEffect DEF ControlRelay
  <2>3. Goto(o, l) /\ UNCHANGED <<on, ch>>
    BY <1>14, <2>1 DEF OffWrites, ControlRelay, local
  <2> QED
    BY <1>0, <2>1, <2>2, <2>3, CommandWrites DEF Says, OpLabel
<1>15. ASSUME NEW o \in Op, OffStores(o)
       PROVE  PumpInv'
  <2>1. /\ pc'[o] = "idle" /\ wanted' = FALSE
        /\ \A u \in Thread : u # o => pc'[u] = pc[u]
        /\ UNCHANGED <<relay, on, ch, why>>
    BY <1>0, <1>15 DEF OffStores, Places, Goto, board, local
  <2> QED
    BY <1>0, <2>1, Quiet DEF Counting, Inside, Phase
<1>16. ASSUME NEW o \in Op, SetWrites(o)
       PROVE  PumpInv'
  <2>1. ch[o] \in Channel /\ on[o] \in BOOLEAN
    BY <1>0 DEF Values
  <2>2. relay' = relay \/ relay' = [relay EXCEPT ![ch[o]] = on[o]]
    BY <1>0, <1>16, <2>1, WriteEffect DEF SetWrites, ControlRelay
  <2>3. PICK l \in {"look", "idle"} : Goto(o, l)
    BY <1>16 DEF SetWrites, ControlRelay
  <2>4. UNCHANGED <<on, ch>> /\ Says(o, ch[o])
    BY <1>16 DEF SetWrites, local
  <2> QED
    BY <1>0, <2>1, <2>2, <2>3, <2>4, CommandWrites DEF Says, OpLabel
<1>17. ASSUME NEW o \in Op, SetLooks(o)
       PROVE  PumpInv'
  <2>1. ch[o] \in Channel /\ on[o] \in BOOLEAN
    BY <1>0 DEF Values
  <2>2. /\ relay' = relay \/ relay' = [relay EXCEPT ![ch[o]] = on[o]]
        /\ Goto(o, "look") \/ Goto(o, "count") \/ Goto(o, "idle")
        /\ relay[ch[o]] /\ UNCHANGED faults /\ on[o] => relay'[ch[o]]
    BY <1>0, <1>17, <2>1, ReadbackEffect DEF SetLooks
  <2>3. PICK l \in {"look", "count", "idle"} : Goto(o, l)
    BY <2>2
  <2>4. /\ UNCHANGED <<on, ch>> /\ (wanted' => ~AllOff(relay'))
        /\ ch[o] \in Pump /\ Together(o) => why' # {}
        /\ why # {} => why' # {}
        /\ Blindly(o, ch[o], on[o], "count") # {} => why' # {}
    BY <1>17 DEF SetLooks
  <2>5. l = "count" /\ on[o] /\ ch[o] \in Pump => relay'[ch[o]] \/ why' # {}
    <3>1. SUFFICES ASSUME l = "count", on[o]
                   PROVE  relay'[ch[o]] \/ why' # {}
      OBVIOUS
    <3>2. pc'[o] = "count"
      BY <1>0, <2>3, <3>1 DEF Goto, Places
    <3>3. CASE relay[ch[o]] /\ UNCHANGED faults
      BY <2>2, <3>1, <3>3
    <3>4. CASE ~(relay[ch[o]] /\ UNCHANGED faults)
      BY <2>4, <3>1, <3>2, <3>4 DEF Blindly
    <3> QED
      BY <3>3, <3>4
  <2> QED
    BY <1>0, <2>1, <2>2, <2>3, <2>4, <2>5, CommandWrites DEF OpLabel
<1>18. ASSUME NEW o \in Op, SetStores(o)
       PROVE  PumpInv'
  <2>1. /\ pc'[o] = "idle" /\ \A u \in Thread : u # o => pc'[u] = pc[u] /\ ch'[u] = ch[u] /\ on'[u] = on[u]
        /\ UNCHANGED <<relay, why>>
        /\ wanted' = (wanted \/ (on[o] /\ ch[o] \in Pump))
    BY <1>0, <1>18 DEF SetStores, Places, Values, Goto, board
  <2>2. on[o] /\ ch[o] \in Pump => relay[ch[o]] \/ why # {}
    BY <1>18 DEF PumpInv, SetRuns, SetStores
  <2>3. ComesRuns' /\ Apart'
    BY <1>0, <2>1 DEF PumpInv, ComesRuns, Comes, Apart, Writes
  <2>4. InitRuns' /\ SetRuns'
    BY <1>0, <2>1 DEF PumpInv, InitRuns, SetRuns
  <2>5. SuctionKept'
    BY <2>1, <2>2 DEF PumpInv, SuctionKept, AllOff
  <2> QED
    BY <2>3, <2>4, <2>5 DEF PumpInv
<1>19. CASE StateMoves \/ UNCHANGED vars
  <2>1. UNCHANGED <<pc, relay, on, ch, wanted, why>>
    BY <1>19 DEF StateMoves, vars, board, mode, local, hist
  <2> QED
    BY <2>1, Quiet
<1> QED
  <2>1. ASSUME NEW o \in Op, Commands(o)
        PROVE  PumpInv'
    BY <2>1, <1>8, <1>9, <1>10 DEF Commands
  <2>2. ASSUME NEW o \in Op, Steps(o)
        PROVE  PumpInv'
    BY <2>2, <1>11, <1>12, <1>13, <1>14, <1>15, <1>16, <1>17, <1>18 DEF Steps
  <2> QED
    BY <2>1, <2>2, <1>1, <1>2, <1>3, <1>4, <1>5, <1>6, <1>7, <1>19 DEF Next, PumpSwap

\* A pump that the commands have started keeps running through every swap, its
\* failures and its reversion, unless an opening went unseen or a command wrote the
\* pumps beside the swap
THEOREM SuctionCorrect == Spec => []SuctionKept
<1>1. Init => PumpInv
  BY DEF Init, PumpInv, ComesRuns, InitRuns, SetRuns, Apart, Writes, SuctionKept, Counting,
         Inside, Phase, Thread, Swapper
<1>2. PumpInv => SuctionKept
  BY DEF PumpInv
<1> QED
  BY <1>1, <1>2, PumpStep, TypeCorrect, PTL DEF Spec

-----------------------------------------------------------------------------
(* Pushers: what holds for any set of cups and callers, any stroke and any *)
(* number of mishaps.                                                      *)

MotorTypes ==
  /\ pos \in Centimetres
  /\ goal \in [Cup -> 0..Rest] /\ queue \in [Cup -> 0..Rest]
  /\ enabled \subseteq Cup /\ stall \subseteq Cup /\ deaf \subseteq Cup

CallTypes ==
  /\ bus \in Caller \cup {NoCaller}
  /\ place \in [Caller -> OnBus \cup OffBus]
  /\ call \in [Caller -> [op : Ops, cups : SUBSET Cup, to : {0, Preset}]]

SealTypes == lastSeal \in Centimetres /\ unheard \subseteq Cup /\ realigned \subseteq Cup

ValveTypes == bv \in BOOLEAN /\ armed \in BOOLEAN /\ bvLost \in BOOLEAN

\* zdt_bus_mtx_ is held exactly where the code holds it
Owner == \A t \in Caller : place[t] \in OnBus <=> bus = t

\* A realign stays one
RealignPlaces == \A t \in Caller : place[t] \in {"a_send", "a_wait", "a_read"} => call[t].op = "realign"

Extending == {"x_wait", "x_look", "x_push", "x_pushed", "x_free", "x_seal", "x_end", "x_settle"}

ExtRecord ==
  [open : SUBSET Cup, weak : SUBSET Cup, obst : SUBSET Cup, endp : SUBSET Cup,
   seen : SUBSET Cup, iter : 0..MaxIters,
   fin : Centimetres, base : Centimetres, plan : Centimetres]

\* The locals of an extension: the cups that are done are not open, and no plan goes beyond the limit
ExtOK(x) ==
  /\ x \in ExtRecord
  /\ x.weak \cap x.open = {} /\ x.obst \cap x.open = {}
  /\ \A c \in Cup : x.base[c] <= Preset + OverCap /\ x.plan[c] <= x.base[c] + MaxOver

\* Every cup of the call is open, given up, read as sealed, or the obstacle
Accounts(x, G) == G \subseteq x.open \cup x.weak \cup x.seen \cup x.obst

\* Where an extension is, with the locals x
ExtAt(l, x, G) ==
  /\ l \in {"x_push", "x_pushed", "x_free", "x_seal"} => x.iter < MaxIters
  /\ l \in Extending \ {"x_end", "x_settle"} => x.obst = {}
  /\ l \in Extending => Accounts(x, G)

Extension ==
  /\ ExtOK(ext)
  /\ ext # NoExt => \E t \in Caller : place[t] \in Extending
  /\ \A t \in Caller : ExtAt(place[t], ext, Cups(t))

\* A driver is off where the enable was lost, or between steps E and F, or before the next look
Power ==
  \A c \in Cup \ enabled :
    c \in unheard \/ (c \in ext.open /\ \E t \in Caller : place[t] \in {"x_look", "x_seal"})

Valve ==
  /\ bv => bvLost \/ armed
  /\ armed => \E t \in Caller : InRetract(t)

\* What a retract knows of its pushers, but for those a realign has touched
HomeAt(l, q, g, p) ==
  /\ l \in {"r_close", "r_wait", "r_verify", "r_done"} => q \in {0, Rest}
  /\ l \in {"r_verify", "r_done"} => g \in {0, Rest}
  /\ l = "r_done" => p = 0

Homing == \A t \in Caller : \A c \in Cups(t) \ realigned : HomeAt(place[t], queue[c], goal[c], pos[c])

PushInv ==
  /\ MotorTypes /\ CallTypes /\ SealTypes /\ ValveTypes
  /\ Owner /\ RealignPlaces /\ Extension /\ Power /\ Valve /\ Homing

-----------------------------------------------------------------------------
(* Numbers.                                                                *)

LEMMA Lengths ==
  /\ Preset \in Nat /\ OverCap \in Nat /\ Buffer \in Nat /\ MaxOver \in Nat /\ MaxIters \in Nat
  /\ Stroke \in Nat /\ Preset > 0 /\ MaxOver > 0 /\ Stroke > 0
  /\ Preset + OverCap + MaxOver <= Stroke
<1> QED
  BY PusherBoundAssumption

LEMMA RestOff == Rest \in Nat /\ Rest \notin 0..Stroke /\ Rest # 0 /\ 0..Rest = 0..Stroke \cup {Rest}
<1>1. Stroke \in Nat
  BY Lengths
<1>2. \A n : n \in 0..Stroke + 1 <=> n \in 0..Stroke \cup {Stroke + 1}
  BY <1>1
<1> QED
  BY <1>1, <1>2 DEF Rest

LEMMA MinusBound ==
  ASSUME NEW a \in Nat, NEW b \in Nat
  PROVE  Minus(a, b) \in Nat /\ Minus(a, b) <= a
<1> QED
  BY DEF Minus

LEMMA BaseOK ==
  ASSUME lastSeal \in Centimetres
  PROVE  Base \in Centimetres /\ \A c \in Cup : Base[c] <= Preset + OverCap
<1>1. ASSUME NEW c \in Cup
      PROVE  Minus(Capped(c), Buffer) \in 0..Stroke /\ Minus(Capped(c), Buffer) <= Preset + OverCap
  <2>1. lastSeal[c] \in 0..Stroke
    BY DEF Centimetres
  <2>2. Capped(c) \in Nat /\ Capped(c) <= Preset + OverCap
    BY <2>1, Lengths DEF Capped
  <2>3. Minus(Capped(c), Buffer) \in Nat /\ Minus(Capped(c), Buffer) <= Capped(c)
    BY <2>2, Lengths, MinusBound
  <2> QED
    BY <2>2, <2>3, Lengths
<1> QED
  BY <1>1 DEF Base, Centimetres

LEMMA ShiftedOK ==
  ASSUME lastSeal \in Centimetres, pos \in Centimetres
  PROVE  Shifted \in Centimetres
<1>1. ASSUME NEW c \in Cup
      PROVE  (IF Minus(pos[c] + Preset, lastSeal[c]) > Stroke THEN Stroke
              ELSE Minus(pos[c] + Preset, lastSeal[c])) \in 0..Stroke
  <2>1. lastSeal[c] \in 0..Stroke /\ pos[c] \in 0..Stroke
    BY DEF Centimetres
  <2>2. pos[c] + Preset \in Nat /\ lastSeal[c] \in Nat
    BY <2>1, Lengths
  <2>3. Minus(pos[c] + Preset, lastSeal[c]) \in Nat
    BY <2>2, MinusBound
  <2> QED
    BY <2>3, Lengths
<1> QED
  BY <1>1 DEF Shifted, Centimetres

-----------------------------------------------------------------------------
(* What the drives do with what they are told.                             *)

LEMMA QueuedOK ==
  ASSUME MotorTypes, NEW S \in SUBSET Cup, NEW to \in Centimetres
  PROVE  /\ Queued(S, to) \in [Cup -> 0..Rest]
         /\ \A c \in Cup : Queued(S, to)[c] = IF c \in S THEN to[c] ELSE queue[c]
<1> QED
  BY RestOff DEF MotorTypes, Queued, Centimetres

LEMMA HaltEffect ==
  ASSUME MotorTypes, NEW S, NEW far \in BOOLEAN, Halt(S, far)
  PROVE  /\ pos' \in Centimetres /\ goal' \in [Cup -> 0..Rest]
         /\ \A c \in Cup : goal'[c] \in {goal[c], Rest}
         /\ \A c \in Cup : pos[c] = 0 /\ goal[c] \in {0, Rest} => pos'[c] = 0
<1>1. ASSUME NEW c \in Cup, goal[c] # Rest
      PROVE  Between(c) \in 0..Stroke /\ (pos[c] = 0 /\ goal[c] = 0 => Between(c) = 0)
  <2>1. pos[c] \in 0..Stroke /\ goal[c] \in 0..Stroke
    BY <1>1, RestOff DEF MotorTypes, Centimetres
  <2> QED
    BY <2>1, Lengths DEF Between
<1>2. ASSUME NEW c \in Cup
      PROVE  /\ (IF c \in S /\ goal[c] # Rest /\ far THEN Between(c) ELSE pos[c]) \in 0..Stroke
             /\ (IF c \in S THEN Rest ELSE goal[c]) \in 0..Rest
  BY <1>1, RestOff DEF MotorTypes, Centimetres
<1>3. pos' \in Centimetres /\ goal' \in [Cup -> 0..Rest]
  BY <1>2 DEF Halt, Centimetres
<1>4. \A c \in Cup : goal'[c] \in {goal[c], Rest}
  BY DEF Halt
<1>5. \A c \in Cup : pos'[c] = IF c \in S /\ goal[c] # Rest /\ far THEN Between(c) ELSE pos[c]
  BY DEF Halt
<1> QED
  BY <1>1, <1>3, <1>4, <1>5

LEMMA BroadcastEffect ==
  ASSUME MotorTypes, NEW q \in [Cup -> 0..Rest], NEW lost, Broadcast(q, lost)
  PROVE  /\ goal' \in [Cup -> 0..Rest] /\ queue' \in [Cup -> 0..Rest]
         /\ \A c \in Cup : queue'[c] \in {q[c], Rest}
         /\ \A c \in Cup : goal'[c] \in {goal[c], q[c]}
<1> QED
  BY RestOff DEF MotorTypes, Broadcast

-----------------------------------------------------------------------------
(* Where a step leaves the callers.                                        *)

LEMMA GoesEffect ==
  ASSUME CallTypes, NEW t \in Caller, NEW l \in OnBus \cup OffBus, Goes(t, l)
  PROVE  /\ place' \in [Caller -> OnBus \cup OffBus]
         /\ place'[t] = l /\ \A u \in Caller \ {t} : place'[u] = place[u]
<1> QED
  BY DEF CallTypes, Goes

LEMMA NoCallOK == NoCall \in [op : Ops, cups : SUBSET Cup, to : {0, Preset}]
<1> QED
  BY DEF NoCall, Ops

LEMMA ReturnEffect ==
  ASSUME CallTypes, NEW t \in Caller, Return(t)
  PROVE  /\ place' \in [Caller -> OnBus \cup OffBus]
         /\ call' \in [Caller -> [op : Ops, cups : SUBSET Cup, to : {0, Preset}]]
         /\ place'[t] = "idle" /\ call'[t].cups = {}
         /\ \A u \in Caller \ {t} : place'[u] = place[u] /\ call'[u] = call[u]
<1>1. Goes(t, "idle") /\ call' = [call EXCEPT ![t] = NoCall]
  BY DEF Return
<1>2. "idle" \in OnBus \cup OffBus
  BY DEF OffBus
<1> QED
  BY <1>1, <1>2, GoesEffect, NoCallOK DEF CallTypes, NoCall

\* Which places are which
LEMMA PlaceKinds ==
  /\ Extending \subseteq OnBus /\ OnBus \cap OffBus = {}
  /\ {"x_look", "x_seal", "x_push", "x_pushed", "x_free"} \subseteq Extending
  /\ \A t : InRetract(t) => place[t] \in OnBus \ Extending
  /\ \A t : InRetract(t)' => place'[t] \in OnBus \ Extending
<1> QED
  BY DEF Extending, OnBus, OffBus, InRetract

\* The other callers stay where they are
OthersStay(t) == \A u \in Caller \ {t} : place'[u] = place[u] /\ call'[u] = call[u]

LEMMA CallersStep ==
  ASSUME CallTypes, Owner, RealignPlaces, NEW t \in Caller, OthersStay(t),
         bus' \in Caller \cup {NoCaller},
         place' \in [Caller -> OnBus \cup OffBus],
         call' \in [Caller -> [op : Ops, cups : SUBSET Cup, to : {0, Preset}]],
         place'[t] \in OnBus <=> bus' = t,
         \A u \in Caller \ {t} : bus = u <=> bus' = u,
         place'[t] \in {"a_send", "a_wait", "a_read"} => call'[t].op = "realign"
  PROVE  CallTypes' /\ Owner' /\ RealignPlaces'
<1>1. CallTypes'
  BY DEF CallTypes
<1>2. Owner'
  <2>1. ASSUME NEW u \in Caller, u # t PROVE place'[u] \in OnBus <=> bus' = u
    BY <2>1 DEF OthersStay, Owner
  <2> QED
    BY <2>1 DEF Owner
<1>3. RealignPlaces'
  BY DEF OthersStay, RealignPlaces
<1> QED
  BY <1>1, <1>2, <1>3

\* A step of the owner of the bus that keeps it
LEMMA Onward ==
  ASSUME CallTypes, Owner, RealignPlaces, NEW t \in Caller, place[t] \in OnBus,
         NEW l \in OnBus, Goes(t, l), UNCHANGED <<bus, call>>
  PROVE  /\ CallTypes' /\ Owner' /\ RealignPlaces'
         /\ OthersStay(t) /\ place'[t] = l /\ bus = t /\ bus' = t
<1>1. /\ place' \in [Caller -> OnBus \cup OffBus]
      /\ place'[t] = l /\ \A u \in Caller \ {t} : place'[u] = place[u]
  BY GoesEffect
<1>2. bus = t /\ bus' = t
  BY DEF Owner
<1>3. OthersStay(t)
  BY <1>1 DEF OthersStay
<1>4. l \notin {"a_send", "a_wait", "a_read"}
  BY DEF OnBus
<1>5. CallTypes' /\ Owner' /\ RealignPlaces'
  BY <1>1, <1>2, <1>3, <1>4, CallersStep DEF CallTypes
<1> QED
  BY <1>1, <1>2, <1>3, <1>5

\* A step of a caller without the bus
LEMMA Offside ==
  ASSUME CallTypes, Owner, RealignPlaces, NEW t \in Caller, place[t] \in OffBus,
         place' \in [Caller -> OnBus \cup OffBus], place'[t] \in OffBus,
         call' \in [Caller -> [op : Ops, cups : SUBSET Cup, to : {0, Preset}]],
         OthersStay(t), UNCHANGED bus,
         place'[t] \in {"a_send", "a_wait", "a_read"} => call'[t].op = "realign"
  PROVE  CallTypes' /\ Owner' /\ RealignPlaces'
<1>1. bus # t /\ place'[t] \notin OnBus
  BY PlaceKinds DEF Owner
<1> QED
  BY <1>1, CallersStep DEF CallTypes

\* The owner gives the bus back
LEMMA Leaves ==
  ASSUME CallTypes, Owner, RealignPlaces, NEW t \in Caller, place[t] \in OnBus,
         place' \in [Caller -> OnBus \cup OffBus],
         call' \in [Caller -> [op : Ops, cups : SUBSET Cup, to : {0, Preset}]],
         place'[t] \in {"idle", "x_clear"}, OthersStay(t), bus' = NoCaller
  PROVE  CallTypes' /\ Owner' /\ RealignPlaces'
<1>1. bus = t /\ bus' \notin Caller
  BY CallerAssumption DEF Owner
<1>2. place'[t] \notin OnBus
  BY DEF OnBus
<1> QED
  BY <1>1, <1>2, CallersStep DEF CallTypes

\* Only one caller has the bus
LEMMA Alone ==
  ASSUME Owner, NEW t \in Caller, place[t] \in OnBus
  PROVE  bus = t /\ \A u \in Caller \ {t} : place[u] \notin OnBus
<1> QED
  BY DEF Owner

-----------------------------------------------------------------------------
(* What a step does not touch.                                             *)

LEMMA NoExtOK == ExtOK(NoExt)
<1>1. NoExt \in ExtRecord
  BY Lengths DEF NoExt, ExtRecord, Centimetres
<1>2. \A c \in Cup : NoExt.base[c] = 0 /\ NoExt.plan[c] = 0
  BY DEF NoExt
<1>3. NoExt.open = {}
  BY DEF NoExt
<1> QED
  BY <1>1, <1>2, <1>3, Lengths DEF ExtOK

LEMMA ExtensionStays ==
  ASSUME Extension, CallTypes, NEW t \in Caller, OthersStay(t), UNCHANGED ext,
         place[t] \notin Extending, place'[t] \notin Extending
  PROVE  Extension'
<1>1. ASSUME NEW u \in Caller PROVE ExtAt(place'[u], ext', call'[u].cups)
  <2>1. CASE u = t
    BY <2>1 DEF ExtAt, Extending
  <2>2. CASE u # t
    BY <2>2 DEF OthersStay, Extension, Cups
  <2> QED
    BY <2>1, <2>2
<1>2. ext' # NoExt => \E u \in Caller : place'[u] \in Extending
  <2>1. ASSUME NEW u \in Caller, place[u] \in Extending PROVE place'[u] \in Extending
    BY <2>1 DEF OthersStay
  <2> QED
    BY <2>1 DEF Extension
<1>3. ExtOK(ext')
  BY DEF Extension
<1> QED
  BY <1>1, <1>2, <1>3 DEF Extension, Cups

LEMMA ExtensionMoves ==
  ASSUME Owner, NEW t \in Caller, place[t] \in OnBus, OthersStay(t), UNCHANGED call,
         place'[t] \in Extending, ExtOK(ext'), ExtAt(place'[t], ext', Cups(t))
  PROVE  Extension'
<1>1. ASSUME NEW u \in Caller PROVE ExtAt(place'[u], ext', call'[u].cups)
  <2>1. CASE u = t
    BY <2>1 DEF Cups
  <2>2. CASE u # t
    <3>1. place'[u] \notin OnBus
      BY <2>2, Alone DEF OthersStay
    <3>2. place'[u] \notin Extending
      BY <3>1, PlaceKinds
    <3> QED
      BY <3>2 DEF ExtAt, Extending
  <2> QED
    BY <2>1, <2>2
<1> QED
  BY <1>1 DEF Extension, Cups

LEMMA ExtensionEnds ==
  ASSUME Owner, NEW t \in Caller, place[t] \in OnBus, OthersStay(t), place'[t] \notin Extending,
         ext' = NoExt
  PROVE  Extension'
<1>1. ASSUME NEW u \in Caller PROVE place'[u] \notin Extending
  <2>1. CASE u # t
    BY <2>1, Alone, PlaceKinds DEF OthersStay
  <2> QED
    BY <2>1
<1>2. \A u \in Caller : ExtAt(place'[u], ext', call'[u].cups)
  BY <1>1 DEF ExtAt, Extending
<1> QED
  BY <1>1, <1>2, NoExtOK DEF Extension, Cups

\* Without an extension its locals are not there
LEMMA NothingExtended ==
  ASSUME Owner, Extension, NEW t \in Caller, place[t] \in OnBus \ Extending
  PROVE  ext = NoExt
<1>1. \A u \in Caller : place[u] \notin Extending
  BY Alone, PlaceKinds
<1> QED
  BY <1>1 DEF Extension

LEMMA PowerStays ==
  ASSUME Power, NEW t \in Caller, OthersStay(t), UNCHANGED <<enabled, unheard, ext>>,
         place[t] \notin {"x_look", "x_seal"}
  PROVE  Power'
<1>1. ASSUME NEW u \in Caller, place[u] \in {"x_look", "x_seal"}
      PROVE  place'[u] \in {"x_look", "x_seal"}
  BY <1>1 DEF OthersStay
<1> QED
  BY <1>1 DEF Power

LEMMA PowerHeard ==
  ASSUME Power, Owner, NEW t \in Caller, place[t] \in OnBus \ {"x_look", "x_seal"}
  PROVE  \A c \in Cup \ enabled : c \in unheard
<1>1. \A u \in Caller : place[u] \notin {"x_look", "x_seal"}
  BY Alone, PlaceKinds
<1> QED
  BY <1>1 DEF Power

LEMMA PowerKept ==
  ASSUME Power, Owner, NEW t \in Caller, place[t] \in OnBus \ {"x_look", "x_seal"},
         UNCHANGED <<enabled, unheard>>
  PROVE  Power'
<1> QED
  BY PowerHeard DEF Power

LEMMA ValveStays ==
  ASSUME Valve, NEW t \in Caller, OthersStay(t), UNCHANGED valve, InRetract(t) => InRetract(t)'
  PROVE  Valve'
<1>1. ASSUME NEW u \in Caller, InRetract(u) PROVE InRetract(u)'
  BY <1>1 DEF OthersStay, InRetract
<1>2. UNCHANGED <<bv, armed, bvLost>>
  BY DEF valve
<1> QED
  BY <1>1, <1>2 DEF Valve

HomePlaces == {"r_close", "r_wait", "r_verify", "r_done"}

LEMMA HomingStays ==
  ASSUME Homing, NEW t \in Caller, OthersStay(t), UNCHANGED <<pos, goal, queue, realigned>>,
         place'[t] \notin HomePlaces
  PROVE  Homing'
<1>1. ASSUME NEW u \in Caller, NEW c \in call'[u].cups \ realigned'
      PROVE  HomeAt(place'[u], queue'[c], goal'[c], pos'[c])
  <2>1. CASE u = t
    BY <2>1 DEF HomeAt, HomePlaces
  <2>2. CASE u # t
    BY <2>2 DEF OthersStay, Homing, Cups
  <2> QED
    BY <2>1, <2>2
<1> QED
  BY <1>1 DEF Homing, Cups

\* No other caller retracts
LEMMA HomingMoves ==
  ASSUME Owner, NEW t \in Caller, place[t] \in OnBus, OthersStay(t),
         \A c \in Cups(t)' \ realigned' : HomeAt(place'[t], queue'[c], goal'[c], pos'[c])
  PROVE  Homing'
<1>1. ASSUME NEW u \in Caller, NEW c \in call'[u].cups \ realigned'
      PROVE  HomeAt(place'[u], queue'[c], goal'[c], pos'[c])
  <2>1. CASE u = t
    BY <2>1 DEF Cups
  <2>2. CASE u # t
    <3>1. place'[u] \notin OnBus
      BY <2>2, Alone DEF OthersStay
    <3> QED
      BY <3>1 DEF HomeAt, OnBus
  <2> QED
    BY <2>1, <2>2
<1> QED
  BY <1>1 DEF Homing, Cups

LEMMA HomingElsewhere ==
  ASSUME Owner, NEW t \in Caller, place[t] \in OnBus, OthersStay(t), place'[t] \notin HomePlaces
  PROVE  Homing'
<1> QED
  BY HomingMoves DEF HomeAt, HomePlaces

-----------------------------------------------------------------------------
(* What happens to the drives while the callers stay where they are.       *)

LEMMA DrivesStep ==
  ASSUME PushInv, MotorTypes', UNCHANGED <<enabled, valve, bus, place, call, ext, lastSeal, history>>,
         \A c \in Cup : /\ queue'[c] \in {queue[c], Rest} /\ goal'[c] \in {goal[c], Rest}
                        /\ pos[c] = 0 /\ goal[c] \in {0, Rest} => pos'[c] = 0
  PROVE  PushInv'
<1>1. UNCHANGED <<bv, armed, bvLost, unheard, realigned>>
  BY DEF valve, history
<1>2. CallTypes' /\ SealTypes' /\ ValveTypes' /\ Owner' /\ RealignPlaces'
  BY <1>1 DEF PushInv, CallTypes, SealTypes, ValveTypes, Owner, RealignPlaces
<1>3. Extension'
  BY DEF PushInv, Extension, Cups
<1>4. Power'
  BY <1>1 DEF PushInv, Power
<1>5. Valve'
  BY <1>1 DEF PushInv, Valve, InRetract
<1>6. Homing'
  <2>1. ASSUME NEW u \in Caller, NEW c \in Cups(u) \ realigned
        PROVE  HomeAt(place[u], queue'[c], goal'[c], pos'[c])
    <3>1. c \in Cup
      BY DEF PushInv, CallTypes, Cups
    <3>2. HomeAt(place[u], queue[c], goal[c], pos[c])
      BY DEF PushInv, Homing
    <3> QED
      BY <3>1, <3>2 DEF HomeAt
  <2> QED
    BY <1>1, <2>1 DEF Homing, Cups
<1> QED
  BY <1>2, <1>3, <1>4, <1>5, <1>6 DEF PushInv

LEMMA ArriveStep == PushInv /\ Arrive => PushInv'
<1> SUFFICES ASSUME PushInv, Arrive PROVE PushInv'
  OBVIOUS
<1>1. /\ pos' = [c \in Cup |-> IF c \in Driving THEN goal[c] ELSE pos[c]]
      /\ goal' = [c \in Cup |-> Rest]
      /\ UNCHANGED <<queue, enabled, stall, deaf, valve, bus, place, call, ext, lastSeal, history>>
  BY DEF Arrive
<1>2. ASSUME NEW c \in Cup PROVE (IF c \in Driving THEN goal[c] ELSE pos[c]) \in 0..Stroke
  BY RestOff DEF PushInv, MotorTypes, Centimetres, Driving
<1>3. MotorTypes'
  BY <1>1, <1>2, RestOff DEF PushInv, MotorTypes, Centimetres
<1>4. ASSUME NEW c \in Cup, pos[c] = 0, goal[c] \in {0, Rest} PROVE pos'[c] = 0
  BY <1>1, <1>4 DEF Driving
<1> QED
  BY <1>1, <1>3, <1>4, DrivesStep

LEMMA BlockStep ==
  ASSUME NEW c \in Cup, PushInv, Block(c)
  PROVE  PushInv'
<1>1. /\ Halt({c}, TRUE) /\ stall' \in {stall, stall \cup {c}}
      /\ UNCHANGED <<queue, enabled, deaf, valve, bus, place, call, ext, lastSeal, history>>
  BY DEF Block
<1>2. /\ pos' \in Centimetres /\ goal' \in [Cup -> 0..Rest]
      /\ \A d \in Cup : goal'[d] \in {goal[d], Rest}
      /\ \A d \in Cup : pos[d] = 0 /\ goal[d] \in {0, Rest} => pos'[d] = 0
  BY <1>1, HaltEffect DEF PushInv
<1>3. MotorTypes'
  BY <1>1, <1>2 DEF PushInv, MotorTypes
<1> QED
  BY <1>1, <1>2, <1>3, DrivesStep

LEMMA DeafStep ==
  ASSUME NEW c \in Cup, PushInv, GoDeaf(c) \/ HearAgain(c)
  PROVE  PushInv'
<1>1. /\ deaf' \subseteq deaf \cup {c}
      /\ UNCHANGED <<motors, valve, bus, place, call, ext, lastSeal, history>>
  BY DEF GoDeaf, HearAgain
<1>2. UNCHANGED <<pos, goal, queue, enabled, stall>>
  BY <1>1 DEF motors
<1>3. MotorTypes'
  BY <1>1, <1>2 DEF PushInv, MotorTypes
<1> QED
  BY <1>1, <1>2, <1>3, DrivesStep

LEMMA StopAllStep == PushInv /\ EmergencyStop => PushInv'
<1> SUFFICES ASSUME PushInv, EmergencyStop PROVE PushInv'
  OBVIOUS
<1>1. PICK far \in BOOLEAN : Halt(Cup \ deaf, far)
  BY DEF EmergencyStop
<1>2. UNCHANGED <<queue, enabled, stall, deaf, valve, bus, place, call, ext, lastSeal, history>>
  BY DEF EmergencyStop
<1>3. /\ pos' \in Centimetres /\ goal' \in [Cup -> 0..Rest]
      /\ \A d \in Cup : goal'[d] \in {goal[d], Rest}
      /\ \A d \in Cup : pos[d] = 0 /\ goal[d] \in {0, Rest} => pos'[d] = 0
  BY <1>1, HaltEffect DEF PushInv
<1>4. MotorTypes'
  BY <1>2, <1>3 DEF PushInv, MotorTypes
<1> QED
  BY <1>2, <1>3, <1>4, DrivesStep

-----------------------------------------------------------------------------
(* Calls begin and end.                                                    *)

\* A step of t that neither extends nor retracts, and leaves drivers, valve and motion alone
LEMMA PlainStep ==
  ASSUME PushInv, NEW t \in Caller, OthersStay(t), CallTypes', Owner', RealignPlaces', SealTypes',
         UNCHANGED <<pos, goal, queue, enabled, deaf, valve, ext, history>>, stall' \subseteq stall,
         place[t] \notin Extending, place'[t] \notin Extending,
         ~InRetract(t), place'[t] \notin HomePlaces
  PROVE  PushInv'
<1>1. UNCHANGED <<bv, armed, bvLost, unheard, realigned>>
  BY DEF valve, history
<1>2. MotorTypes' /\ ValveTypes'
  BY <1>1 DEF PushInv, MotorTypes, ValveTypes
<1>3. Extension'
  BY ExtensionStays DEF PushInv
<1>4. place[t] \notin {"x_look", "x_seal"}
  BY DEF Extending
<1>5. Power'
  BY <1>1, <1>4, PowerStays DEF PushInv
<1>6. Valve'
  BY ValveStays DEF PushInv
<1>7. Homing'
  BY <1>1, HomingStays DEF PushInv
<1> QED
  BY <1>2, <1>3, <1>5, <1>6, <1>7 DEF PushInv

LEMMA AskStep ==
  ASSUME PushInv, NEW t \in Caller, NEW op \in Ops, NEW G \in SUBSET Cup, NEW to \in {0, Preset},
         Ask(t, op, G, to)
  PROVE  PushInv'
<1>1. /\ place[t] = "idle" /\ Goes(t, "want")
      /\ call' = [call EXCEPT ![t] = [op |-> op, cups |-> G, to |-> to]]
      /\ UNCHANGED <<motors, deaf, valve, bus, ext, lastSeal, history>>
  BY DEF Ask
<1>2. UNCHANGED <<pos, goal, queue, enabled, stall, unheard, realigned>>
  BY <1>1 DEF motors, history
<1>3. "want" \in OffBus /\ "idle" \in OffBus
  BY DEF OffBus
<1>4. /\ place' \in [Caller -> OnBus \cup OffBus]
      /\ place'[t] = "want" /\ \A u \in Caller \ {t} : place'[u] = place[u]
  BY <1>1, <1>3, GoesEffect DEF PushInv
<1>5. call' \in [Caller -> [op : Ops, cups : SUBSET Cup, to : {0, Preset}]]
  BY <1>1 DEF PushInv, CallTypes
<1>6. OthersStay(t)
  BY <1>1, <1>4 DEF OthersStay, PushInv, CallTypes
<1>7. CallTypes' /\ Owner' /\ RealignPlaces'
  BY <1>1, <1>3, <1>4, <1>5, <1>6, Offside DEF PushInv
<1>8. /\ place[t] \notin Extending /\ place'[t] \notin Extending
      /\ ~InRetract(t) /\ place'[t] \notin HomePlaces
  BY <1>1, <1>4 DEF Extending, InRetract, HomePlaces
<1>9. SealTypes'
  BY <1>1, <1>2 DEF PushInv, SealTypes
<1> QED
  BY <1>1, <1>2, <1>6, <1>7, <1>8, <1>9, PlainStep

LEMMA AcquireStep ==
  ASSUME PushInv, NEW t \in Caller, Acquire(t)
  PROVE  PushInv'
<1>1. /\ place[t] = "want" /\ bus = NoCaller /\ bus' = t
      /\ stall' \subseteq stall /\ Goes(t, FirstStep(call[t].op))
      /\ UNCHANGED <<pos, goal, queue, enabled, deaf, valve, call, ext, lastSeal, history>>
  BY DEF Acquire
<1>2. FirstStep(call[t].op) \in {"r_open", "m_send", "x_send"}
  BY DEF FirstStep
<1>3. FirstStep(call[t].op) \in OnBus \cup OffBus
  BY <1>2 DEF OnBus
<1>4. /\ place' \in [Caller -> OnBus \cup OffBus]
      /\ place'[t] \in {"r_open", "m_send", "x_send"} /\ \A u \in Caller \ {t} : place'[u] = place[u]
  BY <1>1, <1>2, <1>3, GoesEffect DEF PushInv
<1>5. OthersStay(t)
  BY <1>1, <1>4 DEF OthersStay
<1>6. \A u \in Caller \ {t} : bus = u <=> bus' = u
  BY <1>1, CallerAssumption
<1>7. /\ place'[t] \in OnBus /\ place'[t] \notin {"a_send", "a_wait", "a_read"}
      /\ place[t] \notin Extending /\ place'[t] \notin Extending
      /\ ~InRetract(t) /\ place'[t] \notin HomePlaces
  BY <1>1, <1>4 DEF OnBus, Extending, InRetract, HomePlaces
<1>8. CallTypes' /\ Owner' /\ RealignPlaces'
  BY <1>1, <1>4, <1>5, <1>6, <1>7, CallersStep DEF PushInv, CallTypes
<1>9. SealTypes'
  BY <1>1 DEF PushInv, SealTypes, history
<1> QED
  BY <1>1, <1>5, <1>7, <1>8, <1>9, PlainStep

LEMMA ExitStep ==
  ASSUME PushInv, NEW t \in Caller, Exit(t)
  PROVE  PushInv'
<1>1. /\ place[t] = "exit" /\ bus' = NoCaller /\ Return(t) /\ ext' = NoExt
      /\ UNCHANGED <<motors, deaf, valve, lastSeal, history>>
  BY DEF Exit
<1>2. UNCHANGED <<pos, goal, queue, enabled, stall, unheard, realigned>>
  BY <1>1 DEF motors, history
<1>3. /\ place' \in [Caller -> OnBus \cup OffBus]
      /\ call' \in [Caller -> [op : Ops, cups : SUBSET Cup, to : {0, Preset}]]
      /\ place'[t] = "idle" /\ OthersStay(t)
  BY <1>1, ReturnEffect DEF PushInv, OthersStay
<1>4. /\ place[t] \in OnBus /\ place[t] \notin Extending /\ place'[t] \notin Extending
      /\ ~InRetract(t) /\ place'[t] \notin HomePlaces
  BY <1>1, <1>3 DEF OnBus, Extending, InRetract, HomePlaces
<1>5. CallTypes' /\ Owner' /\ RealignPlaces'
  BY <1>1, <1>3, <1>4, Leaves DEF PushInv
<1>6. UNCHANGED ext
  BY <1>1, <1>4, NothingExtended DEF PushInv
<1>7. SealTypes'
  BY <1>1, <1>2 DEF PushInv, SealTypes
<1> QED
  BY <1>1, <1>2, <1>3, <1>4, <1>5, <1>6, <1>7, PlainStep

LEMMA ClearStep ==
  ASSUME PushInv, NEW t \in Caller, ExtendClear(t)
  PROVE  PushInv'
<1>1. /\ place[t] = "x_clear" /\ Return(t) /\ stall' \subseteq stall
      /\ UNCHANGED <<pos, goal, queue, enabled, deaf, valve, bus, ext, lastSeal, history>>
  BY DEF ExtendClear
<1>2. /\ place' \in [Caller -> OnBus \cup OffBus]
      /\ call' \in [Caller -> [op : Ops, cups : SUBSET Cup, to : {0, Preset}]]
      /\ place'[t] = "idle" /\ OthersStay(t)
  BY <1>1, ReturnEffect DEF PushInv, OthersStay
<1>3. /\ place[t] \in OffBus /\ place'[t] \in OffBus
      /\ place[t] \notin Extending /\ place'[t] \notin Extending
      /\ ~InRetract(t) /\ place'[t] \notin HomePlaces
  BY <1>1, <1>2 DEF OffBus, Extending, InRetract, HomePlaces
<1>4. CallTypes' /\ Owner' /\ RealignPlaces'
  BY <1>1, <1>2, <1>3, Offside DEF PushInv
<1>5. SealTypes'
  BY <1>1 DEF PushInv, SealTypes, history
<1> QED
  BY <1>1, <1>2, <1>3, <1>4, <1>5, PlainStep

-----------------------------------------------------------------------------
(* Moves and retracts.                                                     *)

\* A step on the bus that is no part of an extension
LEMMA BusStep ==
  ASSUME PushInv, NEW t \in Caller, place[t] \in OnBus \ Extending,
         NEW l \in OnBus \ Extending, Goes(t, l),
         UNCHANGED <<bus, call, ext, enabled, lastSeal, history>>,
         MotorTypes', ValveTypes', Valve',
         \A c \in Cups(t) \ realigned : HomeAt(l, queue'[c], goal'[c], pos'[c])
  PROVE  PushInv'
<1>1. UNCHANGED <<unheard, realigned>>
  BY DEF history
<1>2. /\ CallTypes' /\ Owner' /\ RealignPlaces'
      /\ OthersStay(t) /\ place'[t] = l
  BY Onward DEF PushInv
<1>3. SealTypes'
  BY <1>1 DEF PushInv, SealTypes
<1>4. Extension'
  BY <1>2, ExtensionStays DEF PushInv
<1>5. place[t] \notin {"x_look", "x_seal"}
  BY DEF Extending
<1>6. Power'
  BY <1>1, <1>2, <1>5, PowerStays DEF PushInv
<1>7. Homing'
  BY <1>1, <1>2, HomingMoves DEF PushInv, Cups
<1> QED
  BY <1>2, <1>3, <1>4, <1>6, <1>7 DEF PushInv

\* The valve is left alone, by a step within a retract or outside of one
LEMMA ValveBeside ==
  ASSUME PushInv, NEW t \in Caller, NEW l \in OnBus, place[t] \in OnBus, Goes(t, l),
         UNCHANGED <<bus, call, valve>>,
         InRetract(t) => l \in {"r_send", "r_close", "r_wait", "r_verify", "r_exit", "r_done", "again"}
  PROVE  ValveTypes' /\ Valve'
<1>1. OthersStay(t) /\ place'[t] = l
  BY Onward DEF PushInv
<1>2. InRetract(t) => InRetract(t)'
  BY <1>1 DEF InRetract
<1> QED
  BY <1>1, <1>2, ValveStays DEF PushInv, ValveTypes, valve

LEMMA HalfSentOK ==
  ASSUME PushInv, NEW t \in Caller, NEW to \in Centimetres, HalfSent(t, to)
  PROVE  queue' \in [Cup -> 0..Rest]
<1>1. PICK S \in SUBSET (Cups(t) \ Refuses) : queue' = Queued(S, to)
  BY DEF HalfSent
<1>2. S \in SUBSET Cup
  BY DEF PushInv, CallTypes, Cups
<1> QED
  BY <1>1, <1>2, QueuedOK DEF PushInv

\* A broadcast to the cups of S
LEMMA SentOK ==
  ASSUME PushInv, NEW S \in SUBSET Cup, NEW to \in Centimetres, NEW lost, Broadcast(Queued(S, to), lost)
  PROVE  /\ goal' \in [Cup -> 0..Rest] /\ queue' \in [Cup -> 0..Rest]
         /\ \A c \in S : queue'[c] \in {to[c], Rest} /\ goal'[c] \in {goal[c], to[c]}
         /\ \A c \in Cup \ S : queue'[c] \in {queue[c], Rest} /\ goal'[c] \in {goal[c], queue[c]}
<1>1. /\ Queued(S, to) \in [Cup -> 0..Rest]
      /\ \A c \in Cup : Queued(S, to)[c] = IF c \in S THEN to[c] ELSE queue[c]
  BY QueuedOK DEF PushInv
<1>2. /\ goal' \in [Cup -> 0..Rest] /\ queue' \in [Cup -> 0..Rest]
      /\ \A c \in Cup : queue'[c] \in {Queued(S, to)[c], Rest}
      /\ \A c \in Cup : goal'[c] \in {goal[c], Queued(S, to)[c]}
  BY <1>1, BroadcastEffect DEF PushInv
<1> QED
  BY <1>1, <1>2

LEMMA MoveSendStep ==
  ASSUME PushInv, NEW t \in Caller, MoveSend(t)
  PROVE  PushInv'
<1>1. /\ place[t] = "m_send"
      /\ UNCHANGED <<pos, enabled, stall, deaf, valve, bus, call, ext, lastSeal, history>>
  BY DEF MoveSend
<1>2. MoveTo(t) \in Centimetres
  BY Lengths DEF PushInv, CallTypes, MoveTo, Centimetres
<1>3. Away(t) \in SUBSET Cup
  BY DEF PushInv, CallTypes, Away, Cups
<1>4. /\ goal' \in [Cup -> 0..Rest] /\ queue' \in [Cup -> 0..Rest]
      /\ Goes(t, "exit") \/ Goes(t, "m_wait")
  <2>1. CASE Goes(t, "exit") /\ UNCHANGED <<goal, queue>>
    BY <2>1 DEF PushInv, MotorTypes
  <2>2. CASE HalfSent(t, MoveTo(t)) /\ Goes(t, "exit") /\ UNCHANGED goal
    BY <1>2, <2>2, HalfSentOK DEF PushInv, MotorTypes
  <2>3. CASE /\ \E lost \in SUBSET Away(t) : Broadcast(Queued(Away(t), MoveTo(t)), lost)
             /\ Goes(t, "m_wait")
    BY <1>2, <1>3, <2>3, SentOK
  <2> QED
    BY <2>1, <2>2, <2>3 DEF MoveSend
<1>5. MotorTypes'
  BY <1>1, <1>4 DEF PushInv, MotorTypes
<1>6. /\ place[t] \in OnBus \ Extending /\ ~InRetract(t)
      /\ {"exit", "m_wait"} \subseteq OnBus \ Extending
  BY <1>1 DEF OnBus, Extending, InRetract
<1>7. ValveTypes' /\ Valve'
  BY <1>1, <1>4, <1>6, ValveBeside
<1>8. \A c : HomeAt("exit", queue'[c], goal'[c], pos'[c]) /\ HomeAt("m_wait", queue'[c], goal'[c], pos'[c])
  BY DEF HomeAt
<1> QED
  BY <1>1, <1>4, <1>5, <1>6, <1>7, <1>8, BusStep

LEMMA MoveWaitStep ==
  ASSUME PushInv, NEW t \in Caller, MoveWait(t)
  PROVE  PushInv'
<1>1. /\ place[t] = "m_wait" /\ stall' \subseteq stall /\ Goes(t, "exit")
      /\ UNCHANGED <<pos, goal, queue, enabled, deaf, valve, bus, call, ext, lastSeal, history>>
  BY DEF MoveWait
<1>2. MotorTypes'
  BY <1>1 DEF PushInv, MotorTypes
<1>3. place[t] \in OnBus \ Extending /\ ~InRetract(t) /\ "exit" \in OnBus \ Extending
  BY <1>1 DEF OnBus, Extending, InRetract
<1>4. ValveTypes' /\ Valve'
  BY <1>1, <1>3, ValveBeside
<1>5. \A c : HomeAt("exit", queue'[c], goal'[c], pos'[c])
  BY DEF HomeAt
<1> QED
  BY <1>1, <1>2, <1>3, <1>4, <1>5, BusStep

LEMMA RetractOpenStep ==
  ASSUME PushInv, NEW t \in Caller, RetractOpen(t)
  PROVE  PushInv'
<1>1. /\ place[t] = "r_open" /\ armed' = TRUE /\ bv' \in {bv, TRUE} /\ Goes(t, "r_send")
      /\ UNCHANGED <<motors, deaf, bvLost, bus, call, ext, lastSeal, history>>
  BY DEF RetractOpen, Arms, Switch, SwitchLost
<1>2. UNCHANGED <<pos, goal, queue, enabled, stall>>
  BY <1>1 DEF motors
<1>3. MotorTypes'
  BY <1>1, <1>2 DEF PushInv, MotorTypes
<1>4. place[t] \in OnBus \ Extending /\ "r_send" \in OnBus \ Extending
  BY <1>1 DEF OnBus, Extending
<1>5. place'[t] = "r_send"
  BY <1>1, <1>4, Onward DEF PushInv
<1>6. ValveTypes' /\ Valve'
  <2>1. InRetract(t)'
    BY <1>5 DEF InRetract
  <2>2. bv' \in BOOLEAN
    BY <1>1 DEF PushInv, ValveTypes
  <2> QED
    BY <1>1, <2>1, <2>2 DEF PushInv, ValveTypes, Valve
<1>7. \A c : HomeAt("r_send", queue'[c], goal'[c], pos'[c])
  BY DEF HomeAt
<1> QED
  BY <1>1, <1>2, <1>3, <1>4, <1>6, <1>7, BusStep

LEMMA RetractSendStep ==
  ASSUME PushInv, NEW t \in Caller, RetractSend(t)
  PROVE  PushInv'
<1>1. /\ place[t] = "r_send"
      /\ UNCHANGED <<pos, enabled, stall, deaf, valve, bus, call, ext, lastSeal, history>>
  BY DEF RetractSend
<1>2. Home \in Centimetres /\ \A c \in Cup : Home[c] = 0
  BY Lengths DEF Home, Centimetres
<1>3. Cups(t) \in SUBSET Cup
  BY DEF PushInv, CallTypes, Cups
<1>4. place[t] \in OnBus \ Extending /\ {"r_exit", "r_close"} \subseteq OnBus \ Extending
  BY <1>1 DEF OnBus, Extending
<1>5. CASE HalfSent(t, Home) /\ Goes(t, "r_exit") /\ UNCHANGED goal
  <2>1. MotorTypes'
    BY <1>1, <1>2, <1>5, HalfSentOK DEF PushInv, MotorTypes
  <2>2. ValveTypes' /\ Valve'
    BY <1>1, <1>4, <1>5, ValveBeside
  <2>3. \A c : HomeAt("r_exit", queue'[c], goal'[c], pos'[c])
    BY DEF HomeAt
  <2> QED
    BY <1>1, <1>4, <1>5, <2>1, <2>2, <2>3, BusStep
<1>6. CASE /\ \E lost \in SUBSET Cups(t) : Broadcast(Queued(Cups(t), Home), lost)
           /\ Goes(t, "r_close")
  <2>1. /\ goal' \in [Cup -> 0..Rest] /\ queue' \in [Cup -> 0..Rest]
        /\ \A c \in Cups(t) : queue'[c] \in {Home[c], Rest}
    BY <1>2, <1>3, <1>6, SentOK
  <2>2. MotorTypes'
    BY <1>1, <2>1 DEF PushInv, MotorTypes
  <2>3. ValveTypes' /\ Valve'
    BY <1>1, <1>4, <1>6, ValveBeside
  <2>4. \A c \in Cups(t) : HomeAt("r_close", queue'[c], goal'[c], pos'[c])
    BY <1>2, <1>3, <2>1 DEF HomeAt
  <2> QED
    BY <1>1, <1>4, <1>6, <2>2, <2>3, <2>4, BusStep
<1> QED
  BY <1>5, <1>6 DEF RetractSend

LEMMA RetractCloseStep ==
  ASSUME PushInv, NEW t \in Caller, RetractClose(t)
  PROVE  PushInv'
<1>1. /\ place[t] = "r_close" /\ Goes(t, "r_wait")
      /\ UNCHANGED <<motors, deaf, bvLost, bus, call, ext, lastSeal, history>>
  BY DEF RetractClose
<1>2. UNCHANGED <<pos, goal, queue, enabled, stall>>
  BY <1>1 DEF motors
<1>3. MotorTypes'
  BY <1>1, <1>2 DEF PushInv, MotorTypes
<1>4. place[t] \in OnBus \ Extending /\ "r_wait" \in OnBus \ Extending
  BY <1>1 DEF OnBus, Extending
<1>5. OthersStay(t) /\ place'[t] = "r_wait"
  BY <1>1, <1>4, Onward DEF PushInv
<1>6. InRetract(t)'
  BY <1>5 DEF InRetract
<1>7. CASE bv' = FALSE /\ armed' = FALSE
  <2>1. ValveTypes' /\ Valve'
    BY <1>1, <1>7 DEF PushInv, ValveTypes, Valve
  <2>2. \A c \in Cups(t) \ realigned : HomeAt("r_wait", queue'[c], goal'[c], pos'[c])
    BY <1>1, <1>2 DEF PushInv, Homing, HomeAt
  <2> QED
    BY <1>1, <1>2, <1>3, <1>4, <2>1, <2>2, BusStep
<1>8. CASE bv' \in {bv, FALSE} /\ UNCHANGED armed
  <2>1. ValveTypes' /\ Valve'
    <3>1. ValveTypes'
      BY <1>1, <1>8 DEF PushInv, ValveTypes
    <3>2. bv' => bv
      BY <1>8
    <3> QED
      BY <1>1, <1>6, <1>8, <3>1, <3>2 DEF PushInv, Valve
  <2>2. \A c \in Cups(t) \ realigned : HomeAt("r_wait", queue'[c], goal'[c], pos'[c])
    BY <1>1, <1>2 DEF PushInv, Homing, HomeAt
  <2> QED
    BY <1>1, <1>2, <1>3, <1>4, <2>1, <2>2, BusStep
<1> QED
  BY <1>7, <1>8 DEF RetractClose, Switch, SwitchLost

LEMMA RetractWaitStep ==
  ASSUME PushInv, NEW t \in Caller, RetractWait(t)
  PROVE  PushInv'
<1>1. /\ place[t] = "r_wait" /\ stall' \subseteq stall
      /\ Goes(t, "r_exit") \/ (AllStill(Cups(t)) /\ Goes(t, "r_verify"))
      /\ UNCHANGED <<pos, goal, queue, enabled, deaf, valve, bus, call, ext, lastSeal, history>>
  BY DEF RetractWait
<1>2. MotorTypes'
  BY <1>1 DEF PushInv, MotorTypes
<1>3. place[t] \in OnBus \ Extending /\ {"r_exit", "r_verify"} \subseteq OnBus \ Extending
  BY <1>1 DEF OnBus, Extending
<1>4. ValveTypes' /\ Valve'
  BY <1>1, <1>3, ValveBeside
<1>5. CASE Goes(t, "r_exit")
  <2>1. \A c : HomeAt("r_exit", queue'[c], goal'[c], pos'[c])
    BY DEF HomeAt
  <2> QED
    BY <1>1, <1>2, <1>3, <1>4, <1>5, <2>1, BusStep
<1>6. CASE AllStill(Cups(t)) /\ Goes(t, "r_verify")
  <2>1. \A c \in Cups(t) \ realigned : HomeAt("r_verify", queue'[c], goal'[c], pos'[c])
    BY <1>1, <1>6 DEF PushInv, Homing, HomeAt, AllStill
  <2> QED
    BY <1>1, <1>2, <1>3, <1>4, <1>6, <2>1, BusStep
<1> QED
  BY <1>1, <1>5, <1>6

LEMMA RetractVerifyStep ==
  ASSUME PushInv, NEW t \in Caller, RetractVerify(t)
  PROVE  PushInv'
<1>1. /\ place[t] = "r_verify"
      /\ UNCHANGED <<motors, deaf, valve, bus, call, ext, lastSeal, history>>
  BY DEF RetractVerify
<1>2. UNCHANGED <<pos, goal, queue, enabled, stall>>
  BY <1>1 DEF motors
<1>3. MotorTypes'
  BY <1>1, <1>2 DEF PushInv, MotorTypes
<1>4. place[t] \in OnBus \ Extending /\ {"r_exit", "r_done", "again"} \subseteq OnBus \ Extending
  BY <1>1 DEF OnBus, Extending
<1>5. PICK l \in {"r_exit", "r_done", "again"} : Goes(t, l) /\ (l = "r_done" => Off(t) = {})
  BY DEF RetractVerify
<1>6. ValveTypes' /\ Valve'
  BY <1>1, <1>4, <1>5, ValveBeside
<1>7. ASSUME NEW c \in Cups(t) \ realigned PROVE HomeAt(l, queue'[c], goal'[c], pos'[c])
  <2>1. CASE l = "r_done"
    <3>1. HomeAt("r_verify", queue[c], goal[c], pos[c])
      BY <1>1 DEF PushInv, Homing
    <3>2. pos[c] = 0
      BY <1>5, <2>1 DEF Off
    <3> QED
      BY <1>2, <2>1, <3>1, <3>2 DEF HomeAt
  <2>2. CASE l # "r_done"
    BY <1>5, <2>2 DEF HomeAt
  <2> QED
    BY <2>1, <2>2
<1> QED
  BY <1>1, <1>2, <1>3, <1>4, <1>5, <1>6, <1>7, BusStep

LEMMA RetractExitStep ==
  ASSUME PushInv, NEW t \in Caller, RetractExit(t)
  PROVE  PushInv'
<1>1. /\ place[t] \in {"r_exit", "r_done"} /\ armed' = FALSE /\ bus' = NoCaller /\ Return(t)
      /\ UNCHANGED <<motors, deaf, ext, lastSeal, history>>
  BY DEF RetractExit
<1>2. UNCHANGED <<pos, goal, queue, enabled, stall, unheard, realigned>>
  BY <1>1 DEF motors, history
<1>3. /\ place' \in [Caller -> OnBus \cup OffBus]
      /\ call' \in [Caller -> [op : Ops, cups : SUBSET Cup, to : {0, Preset}]]
      /\ place'[t] = "idle" /\ OthersStay(t)
  BY <1>1, ReturnEffect DEF PushInv, OthersStay
<1>4. /\ place[t] \in OnBus /\ place[t] \notin Extending /\ place'[t] \notin Extending
      /\ place[t] \notin {"x_look", "x_seal"} /\ place'[t] \notin HomePlaces
  BY <1>1, <1>3 DEF OnBus, Extending, HomePlaces
<1>5. CallTypes' /\ Owner' /\ RealignPlaces'
  BY <1>1, <1>3, <1>4, Leaves DEF PushInv
<1>6. MotorTypes' /\ SealTypes'
  BY <1>1, <1>2 DEF PushInv, MotorTypes, SealTypes
<1>7. Extension' /\ Power' /\ Homing'
  BY <1>1, <1>2, <1>3, <1>4, ExtensionStays, PowerStays, HomingStays DEF PushInv
<1>8. ValveTypes' /\ Valve'
  <2>1. CASE ~armed /\ UNCHANGED <<bv, bvLost>>
    BY <1>1, <2>1 DEF PushInv, ValveTypes, Valve
  <2>2. CASE bv' = FALSE /\ UNCHANGED bvLost
    BY <1>1, <2>2 DEF PushInv, ValveTypes, Valve
  <2>3. CASE bv' \in {bv, FALSE} /\ bvLost' = TRUE
    <3>1. bv' \in BOOLEAN
      BY <2>3 DEF PushInv, ValveTypes
    <3> QED
      BY <1>1, <2>3, <3>1 DEF ValveTypes, Valve
  <2> QED
    BY <2>1, <2>2, <2>3 DEF RetractExit, Switch, SwitchLost
<1> QED
  BY <1>5, <1>6, <1>7, <1>8 DEF PushInv

-----------------------------------------------------------------------------
(* Extensions: how the locals change.                                      *)

\* From x to y only cups were finished
Finishes(x, y) ==
  /\ ExtOK(x) => ExtOK(y)
  /\ y.iter = x.iter /\ y.obst = x.obst /\ y.endp = x.endp /\ y.plan = x.plan /\ y.base = x.base
  /\ y.open \subseteq x.open
  /\ \A G : Accounts(x, G) => Accounts(y, G)

LEMMA WithSealFinishes ==
  ASSUME MotorTypes, NEW x \in ExtRecord, NEW S \in SUBSET Cup
  PROVE  /\ WithSeal(x, S) \in ExtRecord /\ Finishes(x, WithSeal(x, S))
         /\ WithSeal(x, S).open = x.open \ S
<1> DEFINE y == WithSeal(x, S)
<1>1. [c \in Cup |-> IF c \in S \ deaf THEN pos[c] ELSE x.fin[c]] \in Centimetres
  BY DEF MotorTypes, Centimetres, ExtRecord
<1>2. /\ y.open = x.open \ S /\ y.seen = x.seen \cup S
      /\ y.weak = x.weak /\ y.obst = x.obst /\ y.endp = x.endp /\ y.iter = x.iter
      /\ y.base = x.base /\ y.plan = x.plan
  BY DEF WithSeal, ExtRecord
<1>3. y \in ExtRecord
  BY <1>1 DEF WithSeal, ExtRecord
<1>4. ExtOK(x) => ExtOK(y)
  <2> HIDE DEF y
  <2> QED
    BY <1>2, <1>3 DEF ExtOK
<1>5. \A G : Accounts(x, G) => Accounts(y, G)
  <2> HIDE DEF y
  <2> QED
    BY <1>2 DEF Accounts
<1> HIDE DEF y
<1>6. y \in ExtRecord /\ Finishes(x, y) /\ y.open = x.open \ S
  BY <1>2, <1>3, <1>4, <1>5 DEF Finishes
<1> QED
  BY <1>6 DEF y

LEMMA WithWeakFinishes ==
  ASSUME NEW x \in ExtRecord, NEW W \in SUBSET Cup
  PROVE  /\ WithWeak(x, W) \in ExtRecord /\ Finishes(x, WithWeak(x, W))
         /\ WithWeak(x, W).open = x.open \ W
<1> DEFINE y == WithWeak(x, W)
<1>1. /\ y.open = x.open \ W /\ y.weak = x.weak \cup W /\ y.seen = x.seen
      /\ y.obst = x.obst /\ y.endp = x.endp /\ y.iter = x.iter
      /\ y.base = x.base /\ y.plan = x.plan
  BY DEF WithWeak, ExtRecord
<1>2. y \in ExtRecord
  BY DEF WithWeak, ExtRecord
<1> HIDE DEF y
<1>3. ExtOK(x) => ExtOK(y)
  BY <1>1, <1>2 DEF ExtOK
<1>4. \A G : Accounts(x, G) => Accounts(y, G)
  BY <1>1 DEF Accounts
<1>5. y \in ExtRecord /\ Finishes(x, y) /\ y.open = x.open \ W
  BY <1>1, <1>2, <1>3, <1>4 DEF Finishes
<1> QED
  BY <1>5 DEF y

LEMMA FinishesTwice ==
  ASSUME NEW x, NEW y, NEW z, Finishes(x, y), Finishes(y, z)
  PROVE  Finishes(x, z)
<1> QED
  BY DEF Finishes

\* Cups S have sealed; then F are frozen, and R of them sealed
LEMMA FrozenOnce ==
  ASSUME MotorTypes, NEW x \in ExtRecord, NEW S \in SUBSET Cup,
         NEW F \in SUBSET Cup, NEW R \in SUBSET F
  PROVE  LET y == WithWeak(WithSeal(WithSeal(x, S), R), F \ R) IN
         /\ y \in ExtRecord /\ Finishes(x, y)
<1> DEFINE y1 == WithSeal(x, S)
           y2 == WithSeal(y1, R)
           y3 == WithWeak(y2, F \ R)
<1>1. y1 \in ExtRecord /\ Finishes(x, y1)
  BY WithSealFinishes
<1>2. y2 \in ExtRecord /\ Finishes(y1, y2)
  <2> HIDE DEF y1
  <2> QED
    BY <1>1, WithSealFinishes
<1>3. y3 \in ExtRecord /\ Finishes(y2, y3)
  <2> HIDE DEF y2
  <2> QED
    BY <1>2, WithWeakFinishes
<1> HIDE DEF y1, y2, y3
<1>4. Finishes(x, y3)
  BY <1>1, <1>2, <1>3, FinishesTwice
<1> QED
  BY <1>3, <1>4 DEF y1, y2, y3

\* The next pass
LEMMA PassOK ==
  ASSUME NEW x, ExtOK(x), x.iter < MaxIters
  PROVE  LET y == [x EXCEPT !.iter = @ + 1] IN
         ExtOK(y) /\ y.obst = x.obst /\ y.open = x.open /\ \A G : Accounts(x, G) => Accounts(y, G)
<1> DEFINE y == [x EXCEPT !.iter = @ + 1]
<1>1. x \in ExtRecord
  BY DEF ExtOK
<1>2. x.iter + 1 \in 0..MaxIters
  BY <1>1, Lengths DEF ExtRecord
<1>3. y \in ExtRecord
  BY <1>1, <1>2 DEF ExtRecord
<1>4. /\ y.open = x.open /\ y.weak = x.weak /\ y.obst = x.obst /\ y.seen = x.seen
      /\ y.base = x.base /\ y.plan = x.plan
  BY <1>1 DEF ExtRecord
<1> HIDE DEF y
<1>5. ExtOK(y)
  BY <1>3, <1>4 DEF ExtOK
<1>6. y.obst = x.obst /\ y.open = x.open /\ \A G : Accounts(x, G) => Accounts(y, G)
  BY <1>4 DEF Accounts
<1> QED
  BY <1>5, <1>6 DEF y

\* Frozen cups are cups of the extension
LEMMA ToFreezeOpen ==
  ASSUME NEW t, NEW x \in ExtRecord
  PROVE  ToFreeze(t, x) \subseteq x.open /\ ToFreeze(t, x) \in SUBSET Cup
<1> QED
  BY DEF ToFreeze, ExtRecord

-----------------------------------------------------------------------------
(* Extensions, step by step.                                               *)

\* A step of an extension that keeps the bus
LEMMA ExtendStep ==
  ASSUME PushInv, NEW t \in Caller, place[t] \in OnBus, ~InRetract(t),
         NEW l \in Extending, Goes(t, l), UNCHANGED <<bus, call, valve, realigned>>,
         MotorTypes', SealTypes', Power',
         ExtOK(ext'), ExtAt(l, ext', Cups(t))
  PROVE  PushInv'
<1>1. l \in OnBus
  BY PlaceKinds
<1>2. /\ CallTypes' /\ Owner' /\ RealignPlaces'
      /\ OthersStay(t) /\ place'[t] = l
  BY <1>1, Onward DEF PushInv
<1>3. Extension'
  BY <1>2, ExtensionMoves DEF PushInv
<1>4. ValveTypes' /\ Valve'
  BY <1>1, ValveBeside
<1>5. place'[t] \notin HomePlaces
  BY <1>2 DEF HomePlaces, Extending
<1>6. Homing'
  BY <1>2, <1>5, HomingElsewhere DEF PushInv
<1> QED
  BY <1>2, <1>3, <1>4, <1>6 DEF PushInv

\* Power stays where it is
LEMMA ExtendPlain ==
  ASSUME PushInv, NEW t \in Caller, place[t] \in OnBus \ {"x_look", "x_seal"}, ~InRetract(t),
         NEW l \in Extending, Goes(t, l),
         UNCHANGED <<bus, call, valve, enabled, lastSeal, history>>,
         MotorTypes', ExtOK(ext'), ExtAt(l, ext', Cups(t))
  PROVE  PushInv'
<1>1. UNCHANGED <<unheard, realigned>>
  BY DEF history
<1>2. Power'
  BY <1>1, PowerKept DEF PushInv
<1>3. SealTypes'
  BY <1>1 DEF PushInv, SealTypes
<1> QED
  BY <1>1, <1>2, <1>3, ExtendStep

\* Where t is within an extension
LEMMA Within ==
  ASSUME PushInv, NEW t \in Caller, place[t] \in Extending
  PROVE  /\ place[t] \in OnBus /\ ~InRetract(t) /\ bus = t
         /\ ExtOK(ext) /\ ext \in ExtRecord /\ ExtAt(place[t], ext, Cups(t))
         /\ Cups(t) \in SUBSET Cup
<1>1. place[t] \in OnBus /\ ~InRetract(t)
  BY PlaceKinds
<1>2. ExtOK(ext) /\ ExtAt(place[t], ext, Cups(t)) /\ ext \in ExtRecord
  BY DEF PushInv, Extension, ExtOK
<1>3. Cups(t) \in SUBSET Cup
  BY DEF PushInv, CallTypes, Cups
<1> QED
  BY <1>1, <1>2, <1>3, Alone DEF PushInv

LEMMA ExtendSendStep ==
  ASSUME PushInv, NEW t \in Caller, ExtendSend(t)
  PROVE  PushInv'
<1>1. /\ place[t] = "x_send"
      /\ UNCHANGED <<pos, enabled, stall, deaf, valve, bus, call, lastSeal, history>>
  BY DEF ExtendSend
<1>2. Base \in Centimetres /\ \A c \in Cup : Base[c] <= Preset + OverCap
  BY BaseOK DEF PushInv, SealTypes
<1>3. Cups(t) \in SUBSET Cup
  BY DEF PushInv, CallTypes, Cups
<1>4. place[t] \in OnBus \ Extending /\ "exit" \in OnBus \ Extending /\ ~InRetract(t)
  BY <1>1 DEF OnBus, Extending, InRetract
<1>5. CASE HalfSent(t, Base) /\ Goes(t, "exit") /\ UNCHANGED <<goal, ext>>
  <2>1. MotorTypes'
    BY <1>1, <1>2, <1>5, HalfSentOK DEF PushInv, MotorTypes
  <2>2. ValveTypes' /\ Valve'
    BY <1>1, <1>4, <1>5, ValveBeside
  <2>3. \A c : HomeAt("exit", queue'[c], goal'[c], pos'[c])
    BY DEF HomeAt
  <2> QED
    BY <1>1, <1>4, <1>5, <2>1, <2>2, <2>3, BusStep
<1>6. CASE /\ \E lost \in SUBSET Cups(t) : Broadcast(Queued(Cups(t), Base), lost)
           /\ ext' = [ext EXCEPT !.open = Cups(t), !.base = Base, !.plan = Base]
           /\ Goes(t, "x_wait")
  <2>1. goal' \in [Cup -> 0..Rest] /\ queue' \in [Cup -> 0..Rest]
    BY <1>2, <1>3, <1>6, SentOK
  <2>2. MotorTypes'
    BY <1>1, <2>1 DEF PushInv, MotorTypes
  <2>3. ext = NoExt
    BY <1>4, NothingExtended DEF PushInv
  <2>4. ext \in ExtRecord
    BY DEF PushInv, Extension, ExtOK
  <2>5. /\ ext'.open = Cups(t) /\ ext'.weak = {} /\ ext'.obst = {}
        /\ ext'.base = Base /\ ext'.plan = Base
    BY <1>6, <2>3 DEF NoExt
  <2>6. ext' \in ExtRecord
    BY <1>2, <1>3, <1>6, <2>4 DEF ExtRecord
  <2>7. ExtOK(ext')
    <3>1. \A c \in Cup : Base[c] <= Base[c] + MaxOver
      BY <1>2, Lengths DEF Centimetres
    <3> QED
      BY <1>2, <2>5, <2>6, <3>1 DEF ExtOK
  <2>8. ExtAt("x_wait", ext', Cups(t))
    BY <2>5 DEF ExtAt, Accounts
  <2>9. "x_wait" \in Extending /\ place[t] \notin {"x_look", "x_seal"}
    BY <1>1 DEF Extending
  <2> QED
    BY <1>1, <1>4, <1>6, <2>2, <2>7, <2>8, <2>9, ExtendPlain
<1> QED
  BY <1>5, <1>6 DEF ExtendSend

LEMMA ExtendWaitStep ==
  ASSUME PushInv, NEW t \in Caller, ExtendWait(t)
  PROVE  PushInv'
<1>1. /\ place[t] = "x_wait" /\ stall' \subseteq stall /\ Goes(t, "x_look")
      /\ UNCHANGED <<pos, goal, queue, enabled, deaf, valve, bus, call, lastSeal, history>>
  BY DEF ExtendWait
<1>2. PICK E \in SUBSET {c \in Cup : TRUE} : ext' = [ext EXCEPT !.endp = E]
  <2>1. Cups(t) \subseteq Cup
    BY DEF PushInv, CallTypes, Cups
  <2> QED
    BY <2>1 DEF ExtendWait
<1>3. place[t] \in Extending /\ "x_look" \in Extending /\ place[t] \notin {"x_look", "x_seal"}
  BY <1>1 DEF Extending
<1>4. /\ place[t] \in OnBus /\ ~InRetract(t)
      /\ ExtOK(ext) /\ ext \in ExtRecord /\ ExtAt(place[t], ext, Cups(t))
  BY <1>3, Within
<1>5. MotorTypes'
  BY <1>1 DEF PushInv, MotorTypes
<1>6. /\ ext' \in ExtRecord
      /\ ext'.open = ext.open /\ ext'.weak = ext.weak /\ ext'.obst = ext.obst
      /\ ext'.seen = ext.seen /\ ext'.base = ext.base /\ ext'.plan = ext.plan
  BY <1>2, <1>4 DEF ExtRecord
<1>7. ExtOK(ext')
  BY <1>4, <1>6 DEF ExtOK
<1>8. ExtAt("x_look", ext', Cups(t))
  BY <1>1, <1>4, <1>6 DEF ExtAt, Accounts, Extending
<1> QED
  BY <1>1, <1>3, <1>4, <1>5, <1>7, <1>8, ExtendPlain

\* Drivers of S are enabled; who was off and is not heard of is in S
LEMMA EnableEffect ==
  ASSUME PushInv, NEW S \in SUBSET Cup, Enable(S)
  PROVE  /\ enabled' \in SUBSET Cup /\ unheard' \in SUBSET Cup /\ UNCHANGED realigned
         /\ \A c \in Cup \ enabled' : c \notin enabled /\ (c \in unheard \cup S => c \in unheard')
<1> QED
  BY DEF PushInv, MotorTypes, SealTypes, Enable

LEMMA ExtendLookStep ==
  ASSUME PushInv, NEW t \in Caller, ExtendLook(t)
  PROVE  PushInv'
<1>1. /\ place[t] = "x_look" /\ Enable(ext.open) /\ stall' \subseteq stall
      /\ Goes(t, IF LastLook(ext') THEN "x_end" ELSE "x_push")
      /\ UNCHANGED <<pos, goal, queue, deaf, valve, bus, call, lastSeal>>
  BY DEF ExtendLook
<1>2. place[t] \in Extending /\ {"x_end", "x_push"} \subseteq Extending
  BY <1>1 DEF Extending
<1>3. /\ place[t] \in OnBus /\ ~InRetract(t)
      /\ ExtOK(ext) /\ ext \in ExtRecord /\ ExtAt(place[t], ext, Cups(t))
  BY <1>2, Within
<1>4. ext.open \in SUBSET Cup
  BY <1>3 DEF ExtRecord
<1>5. PICK S \in SUBSET Touching(ext.open) : Freeze(t, WithSeal(ext, S))
  BY DEF ExtendLook
<1> DEFINE F == ToFreeze(t, WithSeal(ext, S))
<1>6. PICK R \in SUBSET Touching(F) : ext' = WithWeak(WithSeal(WithSeal(ext, S), R), F \ R)
  BY <1>5 DEF Freeze
<1>7. S \in SUBSET Cup
  BY <1>4 DEF Touching
<1>8. WithSeal(ext, S) \in ExtRecord
  BY <1>3, <1>7, WithSealFinishes DEF PushInv
<1>9. F \in SUBSET Cup /\ R \in SUBSET F
  BY <1>8, ToFreezeOpen DEF Touching
<1>10. ext' \in ExtRecord /\ Finishes(ext, ext')
  <2> HIDE DEF F
  <2> QED
    BY <1>3, <1>6, <1>7, <1>9, FrozenOnce DEF PushInv
<1>11. ExtOK(ext') /\ Accounts(ext', Cups(t)) /\ ext'.obst = {}
  BY <1>1, <1>2, <1>3, <1>10 DEF Finishes, ExtAt
<1>12. ~LastLook(ext') => ext'.iter < MaxIters
  BY <1>10, Lengths DEF LastLook, ExtRecord
<1>13. \A l \in {"x_end", "x_push"} : (l = "x_push" => ~LastLook(ext')) => ExtAt(l, ext', Cups(t))
  BY <1>11, <1>12 DEF ExtAt
<1>14. /\ enabled' \in SUBSET Cup /\ unheard' \in SUBSET Cup /\ UNCHANGED realigned
       /\ \A c \in Cup \ enabled' : c \notin enabled /\ (c \in unheard \cup ext.open => c \in unheard')
  BY <1>1, <1>4, EnableEffect
<1>15. Power'
  BY <1>14 DEF PushInv, Power
<1>16. MotorTypes' /\ SealTypes'
  BY <1>1, <1>14 DEF PushInv, MotorTypes, SealTypes
<1>17. CASE LastLook(ext')
  <2>1. Goes(t, "x_end") /\ ExtAt("x_end", ext', Cups(t))
    BY <1>1, <1>13, <1>17
  <2> QED
    BY <1>1, <1>2, <1>3, <1>11, <1>14, <1>15, <1>16, <2>1, ExtendStep
<1>18. CASE ~LastLook(ext')
  <2>1. Goes(t, "x_push") /\ ExtAt("x_push", ext', Cups(t))
    BY <1>1, <1>13, <1>18
  <2> QED
    BY <1>1, <1>2, <1>3, <1>11, <1>14, <1>15, <1>16, <2>1, ExtendStep
<1> QED
  BY <1>17, <1>18

\* The plan of a push
LEMMA PlannedOK ==
  ASSUME ExtOK(ext)
  PROVE  Planned \in Centimetres /\ \A c \in Cup : Planned[c] <= ext.base[c] + MaxOver
<1>1. ASSUME NEW c \in Cup
      PROVE  LET n == IF c \in Pushed THEN ext.plan[c] + 1 ELSE ext.plan[c] IN
             n \in 0..Stroke /\ n <= ext.base[c] + MaxOver
  <2>1. /\ ext.plan[c] \in 0..Stroke /\ ext.base[c] \in 0..Stroke
        /\ ext.base[c] <= Preset + OverCap /\ ext.plan[c] <= ext.base[c] + MaxOver
    BY DEF ExtOK, ExtRecord, Centimetres
  <2>2. CASE c \in Pushed
    <3>1. ~(ext.plan[c] - ext.base[c] >= MaxOver)
      BY <2>2 DEF Pushed, Spent
    <3> QED
      BY <2>1, <2>2, <3>1, Lengths
  <2>3. CASE c \notin Pushed
    BY <2>1, <2>3
  <2> QED
    BY <2>2, <2>3
<1> QED
  BY <1>1 DEF Planned, Centimetres

LEMMA ExtendPushStep ==
  ASSUME PushInv, NEW t \in Caller, ExtendPush(t)
  PROVE  PushInv'
<1> DEFINE y == WithWeak(ext, Spent \cup Refused)
           x == [y EXCEPT !.plan = Planned]
<1>1. /\ place[t] = "x_push"
      /\ UNCHANGED <<pos, enabled, stall, deaf, valve, bus, call, lastSeal, history>>
  BY DEF ExtendPush
<1>2. /\ place[t] \in Extending /\ {"x_look", "x_pushed"} \subseteq Extending
      /\ place[t] \notin {"x_look", "x_seal"}
  BY <1>1 DEF Extending
<1>3. /\ place[t] \in OnBus /\ ~InRetract(t)
      /\ ExtOK(ext) /\ ext \in ExtRecord /\ ExtAt(place[t], ext, Cups(t))
  BY <1>2, Within
<1>4. /\ Spent \cup Refused \in SUBSET Cup /\ Pushed \in SUBSET Cup
      /\ Planned \in Centimetres /\ \A c \in Cup : Planned[c] <= ext.base[c] + MaxOver
  <2>1. Pushable \subseteq Cup
    BY <1>3 DEF Pushable, ExtRecord
  <2> QED
    BY <1>3, <2>1, PlannedOK DEF Spent, Refused, Pushed
<1>5. y \in ExtRecord /\ Finishes(ext, y)
  BY <1>3, <1>4, WithWeakFinishes
<1>6. /\ x \in ExtRecord /\ x.iter = y.iter /\ x.obst = y.obst /\ x.open = y.open
      /\ x.weak = y.weak /\ x.seen = y.seen /\ x.base = y.base /\ x.plan = Planned
  <2> HIDE DEF y
  <2> QED
    BY <1>4, <1>5 DEF ExtRecord
<1>7. ExtOK(x) /\ Accounts(x, Cups(t)) /\ x.obst = {} /\ x.iter < MaxIters
  <2>1. ExtOK(y) /\ y.base = ext.base /\ Accounts(y, Cups(t)) /\ y.obst = {} /\ y.iter < MaxIters
    <3> HIDE DEF y
    <3> QED
      BY <1>1, <1>2, <1>3, <1>5 DEF Finishes, ExtAt
  <2> HIDE DEF x, y
  <2> QED
    BY <1>4, <1>6, <2>1 DEF ExtOK, Accounts
<1>8. CASE NextIter(t, x) /\ UNCHANGED <<goal, queue>>
  <2>1. ext' = [x EXCEPT !.iter = @ + 1] /\ Goes(t, "x_look")
    BY <1>8 DEF NextIter
  <2>2. ExtOK(ext') /\ ext'.obst = {} /\ Accounts(ext', Cups(t))
    <3> HIDE DEF x
    <3> QED
      BY <1>7, <2>1, PassOK
  <2>3. ExtAt("x_look", ext', Cups(t))
    BY <2>2 DEF ExtAt
  <2>4. MotorTypes'
    BY <1>1, <1>8 DEF PushInv, MotorTypes
  <2> QED
    BY <1>1, <1>2, <1>3, <2>1, <2>2, <2>3, <2>4, ExtendPlain
<1>9. CASE /\ ext' = x
           /\ \E lost \in SUBSET Pushed : Broadcast(Queued(Pushed, Planned), lost)
           /\ Goes(t, "x_pushed")
  <2>1. goal' \in [Cup -> 0..Rest] /\ queue' \in [Cup -> 0..Rest]
    BY <1>4, <1>9, SentOK
  <2>2. MotorTypes'
    BY <1>1, <2>1 DEF PushInv, MotorTypes
  <2>3. ExtOK(ext') /\ ExtAt("x_pushed", ext', Cups(t))
    <3> HIDE DEF x
    <3> QED
      BY <1>7, <1>9 DEF ExtAt
  <2> QED
    BY <1>1, <1>2, <1>3, <1>9, <2>2, <2>3, ExtendPlain
<1> QED
  BY <1>8, <1>9 DEF ExtendPush

LEMMA ExtendPushedStep ==
  ASSUME PushInv, NEW t \in Caller, ExtendPushed(t)
  PROVE  PushInv'
<1>1. /\ place[t] = "x_pushed" /\ UNCHANGED enabled
      /\ MeetsObstacle(t) \/ AtWall(t)
      /\ UNCHANGED <<queue, deaf, valve, bus, call, lastSeal, history>>
  BY DEF ExtendPushed, MeetsObstacle
<1>2. PICK far \in BOOLEAN : Halt(ext.open \ deaf, far)
  BY DEF ExtendPushed
<1>3. /\ place[t] \in Extending /\ {"x_end", "x_free"} \subseteq Extending
      /\ place[t] \notin {"x_look", "x_seal"}
  BY <1>1 DEF Extending
<1>4. /\ place[t] \in OnBus /\ ~InRetract(t)
      /\ ExtOK(ext) /\ ext \in ExtRecord /\ ExtAt(place[t], ext, Cups(t))
  BY <1>3, Within
<1>5. pos' \in Centimetres /\ goal' \in [Cup -> 0..Rest]
  BY <1>2, HaltEffect DEF PushInv
<1>6. stall' \subseteq stall
  BY DEF ExtendPushed, MeetsObstacle, AtWall
<1>7. MotorTypes'
  BY <1>1, <1>5, <1>6 DEF PushInv, MotorTypes
<1>8. Pushable \subseteq Cup /\ ext.obst = {} /\ Accounts(ext, Cups(t)) /\ ext.iter < MaxIters
  BY <1>1, <1>3, <1>4 DEF Pushable, ExtRecord, ExtAt
<1>9. CASE MeetsObstacle(t)
  <2>1. PICK o \in Touching(Pushable) \ deaf :
          /\ ext' = [ext EXCEPT !.open = @ \ {o}, !.obst = {o}, !.fin[o] = pos'[o]]
          /\ Goes(t, "x_end")
    BY <1>9 DEF MeetsObstacle
  <2>2. o \in Cup
    BY <1>8 DEF Touching
  <2>3. [ext.fin EXCEPT ![o] = pos'[o]] \in Centimetres
    BY <1>4, <1>5, <2>2 DEF ExtRecord, Centimetres
  <2>4. /\ ext' \in ExtRecord
        /\ ext'.open = ext.open \ {o} /\ ext'.obst = {o} /\ ext'.weak = ext.weak
        /\ ext'.seen = ext.seen /\ ext'.base = ext.base /\ ext'.plan = ext.plan
    BY <1>4, <2>1, <2>2, <2>3 DEF ExtRecord
  <2>5. ExtOK(ext') /\ ExtAt("x_end", ext', Cups(t))
    BY <1>4, <1>8, <2>4 DEF ExtOK, ExtAt, Accounts
  <2> QED
    BY <1>1, <1>3, <1>4, <1>7, <2>1, <2>5, ExtendPlain
<1>10. CASE AtWall(t)
  <2>1. PICK E \in SUBSET (Touching(Pushable) \ deaf) :
          ext' = [ext EXCEPT !.endp = @ \cup E] /\ Goes(t, "x_free")
    BY <1>10 DEF AtWall
  <2>2. E \subseteq Cup
    BY <1>8 DEF Touching
  <2>3. /\ ext' \in ExtRecord /\ ext'.iter = ext.iter
        /\ ext'.open = ext.open /\ ext'.obst = ext.obst /\ ext'.weak = ext.weak
        /\ ext'.seen = ext.seen /\ ext'.base = ext.base /\ ext'.plan = ext.plan
    BY <1>4, <2>1, <2>2 DEF ExtRecord
  <2>4. ExtOK(ext') /\ ExtAt("x_free", ext', Cups(t))
    BY <1>4, <1>8, <2>3 DEF ExtOK, ExtAt, Accounts
  <2> QED
    BY <1>1, <1>3, <1>4, <1>7, <2>1, <2>4, ExtendPlain
<1> QED
  BY <1>1, <1>9, <1>10

LEMMA ExtendFreeStep ==
  ASSUME PushInv, NEW t \in Caller, ExtendFree(t)
  PROVE  PushInv'
<1>1. /\ place[t] = "x_free" /\ enabled' = enabled \ (ext.open \ deaf)
      /\ NextIter(t, ext) \/ (Goes(t, "x_seal") /\ UNCHANGED ext)
      /\ UNCHANGED <<pos, goal, queue, stall, deaf, valve, bus, call, lastSeal, history>>
  BY DEF ExtendFree
<1>2. UNCHANGED <<unheard, realigned>>
  BY <1>1 DEF history
<1>3. /\ place[t] \in Extending /\ {"x_look", "x_seal"} \subseteq Extending
      /\ place[t] \notin {"x_look", "x_seal"}
  BY <1>1 DEF Extending
<1>4. /\ place[t] \in OnBus /\ ~InRetract(t)
      /\ ExtOK(ext) /\ ext \in ExtRecord /\ ExtAt(place[t], ext, Cups(t))
  BY <1>3, Within
<1>5. ext.obst = {} /\ Accounts(ext, Cups(t)) /\ ext.iter < MaxIters
  BY <1>1, <1>3, <1>4 DEF ExtAt
<1>6. MotorTypes' /\ SealTypes'
  BY <1>1, <1>2 DEF PushInv, MotorTypes, SealTypes
<1>7. PICK l \in {"x_look", "x_seal"} :
        /\ Goes(t, l) /\ ExtOK(ext') /\ ext'.open = ext.open /\ ExtAt(l, ext', Cups(t))
  <2>1. CASE NextIter(t, ext)
    <3>1. ext' = [ext EXCEPT !.iter = @ + 1] /\ Goes(t, "x_look")
      BY <2>1 DEF NextIter
    <3>2. ExtOK(ext') /\ ext'.obst = {} /\ ext'.open = ext.open /\ Accounts(ext', Cups(t))
      BY <1>4, <1>5, <3>1, PassOK
    <3> QED
      BY <3>1, <3>2 DEF ExtAt
  <2>2. CASE Goes(t, "x_seal") /\ UNCHANGED ext
    BY <1>4, <1>5, <2>2 DEF ExtAt
  <2> QED
    BY <1>1, <2>1, <2>2
<1>8. place'[t] = l
  BY <1>1, <1>3, <1>4, <1>7, Onward, PlaceKinds DEF PushInv
<1>9. Power'
  <2>1. \A c \in Cup \ enabled : c \in unheard
    BY <1>3, <1>4, PowerHeard DEF PushInv
  <2> QED
    BY <1>1, <1>2, <1>7, <1>8, <2>1 DEF Power
<1> QED
  BY <1>1, <1>2, <1>3, <1>4, <1>6, <1>7, <1>9, ExtendStep

LEMMA ExtendSealStep ==
  ASSUME PushInv, NEW t \in Caller, ExtendSeal(t)
  PROVE  PushInv'
<1>1. /\ place[t] = "x_seal"
      /\ UNCHANGED <<pos, goal, queue, stall, deaf, valve, bus, call, lastSeal>>
  BY DEF ExtendSeal
<1>2. place[t] \in Extending /\ "x_look" \in Extending
  BY <1>1 DEF Extending
<1>3. /\ place[t] \in OnBus /\ ~InRetract(t)
      /\ ExtOK(ext) /\ ext \in ExtRecord /\ ExtAt(place[t], ext, Cups(t))
  BY <1>2, Within
<1>4. ext.obst = {} /\ Accounts(ext, Cups(t)) /\ ext.iter < MaxIters
  BY <1>1, <1>2, <1>3 DEF ExtAt
<1>5. ext.open \in SUBSET Cup
  BY <1>3 DEF ExtRecord
<1>6. PICK S \in SUBSET Touching(ext.open), W \in SUBSET ext.endp :
        LET x == WithWeak(WithSeal(ext, S), (W \cap ext.open) \ S)
            F == ToFreeze(t, x)
        IN \E R \in SUBSET Touching(F) :
             /\ NextIter(t, WithWeak(WithSeal(x, R), F \ R))
             /\ Enable(Finished(S, W \cap ext.open, F))
  BY DEF ExtendSeal
<1> DEFINE V == (W \cap ext.open) \ S
           x == WithWeak(WithSeal(ext, S), V)
           F == ToFreeze(t, x)
<1>7. PICK R \in SUBSET Touching(F) :
        /\ NextIter(t, WithWeak(WithSeal(x, R), F \ R))
        /\ Enable(Finished(S, W \cap ext.open, F))
  BY <1>6
<1>8. S \in SUBSET Cup /\ V \in SUBSET Cup
  BY <1>5 DEF Touching
<1>9. x \in ExtRecord /\ Finishes(ext, x) /\ x.open = ext.open \ (S \cup V)
  <2> DEFINE y == WithSeal(ext, S)
  <2>1. y \in ExtRecord /\ Finishes(ext, y) /\ y.open = ext.open \ S
    BY <1>3, <1>8, WithSealFinishes DEF PushInv
  <2> HIDE DEF y, V
  <2>2. WithWeak(y, V) \in ExtRecord /\ Finishes(y, WithWeak(y, V)) /\ WithWeak(y, V).open = y.open \ V
    BY <1>8, <2>1, WithWeakFinishes
  <2>3. Finishes(ext, WithWeak(y, V)) /\ WithWeak(y, V).open = ext.open \ (S \cup V)
    BY <2>1, <2>2, FinishesTwice
  <2> QED
    BY <2>2, <2>3 DEF y
<1>10. F \in SUBSET Cup /\ R \in SUBSET F
  <2> HIDE DEF x
  <2> QED
    BY <1>9, ToFreezeOpen DEF Touching
<1> DEFINE z == WithWeak(WithSeal(x, R), F \ R)
<1>11. z \in ExtRecord /\ Finishes(ext, z) /\ z.open = ext.open \ (S \cup V \cup F)
  <2> DEFINE y == WithSeal(x, R)
  <2> HIDE DEF F, x, V
  <2>1. y \in ExtRecord /\ Finishes(x, y) /\ y.open = x.open \ R
    BY <1>9, <1>10, WithSealFinishes DEF PushInv
  <2> HIDE DEF y
  <2>2. WithWeak(y, F \ R) \in ExtRecord /\ Finishes(y, WithWeak(y, F \ R))
        /\ WithWeak(y, F \ R).open = y.open \ (F \ R)
    BY <1>10, <2>1, WithWeakFinishes
  <2>3. Finishes(ext, WithWeak(y, F \ R))
    BY <1>9, <2>1, <2>2, FinishesTwice
  <2>4. WithWeak(y, F \ R).open = ext.open \ (S \cup V \cup F)
    BY <1>9, <1>10, <2>1, <2>2
  <2> QED
    BY <2>2, <2>3, <2>4 DEF y
<1>12. ext' = [z EXCEPT !.iter = @ + 1] /\ Goes(t, "x_look")
  BY <1>7 DEF NextIter
<1>13. Enable(Finished(S, W \cap ext.open, F))
  BY <1>7
<1>14. ExtOK(z) /\ z.iter < MaxIters /\ z.obst = {} /\ Accounts(z, Cups(t))
  <2> HIDE DEF z
  <2> QED
    BY <1>3, <1>4, <1>11 DEF Finishes
<1>15. ExtOK(ext') /\ ext'.open = z.open /\ ExtAt("x_look", ext', Cups(t))
  <2>1. ExtOK(ext') /\ ext'.obst = z.obst /\ ext'.open = z.open /\ Accounts(ext', Cups(t))
    <3> HIDE DEF z
    <3> QED
      BY <1>12, <1>14, PassOK
  <2> HIDE DEF z
  <2> QED
    BY <1>14, <2>1 DEF ExtAt
<1> DEFINE T == Finished(S, W \cap ext.open, F)
<1>16. T \in SUBSET Cup /\ ext.open \ T \subseteq z.open
  <2>1. T = S \cup (W \cap ext.open) \cup F
    BY DEF Finished
  <2>2. V \subseteq T
    BY <2>1
  <2> HIDE DEF F, z, V, T
  <2> QED
    BY <1>5, <1>8, <1>10, <1>11, <2>1, <2>2
<1>17. /\ enabled' \in SUBSET Cup /\ unheard' \in SUBSET Cup /\ UNCHANGED realigned
       /\ \A c \in Cup \ enabled' : c \notin enabled /\ (c \in unheard \cup T => c \in unheard')
  <2> HIDE DEF F
  <2> QED
    BY <1>13, <1>16, EnableEffect
<1>18. place'[t] = "x_look"
  BY <1>1, <1>2, <1>3, <1>12, Onward, PlaceKinds DEF PushInv
<1>19. Power'
  <2> HIDE DEF T, z
  <2> QED
    BY <1>15, <1>16, <1>17, <1>18 DEF PushInv, Power
<1>20. MotorTypes' /\ SealTypes'
  BY <1>1, <1>17 DEF PushInv, MotorTypes, SealTypes
<1> QED
  BY <1>1, <1>2, <1>3, <1>12, <1>15, <1>17, <1>19, <1>20, ExtendStep

LEMMA ExtendEndStep ==
  ASSUME PushInv, NEW t \in Caller, ExtendEnd(t)
  PROVE  PushInv'
<1>1. /\ place[t] = "x_end" /\ Enable(ext.open) /\ Goes(t, "x_settle")
      /\ UNCHANGED <<pos, goal, queue, stall, deaf, valve, bus, call>>
  BY DEF ExtendEnd
<1>2. /\ place[t] \in Extending /\ "x_settle" \in Extending
      /\ place[t] \notin {"x_look", "x_seal"}
  BY <1>1 DEF Extending
<1>3. /\ place[t] \in OnBus /\ ~InRetract(t)
      /\ ExtOK(ext) /\ ext \in ExtRecord /\ ExtAt(place[t], ext, Cups(t))
  BY <1>2, Within
<1>4. ext.open \in SUBSET Cup
  BY <1>3 DEF ExtRecord
<1>5. PICK S \in SUBSET Touching(ext.open) :
        LET x == WithWeak(WithSeal(ext, S), ext.open \ S) IN
        /\ ext' = x
        /\ lastSeal' = [c \in Cup |-> IF c \in Recorded(t, x) THEN x.fin[c] ELSE lastSeal[c]]
  BY DEF ExtendEnd
<1> DEFINE y == WithSeal(ext, S)
           x == WithWeak(y, ext.open \ S)
<1>6. S \in SUBSET Cup /\ ext.open \ S \in SUBSET Cup
  BY <1>4 DEF Touching
<1>7. y \in ExtRecord /\ Finishes(ext, y)
  BY <1>3, <1>6, WithSealFinishes DEF PushInv
<1>8. x \in ExtRecord /\ Finishes(y, x)
  <2> HIDE DEF y
  <2> QED
    BY <1>6, <1>7, WithWeakFinishes
<1>9. ext' = x /\ ExtOK(x) /\ Accounts(x, Cups(t))
  <2>1. ext' = x
    BY <1>5
  <2> HIDE DEF x, y
  <2> QED
    BY <1>1, <1>2, <1>3, <1>7, <1>8, <2>1 DEF Finishes, ExtAt
<1>10. lastSeal' \in Centimetres
  <2>1. lastSeal' = [c \in Cup |-> IF c \in Recorded(t, x) THEN x.fin[c] ELSE lastSeal[c]]
    BY <1>5
  <2> HIDE DEF x
  <2> QED
    BY <1>8, <2>1 DEF PushInv, SealTypes, ExtRecord, Centimetres
<1>11. ExtAt("x_settle", ext', Cups(t))
  <2> HIDE DEF x
  <2> QED
    BY <1>9 DEF ExtAt
<1>12. /\ enabled' \in SUBSET Cup /\ unheard' \in SUBSET Cup /\ UNCHANGED realigned
       /\ \A c \in Cup \ enabled' : c \notin enabled /\ (c \in unheard \cup ext.open => c \in unheard')
  BY <1>1, <1>4, EnableEffect
<1>13. Power'
  BY <1>12 DEF PushInv, Power
<1>14. MotorTypes' /\ SealTypes'
  BY <1>1, <1>10, <1>12 DEF PushInv, MotorTypes, SealTypes
<1>15. ExtOK(ext')
  <2> HIDE DEF x
  <2> QED
    BY <1>9
<1> QED
  BY <1>1, <1>2, <1>3, <1>11, <1>12, <1>13, <1>14, <1>15, ExtendStep

LEMMA ExtendSettleStep ==
  ASSUME PushInv, NEW t \in Caller, ExtendSettle(t)
  PROVE  PushInv'
<1>1. /\ place[t] = "x_settle" /\ bus' = NoCaller /\ ext' = NoExt /\ Goes(t, "x_clear")
      /\ UNCHANGED <<motors, deaf, valve, call, lastSeal, history>>
  BY DEF ExtendSettle
<1>2. UNCHANGED <<pos, goal, queue, enabled, stall, unheard, realigned>>
  BY <1>1 DEF motors, history
<1>3. "x_clear" \in OnBus \cup OffBus
  BY DEF OffBus
<1>4. /\ place' \in [Caller -> OnBus \cup OffBus] /\ place'[t] = "x_clear" /\ OthersStay(t)
  BY <1>1, <1>3, GoesEffect DEF PushInv, OthersStay
<1>5. /\ place[t] \in OnBus /\ place'[t] \notin Extending /\ ~InRetract(t)
      /\ place[t] \notin {"x_look", "x_seal"} /\ place'[t] \notin HomePlaces
  BY <1>1, <1>4 DEF OnBus, Extending, InRetract, HomePlaces
<1>6. CallTypes' /\ Owner' /\ RealignPlaces'
  BY <1>1, <1>4, <1>5, Leaves DEF PushInv, CallTypes
<1>7. Extension' /\ Homing' /\ Power' /\ Valve'
  BY <1>1, <1>2, <1>4, <1>5, ExtensionEnds, HomingElsewhere, PowerKept, ValveStays DEF PushInv
<1>8. MotorTypes' /\ SealTypes' /\ ValveTypes'
  BY <1>1, <1>2 DEF PushInv, MotorTypes, SealTypes, ValveTypes, valve
<1> QED
  BY <1>6, <1>7, <1>8 DEF PushInv

-----------------------------------------------------------------------------
(* Realignments, which run without zdt_bus_mtx_.                           *)

\* A step of a realign that moves pushers leaves what a retract knows of the others
LEMMA RealignStep ==
  ASSUME PushInv, NEW t \in Caller, OthersStay(t), CallTypes', Owner', RealignPlaces',
         MotorTypes', SealTypes', UNCHANGED <<enabled, valve, ext, unheard>>,
         place[t] \in {"a_send", "a_wait"}, place'[t] \in {"idle", "a_wait", "a_read"},
         realigned \subseteq realigned',
         \A c \in Cup \ realigned' :
           /\ queue'[c] \in {queue[c], Rest} /\ goal'[c] \in {goal[c], queue[c], Rest}
           /\ pos[c] = 0 /\ goal[c] \in {0, Rest} => pos'[c] = 0
  PROVE  PushInv'
<1>1. /\ place[t] \notin Extending /\ place'[t] \notin Extending
      /\ ~InRetract(t) /\ place'[t] \notin HomePlaces /\ place[t] \notin {"x_look", "x_seal"}
  BY DEF Extending, InRetract, HomePlaces
<1>2. Extension' /\ Power' /\ Valve'
  BY <1>1, ExtensionStays, PowerStays, ValveStays DEF PushInv
<1>3. ASSUME NEW u \in Caller, NEW c \in call'[u].cups \ realigned'
      PROVE  HomeAt(place'[u], queue'[c], goal'[c], pos'[c])
  <2>1. CASE u = t
    BY <1>1, <2>1 DEF HomeAt, HomePlaces
  <2>2. CASE u # t
    <3>1. place'[u] = place[u] /\ call'[u] = call[u]
      BY <2>2 DEF OthersStay
    <3>2. c \in Cups(u) \ realigned /\ c \in Cup
      BY <3>1 DEF PushInv, CallTypes, Cups
    <3>3. HomeAt(place[u], queue[c], goal[c], pos[c])
      BY <3>2 DEF PushInv, Homing
    <3> QED
      BY <3>1, <3>2, <3>3 DEF HomeAt
  <2> QED
    BY <2>1, <2>2
<1>4. Homing'
  BY <1>3 DEF Homing, Cups
<1>5. ValveTypes'
  BY DEF PushInv, ValveTypes, valve
<1> QED
  BY <1>2, <1>4, <1>5 DEF PushInv

LEMMA RecordAllOK ==
  ASSUME PushInv, RecordAll
  PROVE  lastSeal' \in Centimetres
<1> QED
  BY DEF PushInv, MotorTypes, SealTypes, RecordAll, Centimetres

LEMMA RealignLookStep ==
  ASSUME PushInv, NEW t \in Caller, RealignLook(t)
  PROVE  PushInv'
<1>1. /\ place[t] = "want" /\ call[t].op = "realign" /\ stall' \subseteq stall
      /\ UNCHANGED <<pos, goal, queue, enabled, deaf, valve, bus, ext, history>>
  BY DEF RealignLook, ClearStalls
<1>2. lastSeal' \in Centimetres
  BY RecordAllOK DEF RealignLook, PushInv, SealTypes
<1>3. SealTypes'
  BY <1>1, <1>2 DEF PushInv, SealTypes, history
<1>4. /\ place' \in [Caller -> OnBus \cup OffBus]
      /\ call' \in [Caller -> [op : Ops, cups : SUBSET Cup, to : {0, Preset}]]
      /\ OthersStay(t) /\ place'[t] \in {"idle", "a_send"}
      /\ place'[t] = "a_send" => call'[t].op = "realign"
  <2>1. CASE Return(t)
    BY <2>1, ReturnEffect DEF PushInv, OthersStay
  <2>2. CASE Goes(t, "a_send") /\ UNCHANGED call
    <3>1. "a_send" \in OnBus \cup OffBus
      BY DEF OffBus
    <3> QED
      BY <1>1, <2>2, <3>1, GoesEffect DEF PushInv, CallTypes, OthersStay
  <2> QED
    BY <2>1, <2>2 DEF RealignLook
<1>5. /\ place[t] \in OffBus /\ place'[t] \in OffBus
      /\ place[t] \notin Extending /\ place'[t] \notin Extending
      /\ ~InRetract(t) /\ place'[t] \notin HomePlaces
      /\ place'[t] \in {"a_send", "a_wait", "a_read"} => place'[t] = "a_send"
  BY <1>1, <1>4 DEF OffBus, Extending, InRetract, HomePlaces
<1>6. CallTypes' /\ Owner' /\ RealignPlaces'
  BY <1>1, <1>4, <1>5, Offside DEF PushInv
<1> QED
  BY <1>1, <1>3, <1>4, <1>5, <1>6, PlainStep

LEMMA RealignSendStep ==
  ASSUME PushInv, NEW t \in Caller, RealignSend(t)
  PROVE  PushInv'
<1>1. /\ place[t] = "a_send" /\ realigned' = realigned \cup (Drifted \ Refuses)
      /\ stall' \subseteq stall
      /\ UNCHANGED <<pos, enabled, deaf, valve, bus, ext, lastSeal, unheard>>
  BY DEF RealignSend, ClearStalls
<1>2. Shifted \in Centimetres
  BY ShiftedOK DEF PushInv, MotorTypes, SealTypes
<1>3. Drifted \in SUBSET Cup /\ call[t].op = "realign"
  BY <1>1 DEF Drifted, PushInv, RealignPlaces
<1>4. /\ place' \in [Caller -> OnBus \cup OffBus]
      /\ call' \in [Caller -> [op : Ops, cups : SUBSET Cup, to : {0, Preset}]]
      /\ OthersStay(t) /\ place'[t] \in {"idle", "a_wait"}
      /\ place'[t] = "a_wait" => call'[t].op = "realign"
  <2>1. CASE Return(t)
    BY <2>1, ReturnEffect DEF PushInv, OthersStay
  <2>2. CASE Goes(t, "a_wait") /\ call' = [call EXCEPT ![t].cups = Drifted]
    <3>1. "a_wait" \in OnBus \cup OffBus
      BY DEF OffBus
    <3>2. /\ place' \in [Caller -> OnBus \cup OffBus] /\ place'[t] = "a_wait"
          /\ \A u \in Caller \ {t} : place'[u] = place[u]
      BY <2>2, <3>1, GoesEffect DEF PushInv
    <3>3. /\ call' \in [Caller -> [op : Ops, cups : SUBSET Cup, to : {0, Preset}]]
          /\ call'[t].op = "realign" /\ \A u \in Caller \ {t} : call'[u] = call[u]
      BY <1>3, <2>2 DEF PushInv, CallTypes
    <3> QED
      BY <3>2, <3>3 DEF OthersStay
  <2> QED
    BY <2>1, <2>2 DEF RealignSend
<1>5. /\ place[t] \in OffBus /\ place'[t] \in OffBus
      /\ place'[t] \in {"a_send", "a_wait", "a_read"} => place'[t] = "a_wait"
  BY <1>1, <1>4 DEF OffBus
<1>6. CallTypes' /\ Owner' /\ RealignPlaces'
  BY <1>1, <1>4, <1>5, Offside DEF PushInv
<1>7. /\ goal' \in [Cup -> 0..Rest] /\ queue' \in [Cup -> 0..Rest]
      /\ \A c \in Cup \ realigned' : queue'[c] \in {queue[c], Rest} /\ goal'[c] \in {goal[c], queue[c]}
  <2>1. CASE UNCHANGED <<goal, queue>>
    BY <2>1 DEF PushInv, MotorTypes
  <2>2. CASE (\E S \in SUBSET (Drifted \ Refuses) : queue' = Queued(S, Shifted)) /\ UNCHANGED goal
    <3>1. PICK S \in SUBSET (Drifted \ Refuses) : queue' = Queued(S, Shifted)
      BY <2>2
    <3>2. S \in SUBSET Cup /\ S \subseteq realigned'
      BY <1>1, <1>3, <3>1
    <3>3. queue' \in [Cup -> 0..Rest] /\ \A c \in Cup \ S : queue'[c] = queue[c]
      BY <1>2, <3>1, <3>2, QueuedOK DEF PushInv
    <3> QED
      BY <2>2, <3>2, <3>3 DEF PushInv, MotorTypes
  <2>3. CASE /\ Drifted \cap Refuses = {}
             /\ \E lost \in SUBSET Drifted : Broadcast(Queued(Drifted, Shifted), lost)
    <3>1. /\ goal' \in [Cup -> 0..Rest] /\ queue' \in [Cup -> 0..Rest]
          /\ \A c \in Cup \ Drifted : queue'[c] \in {queue[c], Rest} /\ goal'[c] \in {goal[c], queue[c]}
      BY <1>2, <1>3, <2>3, SentOK
    <3>2. Drifted \subseteq realigned'
      BY <1>1, <2>3
    <3> QED
      BY <3>1, <3>2
  <2> QED
    BY <2>1, <2>2, <2>3 DEF RealignSend
<1>8. MotorTypes' /\ SealTypes'
  BY <1>1, <1>3, <1>7 DEF PushInv, MotorTypes, SealTypes
<1> QED
  BY <1>1, <1>4, <1>6, <1>7, <1>8, RealignStep

LEMMA RealignWaitStep ==
  ASSUME PushInv, NEW t \in Caller, RealignWait(t)
  PROVE  PushInv'
<1>1. /\ place[t] = "a_wait" /\ Goes(t, "a_read") /\ stall' \subseteq stall
      /\ UNCHANGED <<queue, enabled, deaf, valve, bus, call, ext, lastSeal, history>>
  BY DEF RealignWait
<1>2. UNCHANGED <<unheard, realigned>>
  BY <1>1 DEF history
<1>3. /\ pos' \in Centimetres /\ goal' \in [Cup -> 0..Rest]
      /\ \A c \in Cup : goal'[c] \in {goal[c], Rest}
      /\ \A c \in Cup : pos[c] = 0 /\ goal[c] \in {0, Rest} => pos'[c] = 0
  <2>1. CASE UNCHANGED <<pos, goal>>
    BY <2>1 DEF PushInv, MotorTypes
  <2>2. CASE \E S \in SUBSET Cups(t), far \in BOOLEAN : Halt(S, far)
    BY <2>2, HaltEffect DEF PushInv
  <2> QED
    BY <2>1, <2>2 DEF RealignWait
<1>4. "a_read" \in OffBus /\ place[t] \in OffBus
  BY <1>1 DEF OffBus
<1>5. /\ place' \in [Caller -> OnBus \cup OffBus] /\ place'[t] = "a_read" /\ OthersStay(t)
  BY <1>1, <1>4, GoesEffect DEF PushInv, OthersStay
<1>6. call[t].op = "realign"
  BY <1>1 DEF PushInv, RealignPlaces
<1>7. CallTypes' /\ Owner' /\ RealignPlaces'
  BY <1>1, <1>4, <1>5, <1>6, Offside DEF PushInv, CallTypes
<1>8. MotorTypes' /\ SealTypes'
  BY <1>1, <1>2, <1>3 DEF PushInv, MotorTypes, SealTypes
<1> QED
  BY <1>1, <1>2, <1>3, <1>5, <1>7, <1>8, RealignStep

LEMMA RealignReadStep ==
  ASSUME PushInv, NEW t \in Caller, RealignRead(t)
  PROVE  PushInv'
<1>1. /\ place[t] = "a_read" /\ Return(t) /\ stall' \subseteq stall /\ RecordAll
      /\ UNCHANGED <<pos, goal, queue, enabled, deaf, valve, bus, ext, history>>
  BY DEF RealignRead, ClearStalls
<1>2. SealTypes'
  BY <1>1, RecordAllOK DEF PushInv, SealTypes, history
<1>3. /\ place' \in [Caller -> OnBus \cup OffBus]
      /\ call' \in [Caller -> [op : Ops, cups : SUBSET Cup, to : {0, Preset}]]
      /\ place'[t] = "idle" /\ OthersStay(t)
  BY <1>1, ReturnEffect DEF PushInv, OthersStay
<1>4. /\ place[t] \in OffBus /\ place'[t] \in OffBus
      /\ place[t] \notin Extending /\ place'[t] \notin Extending
      /\ ~InRetract(t) /\ place'[t] \notin HomePlaces
  BY <1>1, <1>3 DEF OffBus, Extending, InRetract, HomePlaces
<1>5. CallTypes' /\ Owner' /\ RealignPlaces'
  BY <1>1, <1>3, <1>4, Offside DEF PushInv
<1> QED
  BY <1>1, <1>2, <1>3, <1>4, <1>5, PlainStep

-----------------------------------------------------------------------------
(* The invariant, and what follows from it.                                *)

LEMMA PushStart == PushInit => PushInv
<1> SUFFICES ASSUME PushInit PROVE PushInv
  OBVIOUS
<1>1. PICK m \in Mixes : pos = m.start
  BY DEF PushInit
<1>2. pos \in Centimetres
  BY <1>1, MixesAssumption DEF Centimetres
<1>3. /\ goal = [c \in Cup |-> Rest] /\ queue = goal /\ enabled = Cup /\ stall = {} /\ deaf = {}
      /\ bv = FALSE /\ armed = FALSE /\ bvLost = FALSE /\ bus = NoCaller
      /\ place = [t \in Caller |-> "idle"] /\ call = [t \in Caller |-> NoCall]
      /\ ext = NoExt /\ lastSeal = [c \in Cup |-> Preset] /\ unheard = {} /\ realigned = {}
  BY DEF PushInit
<1>4. MotorTypes
  BY <1>2, <1>3, RestOff DEF MotorTypes
<1>5. CallTypes
  <2>1. "idle" \in OnBus \cup OffBus
    BY DEF OffBus
  <2> QED
    BY <1>3, <2>1, NoCallOK DEF CallTypes
<1>6. SealTypes
  <2>1. Preset \in 0..Stroke
    BY Lengths
  <2> QED
    BY <1>3, <2>1 DEF SealTypes, Centimetres
<1>7. \A t \in Caller : place[t] = "idle"
  BY <1>3
<1>8. ValveTypes /\ Valve /\ Power
  BY <1>3 DEF ValveTypes, Valve, Power
<1>9. Owner /\ RealignPlaces
  <2>1. "idle" \notin OnBus
    BY DEF OnBus
  <2> QED
    BY <1>3, <1>7, <2>1, CallerAssumption DEF Owner, RealignPlaces
<1>10. Extension
  BY <1>3, <1>7, NoExtOK DEF Extension, ExtAt, Extending
<1>11. Homing
  BY <1>7 DEF Homing, HomeAt
<1> QED
  BY <1>4, <1>5, <1>6, <1>8, <1>9, <1>10, <1>11 DEF PushInv

LEMMA PushStep == PushInv /\ [PushNext]_pushVars => PushInv'
<1> SUFFICES ASSUME PushInv, [PushNext]_pushVars PROVE PushInv'
  OBVIOUS
<1>1. ASSUME NEW t \in Caller, Works(t) PROVE PushInv'
  BY <1>1, AcquireStep, ExitStep, MoveSendStep, MoveWaitStep, RetractOpenStep, RetractSendStep,
     RetractCloseStep, RetractWaitStep, RetractVerifyStep, RetractExitStep, ExtendSendStep,
     ExtendWaitStep, ExtendLookStep, ExtendPushStep, ExtendPushedStep, ExtendFreeStep,
     ExtendSealStep, ExtendEndStep, ExtendSettleStep, ClearStep, RealignLookStep,
     RealignSendStep, RealignWaitStep, RealignReadStep
     DEF Works
<1>2. ASSUME NEW t \in Caller, Ask(t, "retract", Cup, 0) PROVE PushInv'
  <2>1. "retract" \in Ops /\ Cup \in SUBSET Cup /\ 0 \in {0, Preset}
    BY DEF Ops
  <2> QED
    BY <1>2, <2>1, AskStep
<1>3. ASSUME NEW t \in Extender, NEW op \in {"extend", "extend_first", "realign"}, Ask(t, op, Cup, 0)
      PROVE  PushInv'
  <2>1. op \in Ops /\ Cup \in SUBSET Cup /\ 0 \in {0, Preset} /\ t \in Caller
    BY CallerAssumption DEF Ops
  <2> QED
    BY <1>3, <2>1, AskStep
<1>4. ASSUME NEW t \in Extender, NEW c \in Cup, Ask(t, "move", {c}, Preset) PROVE PushInv'
  <2>1. "move" \in Ops /\ {c} \in SUBSET Cup /\ Preset \in {0, Preset} /\ t \in Caller
    BY CallerAssumption DEF Ops
  <2> QED
    BY <1>4, <2>1, AskStep
<1>5. CASE Arrive
  BY <1>5, ArriveStep
<1>6. ASSUME NEW c \in Cup, Block(c) \/ GoDeaf(c) \/ HearAgain(c) PROVE PushInv'
  BY <1>6, BlockStep, DeafStep
<1>7. CASE EmergencyStop
  BY <1>7, StopAllStep
<1>8. CASE UNCHANGED pushVars
  <2>1. UNCHANGED <<motors, deaf, valve, bus, place, call, ext, lastSeal, history>>
    BY <1>8 DEF pushVars
  <2>2. UNCHANGED <<pos, goal, queue, enabled, stall>>
    BY <2>1 DEF motors
  <2>3. MotorTypes'
    BY <2>1, <2>2 DEF PushInv, MotorTypes
  <2> QED
    BY <2>1, <2>2, <2>3, DrivesStep
<1> QED
  BY <1>1, <1>2, <1>3, <1>4, <1>5, <1>6, <1>7, <1>8 DEF PushNext

(* The inductive invariant holds of the pushers, whoever calls.            *)
THEOREM PushInvariant == PushSpec => []PushInv
<1> QED
  BY PushStart, PushStep, PTL DEF PushSpec

(* The pushers' state has the types of the code's, and the locals of an    *)
(* extension exist only while zdt_bus_mtx_ is held.                        *)
THEOREM PushTypeCorrect == PushSpec => []PushTypeOK
<1>1. PushInv => PushTypeOK
  <2> SUFFICES ASSUME PushInv PROVE PushTypeOK
    OBVIOUS
  <2>1. bus = NoCaller => ext = NoExt
    <3> SUFFICES ASSUME bus = NoCaller, ext # NoExt PROVE FALSE
      OBVIOUS
    <3>1. PICK t \in Caller : place[t] \in Extending
      BY DEF PushInv, Extension
    <3> QED
      BY <3>1, Within, CallerAssumption
  <2> QED
    BY <2>1 DEF PushInv, PushTypeOK, MotorTypes, CallTypes, SealTypes, ValveTypes,
                Extension, ExtOK, ExtRecord
<1> QED
  BY <1>1, PushInvariant, PTL

(* A retract that reports success has its pushers in, but for those a      *)
(* realign has moved.                                                      *)
THEOREM RetractIn == PushSpec => []RetractOkIn
<1>1. PushInv => RetractOkIn
  BY DEF PushInv, Homing, HomeAt, RetractOkIn
<1> QED
  BY <1>1, PushInvariant, PTL

(* No extension leaves a driver off, unless the enable was lost.           *)
THEOREM PowerBack == PushSpec => []PowerRestored
<1>1. PushInv => PowerRestored
  <2> SUFFICES ASSUME PushInv, NEW c \in Cup, c \notin enabled, c \notin unheard
               PROVE  bus # NoCaller /\ c \in ext.open
    BY DEF PowerRestored
  <2>1. c \in ext.open /\ \E t \in Caller : place[t] \in {"x_look", "x_seal"}
    BY DEF PushInv, Power
  <2>2. PICK t \in Caller : place[t] \in {"x_look", "x_seal"}
    BY <2>1
  <2>3. place[t] \in Extending
    BY <2>2 DEF Extending
  <2> QED
    BY <2>1, <2>3, Within, CallerAssumption
<1> QED
  BY <1>1, PushInvariant, PTL

(* The break-vacuum valve is closed when no retract is under way, unless   *)
(* every attempt to close it was lost.                                     *)
THEOREM ValveClosed == PushSpec => []BreakVacuumOff
<1>1. PushInv => BreakVacuumOff
  BY DEF PushInv, Valve, BreakVacuumOff
<1> QED
  BY <1>1, PushInvariant, PTL

\* What the next extension starts from changes in three places only
LEMMA LearnedBy ==
  ASSUME PushInv, PushNext, lastSeal' # lastSeal
  PROVE  \E t \in Caller : ExtendEnd(t) \/ RealignLook(t) \/ RealignRead(t)
<1>1. ~Arrive /\ ~EmergencyStop /\ \A c \in Cup : ~Block(c) /\ ~GoDeaf(c) /\ ~HearAgain(c)
  BY DEF Arrive, EmergencyStop, Block, GoDeaf, HearAgain
<1>2. \A t, op, G, to : ~Ask(t, op, G, to)
  BY DEF Ask
<1>3. \A t : ~Acquire(t) /\ ~Exit(t) /\ ~MoveSend(t) /\ ~MoveWait(t)
  BY DEF Acquire, Exit, MoveSend, MoveWait
<1>4. \A t : ~RetractOpen(t) /\ ~RetractSend(t) /\ ~RetractClose(t) /\ ~RetractWait(t)
             /\ ~RetractVerify(t) /\ ~RetractExit(t)
  BY DEF RetractOpen, RetractSend, RetractClose, RetractWait, RetractVerify, RetractExit
<1>5. \A t : ~ExtendSend(t) /\ ~ExtendWait(t) /\ ~ExtendLook(t) /\ ~ExtendPush(t)
             /\ ~ExtendPushed(t) /\ ~ExtendFree(t) /\ ~ExtendSeal(t) /\ ~ExtendSettle(t)
             /\ ~ExtendClear(t)
  BY DEF ExtendSend, ExtendWait, ExtendLook, ExtendPush, ExtendPushed, ExtendFree, ExtendSeal,
         ExtendSettle, ExtendClear
<1>6. \A t : ~RealignSend(t) /\ ~RealignWait(t)
  BY DEF RealignSend, RealignWait
<1> QED
  BY <1>1, <1>2, <1>3, <1>4, <1>5, <1>6 DEF PushNext, Works

\* A cup that an extension records was read as sealed, or met the obstacle
LEMMA EndLearns ==
  ASSUME PushInv, NEW t \in Caller, ExtendEnd(t), NEW c \in Cup, lastSeal'[c] # lastSeal[c]
  PROVE  c \in ext'.seen \cup ext'.obst
<1>1. place[t] = "x_end"
  BY DEF ExtendEnd
<1>2. place[t] \in Extending
  BY <1>1 DEF Extending
<1>3. ExtOK(ext) /\ ext \in ExtRecord /\ Accounts(ext, Cups(t))
  BY <1>2, Within DEF ExtAt
<1>4. PICK S \in SUBSET Touching(ext.open) :
        LET x == WithWeak(WithSeal(ext, S), ext.open \ S) IN
        /\ ext' = x
        /\ lastSeal' = [d \in Cup |-> IF d \in Recorded(t, x) THEN x.fin[d] ELSE lastSeal[d]]
  BY DEF ExtendEnd
<1> DEFINE x == WithWeak(WithSeal(ext, S), ext.open \ S)
<1>5. x.weak = ext.weak \cup (ext.open \ S) /\ x.seen = ext.seen \cup S /\ x.obst = ext.obst
  BY <1>3 DEF WithWeak, WithSeal, ExtRecord
<1>6. ext' = x /\ c \in Recorded(t, x)
  BY <1>4
<1> HIDE DEF x
<1>7. c \in Cups(t) /\ c \notin x.weak
  BY <1>6 DEF Recorded
<1> QED
  BY <1>3, <1>5, <1>6, <1>7 DEF Accounts

(* What the next extension starts from is only replaced for a cup that was *)
(* read as sealed or met the obstacle, or by a realign with where it is.   *)
THEOREM Learned == PushSpec => LearnedIsSealed
<1>1. ASSUME PushInv, [PushNext]_pushVars
      PROVE  [\A c \in Cup : lastSeal'[c] # lastSeal[c] =>
                \/ c \in ext'.seen \cup ext'.obst
                \/ Realigning /\ lastSeal'[c] = pos[c]]_pushVars
  <2> SUFFICES ASSUME PushNext, NEW c \in Cup, lastSeal'[c] # lastSeal[c]
               PROVE  \/ c \in ext'.seen \cup ext'.obst
                      \/ Realigning /\ lastSeal'[c] = pos[c]
    BY <1>1
  <2>1. PICK t \in Caller : ExtendEnd(t) \/ RealignLook(t) \/ RealignRead(t)
    BY <1>1, LearnedBy
  <2>2. CASE ExtendEnd(t)
    BY <1>1, <2>2, EndLearns
  <2>3. CASE RealignLook(t) \/ RealignRead(t)
    <3>1. call[t].op = "realign"
      BY <1>1, <2>3 DEF RealignLook, RealignRead, PushInv, RealignPlaces
    <3>2. RecordAll
      BY <2>3 DEF RealignLook, RealignRead
    <3>3. lastSeal'[c] = pos[c]
      BY <3>2 DEF RecordAll
    <3> QED
      BY <3>1, <3>3 DEF Realigning
  <2> QED
    BY <2>1, <2>2, <2>3
<1> QED
  BY <1>1, PushInvariant, PTL DEF PushSpec, LearnedIsSealed
=============================================================================
