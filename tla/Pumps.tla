-------------------------------- MODULE Pumps --------------------------------
(***************************************************************************)
(* The two vacuum pumps of the body and their rotation,                    *)
(* app/wash_robot_commands.cpp (pump_swap_, pump_rotate_loop_) and the     *)
(* relay board they hang on.                                               *)
(*                                                                         *)
(* Both pumps draw on one manifold: a swap opens the one that comes,       *)
(* lets both run, closes the one that goes and watches the vacuum.  The    *)
(* rotation thread and a detached thread of "pump swap" run it, one at a   *)
(* time; commands write the same relays and the same timing variables      *)
(* without asking.  The board keeps its relays; a write may be dropped on  *)
(* the bus without a word, and a readback may fail.                        *)
(***************************************************************************)
EXTENDS Naturals

CONSTANTS
  A, B,         \* CH_PUMP_A, CH_PUMP_B
  Others,       \* other channels switched by hand: CH_BRUSH, CH_WATER_PUMP
  Loop,         \* pump_rotate_thread_
  Hand,         \* the detached threads of cmd_pump_swap_
  Op,           \* the threads that carry out the other commands
  MaxVerify,    \* readbacks of pqw_set_relay_verified_, 3
  MaxFaults,    \* bound: exchanges lost, unread or failed
  MaxCommands   \* bound: commands

ASSUME ThreadAssumption == Loop \notin Hand /\ Loop \notin Op /\ Hand \cap Op = {}
ASSUME PumpAssumption == A # B
ASSUME BoundAssumption == MaxVerify \in Nat \ {0} /\ MaxFaults \in Nat /\ MaxCommands \in Nat

Pump    == {A, B}
Channel == Pump \cup Others
Swapper == Hand \cup {Loop}
Thread  == Swapper \cup Op
OtherPump(p) == IF p = A THEN B ELSE A

VARIABLES
  relay,      \* the relays of the board
  active,     \* active_pump_
  swapping,   \* pump_swap_in_progress_
  auto,       \* pump_auto_rotate_enabled_
  counting,   \* pump_active_since_ms_ # 0
  rotating,   \* g_pump_rotate_ms > 0
  state,      \* state_, as the commands here tell it apart
  pc,         \* where each thread is
  ch,         \* a swap's from_ch; the channel an operation writes
  on,         \* what an operation writes
  tries,      \* vr of pqw_set_relay_verified_
  deep,       \* a swap: was the vacuum deep with both pumps on?
  faults, commands,
  wanted,     \* history: the last word of the commands is that a pump runs
  why         \* history: what may have left no pump running since

board == <<relay, faults>>
mode  == <<active, swapping, auto, counting, rotating, state>>
local == <<ch, on, tries, deep>>
hist  == <<wanted, why>>
vars  == <<board, mode, pc, local, commands, hist>>

Init ==
  /\ relay = [c \in Channel |-> FALSE]
  /\ active = A
  /\ swapping = FALSE /\ auto = TRUE /\ counting = FALSE /\ rotating = TRUE
  /\ state = "idle"
  /\ pc = [t \in Thread |-> "idle"]
  /\ ch = [t \in Thread |-> A]
  /\ on = [t \in Thread |-> FALSE]
  /\ tries = [t \in Thread |-> 0]
  /\ deep = [t \in Thread |-> FALSE]
  /\ faults = 0 /\ commands = 0
  /\ wanted = FALSE /\ why = {}

Goto(t, label) == pc' = [pc EXCEPT ![t] = label]
Fault == faults < MaxFaults /\ faults' = faults + 1
AllOff(r) == \A p \in Pump : ~r[p]
Midway(o) == pc[o] # "idle"

-----------------------------------------------------------------------------
\* controlRelay, by what its caller sees: good, though the gateway may have
\* dropped the write, or failed
Sent(c, v) == \/ relay' = [relay EXCEPT ![c] = v] /\ UNCHANGED faults
              \/ Fault /\ UNCHANGED relay
SendFails == Fault /\ UNCHANGED relay
ControlRelay(t, c, v, sent, failed) ==
  \/ Sent(c, v) /\ Goto(t, sent)
  \/ SendFails /\ Goto(t, failed)

\* pqw_set_relay_verified_: after the write at most MaxVerify readbacks, each
\* that disagrees with one more write.  A channel that could not be read, or
\* that stays wrong to the end, counts as set
LastTry(t) == tries[t] = MaxVerify - 1
Passes(t, c, v) ==
  \/ relay[c] = v /\ UNCHANGED board
  \/ Fault /\ UNCHANGED relay
  \/ relay[c] # v /\ LastTry(t) /\ Sent(c, v)
Repeats(t, c, v, look, failed) ==
  /\ relay[c] # v
  /\ \/ ~LastTry(t) /\ Sent(c, v) /\ Goto(t, look) /\ tries' = [tries EXCEPT ![t] = @ + 1]
     \/ SendFails /\ Goto(t, failed) /\ tries' = [tries EXCEPT ![t] = 0]
Readback(t, c, v, look, done, failed) ==
  \/ Passes(t, c, v) /\ Goto(t, done) /\ tries' = [tries EXCEPT ![t] = 0]
  \/ Repeats(t, c, v, look, failed)

\* An opening that passed its readback without having been seen open
Blindly(t, c, v, done) ==
  IF v /\ pc'[t] = done /\ ~(relay[c] /\ UNCHANGED faults) THEN {"unseen"} ELSE {}

-----------------------------------------------------------------------------
(* pump_swap_ *)

Phase  == {"open", "close", "reopen"}
Look   == [open |-> "look_open", close |-> "look_close", reopen |-> "look_reopen"]
Done   == [open |-> "overlap", close |-> "verify", reopen |-> "disarm"]
GoesOn == [open |-> "overlap", close |-> "failed", reopen |-> "disarm"]  \* mutant
Failed == [open |-> "failed", close |-> "failed", reopen |-> "disarm"]
Comes(t) == OtherPump(ch[t])
Target(t, p) == IF p = "open" THEN Comes(t) ELSE ch[t]
Inside == Phase \cup {"look_open", "look_close", "look_reopen", "overlap", "verify",
                      "disarm", "ok", "failed"}

\* The exchange of pump_swap_in_progress_; a swap that finds one under way is over
EntersAnyway(t) == TRUE  \* mutant
MayEnter(t) == ~swapping
EnterSwap(t) ==
  /\ pc[t] = "enter"
  /\ swapping' = TRUE
  /\ IF MayEnter(t) THEN Goto(t, "open") ELSE Goto(t, "store_failed")
  /\ why' = why \cup (IF \E o \in Op : Midway(o) THEN {"overlapped"} ELSE {})
  /\ UNCHANGED <<board, active, auto, counting, rotating, state, local, commands, wanted>>

SwapWrite(t, p) ==
  /\ pc[t] = p
  /\ ControlRelay(t, Target(t, p), p # "close", Look[p], Failed[p])
  /\ UNCHANGED <<mode, local, commands, hist>>

SwapLook(t, p) ==
  /\ pc[t] = Look[p]
  /\ Readback(t, Target(t, p), p # "close", Look[p], Done[p], Failed[p])
  /\ why' = why \cup Blindly(t, Target(t, p), p # "close", Done[p])
  /\ UNCHANGED <<mode, ch, on, deep, commands, wanted>>

\* Both have run together: best_vacuum_kpa_ is the measure of what follows
Overlap(t) ==
  /\ pc[t] = "overlap"
  /\ \E d \in BOOLEAN : deep' = [deep EXCEPT ![t] = d]
  /\ Goto(t, "close")
  /\ UNCHANGED <<board, mode, ch, on, tries, commands, hist>>

\* The vacuum has held for PUMP_SWAP_VERIFY_MS, or has got worse and the pump
\* that went is opened again
Verify(t) ==
  /\ pc[t] = "verify"
  /\ \/ Goto(t, "ok")
     \/ deep[t] /\ Goto(t, "reopen")
  /\ deep' = [deep EXCEPT ![t] = FALSE]
  /\ UNCHANGED <<board, mode, ch, on, tries, commands, hist>>

Disarm(t) ==
  /\ pc[t] = "disarm"
  /\ auto' = FALSE
  /\ Goto(t, "failed")
  /\ UNCHANGED <<board, active, swapping, counting, rotating, state, local, commands, hist>>

\* The guard's destructor, and only then the caller's stores
LeaveSwap(t) ==
  /\ \/ pc[t] = "ok" /\ Goto(t, "store_ok")
     \/ pc[t] = "failed" /\ Goto(t, "store_failed")
  /\ swapping' = FALSE
  /\ UNCHANGED <<board, active, auto, counting, rotating, state, local, commands, hist>>

StoreSwap(t) ==
  /\ \/ pc[t] = "store_ok" /\ active' = Comes(t) /\ auto' = (auto \/ t \in Hand)
     \/ pc[t] = "store_failed" /\ UNCHANGED <<active, auto>>
  /\ counting' = TRUE
  /\ Goto(t, "idle")
  /\ ch' = [ch EXCEPT ![t] = A]  \* the locals of a thread that is done do not matter
  /\ UNCHANGED <<board, swapping, rotating, state, on, tries, deep, commands, hist>>

PumpSwap(t) ==
  \/ EnterSwap(t) \/ Overlap(t) \/ Verify(t) \/ Disarm(t) \/ LeaveSwap(t) \/ StoreSwap(t)
  \/ \E p \in Phase : SwapWrite(t, p) \/ SwapLook(t, p)

-----------------------------------------------------------------------------
\* pump_rotate_loop_ every ten seconds: what it loads, then what it stores.  The
\* time is up, or not yet
Tick ==
  /\ pc[Loop] = "idle"
  /\ auto /\ rotating /\ counting
  /\ Goto(Loop, "tick")
  /\ UNCHANGED <<board, mode, local, commands, hist>>

TickStores ==
  /\ pc[Loop] = "tick"
  /\ counting' = TRUE
  /\ \/ Goto(Loop, "idle") /\ UNCHANGED ch
     \/ Goto(Loop, "enter") /\ ch' = [ch EXCEPT ![Loop] = active]
  /\ UNCHANGED <<board, active, swapping, auto, rotating, state, on, tries, deep,
                 commands, hist>>

\* cmd_pump_swap_, and the thread it starts
CmdPumpSwap(h) ==
  /\ pc[h] = "idle"
  /\ commands < MaxCommands /\ commands' = commands + 1
  /\ state # "error" /\ ~swapping
  /\ Goto(h, "started")
  /\ UNCHANGED <<board, mode, local, hist>>

HandStarts(h) ==
  /\ pc[h] = "started"
  /\ ch' = [ch EXCEPT ![h] = active]
  /\ Goto(h, "enter")
  /\ UNCHANGED <<board, mode, on, tries, deep, commands, hist>>

-----------------------------------------------------------------------------
(* The commands, each in a thread of its own *)

Command(o, label) ==
  /\ pc[o] = "idle"
  /\ commands < MaxCommands /\ commands' = commands + 1
  /\ Goto(o, label)

\* What a command's write to a pump says, and whether somebody else is at it
Together(o) == swapping \/ \E other \in Op \ {o} : Midway(other)
Says(o, c) ==
  /\ wanted' = (wanted /\ ~AllOff(relay'))
  /\ why' = why \cup (IF c \in Pump /\ Together(o) THEN {"overlapped"} ELSE {})

\* cmd_init: A on (a failure is asked about: again, or go on without), B off,
\* the rotation from its beginning
CmdInit(o) ==
  /\ state \in {"idle", "ready", "error"}
  /\ Command(o, "init_a")
  /\ wanted' = FALSE
  /\ why' = IF Together(o) THEN {"overlapped"} ELSE {}
  /\ UNCHANGED <<board, mode, local>>

InitOpensA(o) ==
  /\ pc[o] = "init_a"
  /\ \/ Sent(A, TRUE) /\ Goto(o, "init_b")
     \/ SendFails /\ \E next \in {"init_a", "init_b", "idle"} : Goto(o, next)
  /\ wanted' = FALSE
  /\ why' = why \cup (IF relay'[A] THEN {} ELSE {"unseen"})
                \cup (IF Together(o) THEN {"overlapped"} ELSE {})
  /\ UNCHANGED <<mode, local, commands>>

InitClosesB(o) ==
  /\ pc[o] = "init_b"
  /\ ControlRelay(o, B, FALSE, "init_store", "init_store")
  /\ Says(o, B)
  /\ UNCHANGED <<mode, local, commands>>

InitStores(o) ==
  /\ pc[o] = "init_store"
  /\ active' = A /\ auto' = TRUE /\ counting' = TRUE
  /\ state' = "ready"
  /\ wanted' = TRUE
  /\ Goto(o, "idle")
  /\ UNCHANGED <<board, swapping, rotating, local, commands, why>>

\* The end of return_home, of the emergency detach and of shutdown: both off
CmdOff(o) == Command(o, "off_a") /\ UNCHANGED <<board, mode, local, hist>>

OffWrites(o) ==
  /\ \/ pc[o] = "off_a" /\ ControlRelay(o, A, FALSE, "off_b", "off_b") /\ Says(o, A)
     \/ pc[o] = "off_b" /\ ControlRelay(o, B, FALSE, "off_since", "off_since") /\ Says(o, B)
  /\ UNCHANGED <<mode, local, commands>>

OffStores(o) ==
  /\ pc[o] = "off_since"
  /\ counting' = FALSE
  /\ state' \in {state, "idle"}
  /\ wanted' = FALSE
  /\ Goto(o, "idle")
  /\ UNCHANGED <<board, active, swapping, auto, rotating, local, commands, why>>

\* cmd_pump on the active pump; cmd_pump_ch_, cmd_brush and cmd_water_pump on a
\* channel of their own
CmdPump(o, v) ==
  /\ Command(o, "set")
  /\ \E c \in Others \cup {active, A, B} : ch' = [ch EXCEPT ![o] = c]
  /\ on' = [on EXCEPT ![o] = v]
  /\ UNCHANGED <<board, mode, tries, deep, hist>>

SetWrites(o) ==
  /\ pc[o] = "set"
  /\ ControlRelay(o, ch[o], on[o], "look", "idle")
  /\ Says(o, ch[o])
  /\ UNCHANGED <<mode, local, commands>>

SetLooks(o) ==
  /\ pc[o] = "look"
  /\ Readback(o, ch[o], on[o], "look", "count", "idle")
  /\ wanted' = (wanted /\ ~AllOff(relay'))
  /\ why' = why \cup Blindly(o, ch[o], on[o], "count")
               \cup (IF ch[o] \in Pump /\ Together(o) THEN {"overlapped"} ELSE {})
  /\ UNCHANGED <<mode, ch, on, deep, commands>>

SetStores(o) ==
  /\ pc[o] = "count"
  /\ counting' = IF ch[o] = active THEN on[o] ELSE counting
  /\ wanted' = (wanted \/ (on[o] /\ ch[o] \in Pump))
  /\ Goto(o, "idle")
  /\ ch' = [ch EXCEPT ![o] = A]
  /\ on' = [on EXCEPT ![o] = FALSE]
  /\ UNCHANGED <<board, active, swapping, auto, rotating, state, tries, deep, commands, why>>

\* cmd_relay: any channel, one write, in Idle and Ready only
CmdRelay(o, c, v) ==
  /\ state \in {"idle", "ready"}
  /\ Command(o, "idle")
  /\ Sent(c, v) \/ SendFails
  /\ Says(o, c)
  /\ UNCHANGED <<mode, local>>

CmdSetPumpRotateMin(o, positive) ==
  /\ Command(o, "idle")
  /\ rotating' = positive
  /\ auto' = (auto \/ positive)
  /\ UNCHANGED <<board, active, swapping, counting, state, local, hist>>

\* The other commands and monitors, by what they do to state_
StateMoves ==
  /\ \/ state = "ready" /\ state' = "work"
     \/ state # "error" /\ state' = "error"
     \/ state \in {"work", "error"} /\ state' = "ready"
  /\ UNCHANGED <<board, active, swapping, auto, counting, rotating, pc, local,
                 commands, hist>>

Commands(o) ==
  \/ CmdInit(o) \/ CmdOff(o)
  \/ \E v \in BOOLEAN : CmdPump(o, v) \/ CmdSetPumpRotateMin(o, v)
  \/ \E v \in BOOLEAN, c \in Channel : CmdRelay(o, c, v)
Steps(o) ==
  \/ InitOpensA(o) \/ InitClosesB(o) \/ InitStores(o)
  \/ OffWrites(o) \/ OffStores(o)
  \/ SetWrites(o) \/ SetLooks(o) \/ SetStores(o)

Next ==
  \/ \E t \in Swapper : PumpSwap(t)
  \/ Tick \/ TickStores
  \/ \E h \in Hand : CmdPumpSwap(h) \/ HandStarts(h)
  \/ \E o \in Op : Commands(o) \/ Steps(o)
  \/ StateMoves

Spec == Init /\ [][Next]_vars

-----------------------------------------------------------------------------
OpLabel == {"init_a", "init_b", "init_store", "off_a", "off_b", "off_since", "set", "look", "count"}
SwapLabel == Inside \cup {"tick", "started", "enter", "store_ok", "store_failed"}

\* Every variable is of its type, and pump_swap_in_progress_ stands for exactly
\* one swap that has been entered and not left
TypeOK ==
  /\ relay \in [Channel -> BOOLEAN]
  /\ active \in Pump
  /\ swapping \in BOOLEAN /\ auto \in BOOLEAN /\ counting \in BOOLEAN /\ rotating \in BOOLEAN
  /\ wanted \in BOOLEAN
  /\ state \in {"idle", "ready", "work", "error"}
  /\ pc \in [Thread -> {"idle"} \cup OpLabel \cup SwapLabel]
  /\ \A o \in Op : pc[o] \in {"idle"} \cup OpLabel
  /\ \A t \in Swapper : pc[t] \in {"idle"} \cup SwapLabel
  /\ ch \in [Thread -> Channel] /\ tries \in [Thread -> 0..MaxVerify-1]
  /\ on \in [Thread -> BOOLEAN] /\ deep \in [Thread -> BOOLEAN]
  /\ faults \in 0..MaxFaults /\ commands \in 0..MaxCommands
  /\ why \in SUBSET {"unseen", "overlapped"}
  /\ \A t \in Swapper : ch[t] \in Pump
  /\ \A t, u \in Swapper : pc[t] \in Inside /\ pc[u] \in Inside => t = u
  /\ swapping <=> \E t \in Swapper : pc[t] \in Inside

\* The make-before-break of the rotation (4329-4334): once a command has had a
\* pump started and none has had it stopped, a pump runs, whatever swaps came,
\* failed or were reverted.  Two things only leave both off: an opening whose
\* readback failed or was given up, which counts as done, and a command that
\* wrote the pumps while a swap, which asks nobody but other swaps, was under way
SuctionKept == wanted /\ AllOff(relay) => why # {}
=============================================================================
