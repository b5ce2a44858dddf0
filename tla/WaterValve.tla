----------------------------- MODULE WaterValve ------------------------------
(***************************************************************************)
(* The water inlet valve and its deadman, Crane_control_PI/main.cpp.       *)
(*                                                                         *)
(* The relay that opens the valve keeps its state by itself.  A client     *)
(* opens and closes it through zs_set_relay_verified (write, read back,    *)
(* retry), which arms or disarms the deadman when it returns OK.  The      *)
(* deadman thread closes a valve that has been open too long, through the  *)
(* same function.  Nothing makes two such calls exclusive: an exchange     *)
(* with the relay module is one step, and the calls interleave.            *)
(***************************************************************************)
EXTENDS Naturals

CONSTANTS
  Client,     \* the connections, one thread each
  Dog,        \* the water_dog_loop thread
  MaxFaults   \* bound: exchanges that fail, and restarts

ASSUME DogAssumption == Dog \notin Client
ASSUME FaultAssumption == MaxFaults \in Nat

VARIABLES
  valve,    \* is the relay on, the valve open?
  timer,    \* g_water_open_ts_ms: 0, or its age against g_water_open_max_ms
  enabled,  \* g_water_open_max_ms > 0
  online,   \* g_dev_zs_water
  pc,       \* where each thread is in zs_set_relay_verified
  want,     \* its argument on
  tries,    \* its counter vr
  faults,   \* faults so far
  astray    \* history: why an open valve may have no timer

call == <<want, tries>>
vars == <<valve, timer, enabled, online, pc, call, faults, astray>>

Thread  == Client \cup {Dog}
Reasons == {"open_failed", "late_disarm", "restart"}

Init ==
  /\ valve = FALSE
  /\ timer = "off"
  /\ enabled = TRUE
  /\ online = TRUE
  /\ pc = [t \in Thread |-> "idle"]
  /\ want = [t \in Thread |-> FALSE]
  /\ tries = [t \in Thread |-> 0]
  /\ faults = 0
  /\ astray = {}

Goto(t, label) == pc' = [pc EXCEPT ![t] = label]
Fault == faults < MaxFaults /\ faults' = faults + 1

\* zs_set_relay_verified returns
Return(t) ==
  /\ Goto(t, "idle")
  /\ want' = [want EXCEPT ![t] = FALSE]
  /\ tries' = [tries EXCEPT ![t] = 0]

-----------------------------------------------------------------------------
\* zs_set_relay_verified(CH_WATER_INLET, on), by a client or by the deadman
Call(t, on) ==
  /\ pc[t] = "idle"
  /\ online
  /\ Goto(t, "write")
  /\ want' = [want EXCEPT ![t] = on]
  /\ tries' = [tries EXCEPT ![t] = 0]
  /\ UNCHANGED <<valve, enabled, online, faults, astray>>

WaterInlet(c, on) == Call(c, on) /\ UNCHANGED timer

\* The deadman looks every five seconds.  It leaves the timer as it is: only a
\* close that returns OK disarms it
Overdue == enabled /\ timer = "expired"
FiresOnce == Overdue /\ Call(Dog, FALSE) /\ timer' = "off"  \* mutant
DogFires == Overdue /\ Call(Dog, FALSE) /\ UNCHANGED timer

\* controlRelay, echoed by the module: then the readback, three at most
OneMoreReadback(t) == tries[t] <= 3  \* mutant
MoreReadbacks(t) == tries[t] < 3
Write(t) ==
  /\ pc[t] = "write"
  /\ valve' = want[t]
  /\ Goto(t, IF MoreReadbacks(t) THEN "read" ELSE "arm")
  /\ astray' = IF valve' THEN astray ELSE {}
  /\ UNCHANGED <<timer, enabled, online, call, faults>>

\* An exchange of controlRelay without its echo, carried out or not: another
\* attempt, or after the last one ERR (an attempt lost on the way changes nothing
\* and is no step)
NoEcho(t) ==
  /\ pc[t] = "write"
  /\ Fault
  /\ valve' \in {valve, want[t]}
  /\ \/ /\ Goto(t, "write") /\ UNCHANGED call
        /\ astray' = IF valve' THEN astray ELSE {}
     \/ /\ Return(t)
        /\ astray' = IF ~valve' THEN {}
                     ELSE IF want[t] /\ timer = "off" THEN astray \cup {"open_failed"}
                     ELSE astray
  /\ UNCHANGED <<timer, enabled, online>>

\* readCoils: as wanted, or not and the write is repeated
Read(t) ==
  /\ pc[t] = "read"
  /\ \/ valve = want[t] /\ Goto(t, "arm") /\ UNCHANGED tries
     \/ /\ valve # want[t]
        /\ Goto(t, "write")
        /\ tries' = [tries EXCEPT ![t] = @ + 1]
  /\ UNCHANGED <<valve, timer, enabled, online, want, faults, astray>>

\* readCoils fails: the write is taken for done, and the deadman armed all the same
UnreadUnarmed == "idle"  \* mutant
AfterNoReadback == "arm"
ReadFails(t) ==
  /\ pc[t] = "read"
  /\ Fault
  /\ Goto(t, AfterNoReadback)
  /\ UNCHANGED <<valve, timer, enabled, online, call, astray>>

\* arm_water_dog, then OK
Arm(t) ==
  /\ pc[t] = "arm"
  /\ timer' = IF want[t] THEN "fresh" ELSE "off"
  /\ Return(t)
  /\ astray' = IF timer' # "off" \/ ~valve THEN {}
               ELSE IF timer # "off" THEN {"late_disarm"}
               ELSE astray
  /\ UNCHANGED <<valve, enabled, online, faults>>

-----------------------------------------------------------------------------
\* set_water_open_max_ms: 0, or a longer or shorter time
SetWaterOpenMax(on) ==
  /\ enabled' = on
  /\ timer' \in IF timer = "off" THEN {"off"} ELSE {"fresh", "expired"}
  /\ UNCHANGED <<valve, online, pc, call, faults, astray>>

TimePasses ==
  /\ timer = "fresh"
  /\ timer' = "expired"
  /\ UNCHANGED <<valve, enabled, online, pc, call, faults, astray>>

\* The program ends or dies and starts again: the timer is 0, the relay is as
\* it was.  The probe closes a valve found open, its result ignored; without an
\* answer the module counts as absent.  (The close of an orderly exit has its
\* result ignored too, and is one of these outcomes.)
Restart ==
  /\ Fault
  /\ timer' = "off"
  /\ enabled' = TRUE
  /\ pc' = [t \in Thread |-> "idle"]
  /\ want' = [t \in Thread |-> FALSE]
  /\ tries' = [t \in Thread |-> 0]
  /\ online' \in BOOLEAN
  /\ valve' \in {valve, FALSE}
  /\ astray' = IF valve' THEN {"restart"} ELSE {}

-----------------------------------------------------------------------------
ZsSetRelayVerified(t) ==
  Write(t) \/ NoEcho(t) \/ Read(t) \/ ReadFails(t) \/ Arm(t)

Next ==
  \/ \E c \in Client, on \in BOOLEAN : WaterInlet(c, on)
  \/ \E t \in Thread : ZsSetRelayVerified(t)
  \/ DogFires
  \/ \E on \in BOOLEAN : SetWaterOpenMax(on)
  \/ TimePasses
  \/ Restart

Spec == Init /\ [][Next]_vars

\* The deadman thread keeps running; the clients owe nothing
FairSpec == Spec /\ WF_vars(DogFires) /\ WF_vars(ZsSetRelayVerified(Dog))

-----------------------------------------------------------------------------
\* Every variable is of its type, and no call goes beyond its third retry
TypeOK ==
  /\ valve \in BOOLEAN /\ enabled \in BOOLEAN /\ online \in BOOLEAN
  /\ timer \in {"off", "fresh", "expired"}
  /\ pc \in [Thread -> {"idle", "write", "read", "arm"}]
  /\ want \in [Thread -> BOOLEAN]
  /\ tries \in [Thread -> 0..3]
  /\ faults \in 0..MaxFaults
  /\ astray \in SUBSET Reasons
  /\ \A t \in Thread : pc[t] = "read" => tries[t] < 3

Opening(t) == want[t] /\ pc[t] # "idle"

\* An open valve that no timer watches has one of three causes: the echo of the
\* opening was lost and it returned ERR, a close disarmed the deadman after a
\* later opening had armed it, or the program restarted and its close failed.
\* Otherwise a call is about to arm it (zs_set_relay_verified against itself,
\* main.cpp:5801-5832, and the probe, 6462-6490).
UnwatchedExplained ==
  valve /\ timer = "off" => astray # {} \/ \E t \in Thread : Opening(t)

\* An open valve that is past its time is closed, whatever else the clients do
\* and however often the close fails, unless it is opened anew, the protection is
\* switched off or the timer is lost as above (water_dog_loop, main.cpp:5768-5788)
DeadmanCloses ==
  enabled /\ timer = "expired" ~> ~valve \/ timer = "fresh" \/ ~enabled \/ astray # {}
=============================================================================
