----------------------------- MODULE RefillWatch -----------------------------
(***************************************************************************)
(* Who closes the water inlet: the body's set_water_inlet_ and its         *)
(* water_inlet_watchdog_loop_ (app/wash_robot_commands.cpp), composed with *)
(* the valve and the deadman of the crane (WaterValve).                    *)
(*                                                                         *)
(* The body stamps water_inlet_open_ts_ms_ before it asks for an opening   *)
(* and resets it when a close has been confirmed.  Its calls go one after  *)
(* the other over one connection; a call that times out takes a new one,   *)
(* while the crane's thread of the old one goes on.                        *)
(***************************************************************************)
EXTENDS WaterValve

CONSTANTS
  Ui,     \* the thread of a command: cmd_water_inlet, a sweep, an init, a stop
  Watch,  \* water_inlet_wd_thread_
  Nobody  \* the line is free

ASSUME CallerAssumption == Ui # Watch /\ Nobody \notin {Ui, Watch} /\ Client # {}

VARIABLES
  ts,     \* is water_inlet_open_ts_ms_ set?
  at,     \* where each thread of the body is in set_water_inlet_
  on,     \* its argument
  user,   \* the thread that crane_cmd_ serves
  conn,   \* the connection in use
  reply,  \* what has come back on it
  lost    \* history: why the body may have forgotten an open valve

body == <<ts, at, on, user, conn, reply, lost>>
call2 == <<user, conn, reply>>

Caller == {Ui, Watch}

InitWatch ==
  /\ Init
  /\ ts = FALSE
  /\ at = [b \in Caller |-> "idle"]
  /\ on = [b \in Caller |-> FALSE]
  /\ user = Nobody /\ conn = (CHOOSE k \in Client : TRUE) /\ reply = "none"
  /\ lost = {}

-----------------------------------------------------------------------------
At(b, label) == at' = [at EXCEPT ![b] = label]

\* set_water_inlet_ returns
Ends(b) == At(b, "idle") /\ on' = [on EXCEPT ![b] = FALSE]

\* An opening is stamped before it is sent
StampsNothing(open) == UNCHANGED <<ts, lost>>   \* mutant
Stamp(open) ==
  /\ ts' = (open \/ ts)
  /\ lost' = IF open THEN {} ELSE lost

SetWaterInlet(b, open) ==
  /\ at[b] = "idle"
  /\ At(b, "send")
  /\ on' = [on EXCEPT ![b] = open]
  /\ Stamp(open)
  /\ UNCHANGED <<vars, call2>>

\* While it is stamped, as soon as the upper sensor reports water, at the latest
\* after WATER_INLET_OPEN_MAX_MS
WatchFires == ts /\ SetWaterInlet(Watch, FALSE)

\* crane_cmd_ serves one thread at a time.  A controller without its relay module
\* answers ERR at once
Send(b) ==
  /\ at[b] = "send" /\ user = Nobody /\ pc[conn] = "idle"
  /\ user' = b
  /\ At(b, "wait")
  /\ IF online THEN WaterInlet(conn, on[b]) /\ reply' = "none"
               ELSE reply' = "err" /\ UNCHANGED vars
  /\ UNCHANGED <<ts, on, conn, lost>>

\* Tried again after a while, three times in all
Fails(b) ==
  /\ user' = Nobody
  /\ \/ At(b, "send") /\ UNCHANGED on
     \/ Ends(b)

Receive(b) ==
  /\ at[b] = "wait" /\ reply # "none"
  /\ reply' = "none"
  /\ \/ reply = "ok" /\ At(b, "store") /\ user' = Nobody /\ UNCHANGED on
     \/ reply = "err" /\ Fails(b)
  /\ UNCHANGED <<vars, ts, conn, lost>>

\* Five seconds without an answer, or the connection died: another connection
TimesOut(b) ==
  /\ at[b] = "wait"
  /\ Fault
  /\ conn' \in {k \in Client \ {conn} : pc[k] = "idle"}
  /\ reply' = "none"
  /\ Fails(b)
  /\ UNCHANGED <<valve, timer, enabled, online, pc, call, astray, ts, lost>>

\* After the line is free again: a confirmed close resets the stamp, also one that
\* an opening has set in the meantime
Store(b) ==
  /\ at[b] = "store"
  /\ Ends(b)
  /\ ts' = (on[b] /\ ts)
  /\ lost' = IF ~on[b] /\ ts /\ (valve \/ \E c \in Caller : on[c])
             THEN lost \cup {"late_store"} ELSE lost
  /\ UNCHANGED <<vars, call2>>

\* stop() or the end of the process; the close of an orderly end has its result ignored
BodyRestarts ==
  /\ Fault
  /\ ts' = FALSE
  /\ at' = [b \in Caller |-> "idle"]
  /\ on' = [b \in Caller |-> FALSE]
  /\ user' = Nobody /\ reply' = "none"
  /\ conn' \in {k \in Client : pc[k] = "idle"}
  /\ lost' = {"restart"}
  /\ UNCHANGED <<valve, timer, enabled, online, pc, call, astray>>

-----------------------------------------------------------------------------
(* The crane *)

Waited(t) == t = conn /\ user # Nobody

\* A step of a call; its end is the answer, if somebody still waits for it
CraneCall(t) ==
  /\ ZsSetRelayVerified(t)
  /\ reply' = IF Waited(t) /\ pc'[t] = "idle"
              THEN IF pc[t] = "arm" THEN "ok" ELSE "err"
              ELSE reply
  /\ lost' = IF t \in Client /\ ~Waited(t) /\ valve' /\ ~valve
             THEN lost \cup {"late_request"} ELSE lost
  /\ UNCHANGED <<ts, at, on, user, conn>>

CraneRestarts ==
  /\ Restart
  /\ reply' = IF user = Nobody THEN reply ELSE "err"
  /\ UNCHANGED <<ts, at, on, user, conn, lost>>

CraneOwn == DogFires \/ TimePasses \/ \E m \in BOOLEAN : SetWaterOpenMax(m)

-----------------------------------------------------------------------------
BodySteps(b) == Send(b) \/ Receive(b) \/ TimesOut(b) \/ Store(b)

NextWatch ==
  \/ \E open \in BOOLEAN : SetWaterInlet(Ui, open)
  \/ WatchFires
  \/ \E b \in Caller : BodySteps(b)
  \/ BodyRestarts
  \/ \E t \in Thread : CraneCall(t)
  \/ CraneRestarts
  \/ CraneOwn /\ UNCHANGED body

SpecWatch == InitWatch /\ [][NextWatch]_<<vars, body>>

\* The crane's deadman thread keeps running; the body and its clients owe nothing
FairWatch ==
  /\ SpecWatch
  /\ WF_<<vars, body>>(DogFires /\ UNCHANGED body)
  /\ WF_<<vars, body>>(CraneCall(Dog))

-----------------------------------------------------------------------------
\* The body's variables are of their types, and the line's user waits for it
WatchTypeOK ==
  /\ ts \in BOOLEAN
  /\ at \in [Caller -> {"idle", "send", "wait", "store"}]
  /\ on \in [Caller -> BOOLEAN]
  /\ user \in Caller \cup {Nobody} /\ conn \in Client
  /\ reply \in {"none", "ok", "err"}
  /\ lost \subseteq {"late_store", "late_request", "restart"}
  /\ \A b \in Caller : at[b] = "wait" <=> user = b

\* An open valve that neither the crane's deadman nor the body's watchdog knows of
\* takes an accident on each side: on the crane's one of the three of WaterValve, on
\* the body's a confirmed close stored over a newer opening, an opening served after
\* its caller had given it up, or a restart (set_water_inlet_ stamps before it sends,
\* 4918-4930; main.cpp:5801-5832)
TwoGuards ==
  valve /\ timer = "off" /\ ~ts =>
    /\ astray # {} \/ \E t \in Thread : Opening(t)
    /\ lost # {}
=============================================================================
