------------------------------ MODULE CraneLink ------------------------------
(***************************************************************************)
(* The body's line to the crane: WashRobot::crane_cmd_ over a TCP_client   *)
(* that reconnects by itself, and the crane's thread per connection.       *)
(*                                                                         *)
(* crane_mtx_ makes the calls a sequence.  A line is sent in one piece and *)
(* received in any pieces, so that it is modelled as its beginning, which  *)
(* tells what it is, and its end.  The broadcasts of the crane (EVT lines) *)
(* come between the replies.  Connections die, are replaced by the         *)
(* reconnect thread under a call that waits, and the crane restarts.       *)
(***************************************************************************)
EXTENDS Naturals, Sequences

CONSTANTS
  MaxCalls,    \* bound: calls of crane_cmd_
  MaxConns,    \* bound: connections opened
  MaxEvents,   \* bound: broadcasts
  MaxFaults    \* bound: connections that die by themselves, and restarts

ASSUME BoundAssumption ==
  /\ MaxCalls \in Nat
  /\ MaxConns \in Nat
  /\ MaxEvents \in Nat
  /\ MaxFaults \in Nat

VARIABLES
  pc,         \* where crane_cmd_ is
  call,       \* the line it sends, by number
  attempt,    \* 0 or 1
  result,     \* what each caller has got
  sock,       \* TCP_client::sock, 0 for INVALID_SOCKET
  connected,  \* TCP_client::connected
  monitor,    \* monitor_running
  seen,       \* reconnectLoop is past its check, not yet in its lock
  rx,         \* crane_rx_buf_
  opened,     \* connections so far
  alive,      \* connections both ends of which are there
  wire,       \* what the crane has sent on a connection and nobody received
  req,        \* lines on their way to the crane
  at,         \* the line that the crane's thread of a connection executes, or 0
  runs,       \* history: how often a line has been executed
  torn,       \* history: crane_cmd_ took for a line what was none
  events, faults

body  == <<pc, call, attempt, result, rx, torn>>
tcp   == <<sock, connected, monitor, seen, opened>>
net   == <<alive, wire, req>>
crane == <<at, runs, events>>
vars  == <<body, tcp, net, crane, faults>>

Calls == 1..MaxCalls
Conns == 1..MaxConns

\* A piece of a line: its beginning, "ok" or "err" for the reply to a call, "evt"
\* for a broadcast, or its end
Piece(part, n) == [part |-> part, of |-> n]
Line(head, n) == <<Piece(head, n), Piece("end", n)>>
Pieces == [part : {"ok", "err", "evt", "end"}, of : 0..MaxCalls]

Init ==
  /\ pc = "idle" /\ call = 0 /\ attempt = 0
  /\ result = [c \in Calls |-> "none"]
  /\ sock = 0 /\ connected = FALSE /\ monitor = FALSE /\ seen = FALSE
  /\ rx = <<>>
  /\ opened = 0
  /\ alive = [k \in Conns |-> FALSE]
  /\ wire = [k \in Conns |-> <<>>]
  /\ req = [k \in Conns |-> <<>>]
  /\ at = [k \in Conns |-> 0]
  /\ runs = [c \in Calls |-> 0]
  /\ torn = FALSE
  /\ events = 0 /\ faults = 0

-----------------------------------------------------------------------------
(***************************************************************************)
(* TCP_client.                                                             *)
(***************************************************************************)
\* The socket in use goes: what is on it for the body is lost
Hangup ==
  /\ alive' = [k \in Conns |-> alive[k] /\ k # sock]
  /\ wire' = [k \in Conns |-> IF k = sock THEN <<>> ELSE wire[k]]
  /\ UNCHANGED req

Close ==
  /\ Hangup
  /\ sock' = 0 /\ connected' = FALSE /\ monitor' = FALSE /\ seen' = FALSE
  /\ UNCHANGED opened

\* A connection is opened, with what has become of the one before in before
Open(before) ==
  /\ opened < MaxConns
  /\ opened' = opened + 1
  /\ sock' = opened + 1
  /\ connected' = TRUE
  /\ alive' = [before EXCEPT ![opened + 1] = TRUE]

\* reconnectLoop looks without the lock ...
Broken == ~(connected /\ sock # 0 /\ (alive[sock] \/ wire[sock] # <<>>))
MonitorSees ==
  /\ monitor /\ ~seen
  /\ Broken
  /\ seen' = TRUE
  /\ UNCHANGED <<body, sock, connected, monitor, opened, net, crane, faults>>

\* ... and then, whatever has become of the socket, closes it and opens another
MonitorSwaps ==
  /\ seen
  /\ seen' = FALSE
  /\ LET hung == [k \in Conns |-> alive[k] /\ k # sock]
     IN  \/ Open(hung)
         \/ sock' = 0 /\ connected' = FALSE /\ alive' = hung /\ UNCHANGED opened
  /\ wire' = [k \in Conns |-> IF k = sock THEN <<>> ELSE wire[k]]
  /\ UNCHANGED <<body, monitor, req, crane, faults>>

-----------------------------------------------------------------------------
(***************************************************************************)
(* crane_cmd_.                                                             *)
(***************************************************************************)
Goto(label) == pc' = label
Return(answer) ==
  /\ Goto("idle")
  /\ result' = [result EXCEPT ![call] = answer]

Ask ==
  /\ pc = "idle"
  /\ call < MaxCalls
  /\ call' = call + 1
  /\ attempt' = 0
  /\ result' = [result EXCEPT ![call + 1] = "waiting"]
  /\ Goto("check")
  /\ UNCHANGED <<rx, torn, tcp, net, crane, faults>>

\* continue: the second attempt begins with a fresh socket, or there is none
RetriesForever == Goto("retry") /\ UNCHANGED result      \* mutant
NextAttempt ==
  IF attempt = 0 THEN Goto("retry") /\ UNCHANGED result ELSE Return("failed")

Retry ==
  /\ pc = "retry"
  /\ Close
  /\ attempt' = 1
  /\ rx' = <<>>
  /\ Goto("check")
  /\ UNCHANGED <<call, result, torn, crane, faults>>

\* crane_connect_if_needed_
Check ==
  /\ pc = "check"
  /\ Goto(IF connected THEN "read" ELSE "connect")
  /\ UNCHANGED <<call, attempt, result, rx, torn, tcp, net, crane, faults>>

Connect ==
  /\ pc = "connect"
  /\ monitor' = TRUE
  /\ \/ Open(alive) /\ Goto("read") /\ UNCHANGED result
     \/ /\ sock' = 0 /\ connected' = FALSE
        /\ NextAttempt
        /\ UNCHANGED <<opened, alive>>
  /\ UNCHANGED <<call, attempt, rx, torn, seen, wire, req, crane, faults>>

\* What has arrived before the command is read ...
ReadAhead ==
  /\ pc = "read"
  /\ connected /\ sock # 0
  /\ \E n \in 1..Len(wire[sock]) :
       /\ rx' = rx \o SubSeq(wire[sock], 1, n)
       /\ wire' = [wire EXCEPT ![sock] = SubSeq(@, n + 1, Len(@))]
  /\ UNCHANGED <<pc, call, attempt, result, torn, tcp, alive, req, crane, faults>>

\* ... and its complete lines are consumed: crane_rx_consume_pending_
NothingPending(buf, n) == n = 0      \* mutant: nothing is consumed
Pending(buf, n) ==        \* the first n pieces are complete lines, the rest is none
  \A i \in 1..Len(buf) : /\ i = n => buf[i].part = "end"
                         /\ i > n => buf[i].part # "end"

Consume ==
  /\ pc = "read"
  /\ \E n \in 0..Len(rx) : Pending(rx, n) /\ rx' = SubSeq(rx, n + 1, Len(rx))
  /\ Goto("send")
  /\ UNCHANGED <<call, attempt, result, torn, tcp, net, crane, faults>>

\* sendData: drops what has arrived meanwhile, then sends.  On a connection that
\* is gone the line is lost, or the send fails and nothing has been transmitted.
Send ==
  /\ pc = "send"
  /\ connected /\ sock # 0
  /\ \E n \in 0..Len(wire[sock]) :
       wire' = [wire EXCEPT ![sock] = SubSeq(@, n + 1, Len(@))]
  /\ req' = [req EXCEPT ![sock] = IF alive[sock] THEN Append(@, call) ELSE @]
  /\ Goto("wait")
  /\ UNCHANGED <<call, attempt, result, rx, torn, tcp, alive, crane, faults>>

SendFails ==
  /\ pc = "send"
  /\ ~(connected /\ sock # 0 /\ alive[sock])
  /\ connected' = FALSE
  /\ NextAttempt
  /\ UNCHANGED <<call, attempt, rx, torn, sock, monitor, seen, opened, net, crane, faults>>

\* A piece arrives.  The end of a line makes it an EVT to be handled or the
\* reply, with which the rest of what was received stays in the buffer.
Whole(line) ==
  /\ Len(line) = 2
  /\ line[1].part # "end"
  /\ line[1].of = line[2].of

Receive ==
  /\ pc = "wait"
  /\ connected /\ sock # 0
  /\ wire[sock] # <<>>
  /\ LET line == Append(rx, Head(wire[sock]))
         rest == Tail(wire[sock])
         take(n) == wire' = [wire EXCEPT ![sock] = SubSeq(rest, n + 1, Len(rest))]
     IN  \/ /\ Head(wire[sock]).part # "end"
            /\ rx' = line
            /\ take(0)
            /\ UNCHANGED <<pc, result, torn>>
         \/ /\ Head(wire[sock]).part = "end"
            /\ torn' = (torn \/ ~Whole(line))
            /\ IF line[1].part = "evt"
               THEN rx' = <<>> /\ take(0) /\ UNCHANGED <<pc, result>>
               ELSE /\ \E n \in 0..Len(rest) :
                         rx' = SubSeq(rest, 1, n) /\ take(n)
                    /\ Return(IF line[1].part # "ok" THEN "failed"
                              ELSE IF line[1].of = call THEN "ok"
                              ELSE "foreign")
  /\ UNCHANGED <<call, attempt, tcp, alive, req, crane, faults>>

\* recv sees that the crane has closed; the wait goes on
ReceiveEof ==
  /\ pc = "wait"
  /\ connected /\ sock # 0
  /\ ~alive[sock] /\ wire[sock] = <<>>
  /\ connected' = FALSE
  /\ UNCHANGED <<body, sock, monitor, seen, opened, net, crane, faults>>

\* The deadline: the line has been sent and is not sent again
TimeoutResends ==      \* mutant: the second attempt also after a timeout
  /\ pc = "wait"
  /\ NextAttempt
  /\ UNCHANGED <<call, attempt, rx, torn, tcp, net, crane, faults>>

TimeoutKeeps ==      \* mutant: the socket stays open
  /\ pc = "wait"
  /\ rx' = <<>>
  /\ Return("failed")
  /\ UNCHANGED <<call, attempt, torn, tcp, net, crane, faults>>

Timeout ==
  /\ pc = "wait"
  /\ Close
  /\ rx' = <<>>
  /\ Return("failed")
  /\ UNCHANGED <<call, attempt, torn, crane, faults>>

-----------------------------------------------------------------------------
(***************************************************************************)
(* The crane: on_receive and dispatch in the thread of a connection, which *)
(* outlives the connection while it executes, and broadcast_evt.           *)
(***************************************************************************)
Execute(k) ==
  /\ at[k] = 0
  /\ req[k] # <<>>
  /\ at' = [at EXCEPT ![k] = Head(req[k])]
  /\ req' = [req EXCEPT ![k] = Tail(@)]
  /\ runs' = [runs EXCEPT ![Head(req[k])] = @ + 1]
  /\ UNCHANGED <<body, tcp, alive, wire, events, faults>>

Reply(k) ==
  /\ at[k] # 0
  /\ at' = [at EXCEPT ![k] = 0]
  /\ \E head \in {"ok", "err"} :
       wire' = [wire EXCEPT ![k] = IF alive[k] THEN @ \o Line(head, at[k]) ELSE @]
  /\ UNCHANGED <<body, tcp, alive, req, runs, events, faults>>

Broadcast ==
  /\ events < MaxEvents
  /\ events' = events + 1
  /\ wire' = [k \in Conns |-> IF alive[k] THEN wire[k] \o Line("evt", 0) ELSE wire[k]]
  /\ UNCHANGED <<body, tcp, alive, req, at, runs, faults>>

(***************************************************************************)
(* The network: a connection dies, with what is on it or not; what a dead  *)
(* one carried to the crane may be lost.                                   *)
(***************************************************************************)
Dies(k) ==
  /\ alive[k]
  /\ faults < MaxFaults
  /\ faults' = faults + 1
  /\ alive' = [alive EXCEPT ![k] = FALSE]
  /\ wire' \in {wire, [wire EXCEPT ![k] = <<>>]}
  /\ UNCHANGED <<body, tcp, req, crane>>

RequestsLost(k) ==
  /\ ~alive[k]
  /\ req[k] # <<>>
  /\ req' = [req EXCEPT ![k] = <<>>]
  /\ UNCHANGED <<body, tcp, alive, wire, crane, faults>>

CraneRestarts ==
  /\ faults < MaxFaults
  /\ faults' = faults + 1
  /\ alive' = [k \in Conns |-> FALSE]
  /\ req' = [k \in Conns |-> <<>>]
  /\ at' = [k \in Conns |-> 0]
  /\ UNCHANGED <<body, tcp, wire, runs, events>>

-----------------------------------------------------------------------------
CraneCmd ==
  \/ Retry \/ Check \/ Connect \/ ReadAhead \/ Consume
  \/ Send \/ SendFails \/ Receive \/ Timeout

Next ==
  \/ Ask \/ CraneCmd \/ ReceiveEof
  \/ MonitorSees \/ MonitorSwaps
  \/ Broadcast \/ CraneRestarts
  \/ \E k \in Conns : Execute(k) \/ Reply(k) \/ Dies(k) \/ RequestsLost(k)

Spec == Init /\ [][Next]_vars

\* The caller's thread runs on; every wait of it ends at a deadline
FairSpec == Spec /\ WF_vars(CraneCmd)

-----------------------------------------------------------------------------
BodyOK ==
  /\ pc \in {"idle", "retry", "check", "connect", "read", "send", "wait"}
  /\ call \in 0..MaxCalls
  /\ attempt \in {0, 1}
  /\ result \in [Calls -> {"none", "waiting", "ok", "failed", "foreign"}]
  /\ rx \in Seq(Pieces)
  /\ torn \in BOOLEAN
  /\ pc \in {"send", "wait"} => \A i \in 1..Len(rx) : rx[i].part # "end"

TcpOK ==
  /\ sock \in 0..MaxConns
  /\ opened \in 0..MaxConns
  /\ connected \in BOOLEAN /\ monitor \in BOOLEAN /\ seen \in BOOLEAN

NetOK ==
  /\ alive \in [Conns -> BOOLEAN]
  /\ wire \in [Conns -> Seq(Pieces)]
  /\ req \in [Conns -> Seq(Calls)]

CraneOK ==
  /\ at \in [Conns -> 0..MaxCalls]
  /\ runs \in [Calls -> Nat]
  /\ events \in 0..MaxEvents

\* Every variable is of its type; and when a line has been sent, the buffer holds
\* no complete line, one that was there before is never taken for the reply
TypeOK == BodyOK /\ TcpOK /\ NetOK /\ CraneOK /\ faults \in 0..MaxFaults

\* What a caller may rely on: an OK that is another line's counts as a failure here
Promise == INSTANCE CraneCall WITH
  result <- [c \in Calls |-> IF result[c] = "foreign" THEN "failed" ELSE result[c]]

\* crane_cmd_ keeps what it promises: no line runs twice and an own OK means that
\* it ran, however sends fail, connections change under a call and replies come
\* late (crane_cmd_, WASH_ROBOT.cpp:752-886)
KeepsPromise == Promise!Spec

\* ... and every caller is answered: no attempt and no wait goes on for ever
EveryCallAnswered == Promise!Answered

\* The OK of an earlier line is taken for a later one's only after crane_cmd_ has
\* taken torn pieces for a line: otherwise the socket that is closed at a timeout,
\* and the lines read ahead, keep late replies away (crane_rx_consume_pending_,
\* WASH_ROBOT.cpp:888-905)
ForeignOnlyIfTorn == (\E c \in Calls : result[c] = "foreign") => torn
=============================================================================
