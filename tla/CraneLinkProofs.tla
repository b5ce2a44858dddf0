-------------------------- MODULE CraneLinkProofs ----------------------------
(***************************************************************************)
(* CraneLink for any number of calls, connections, broadcasts and faults:  *)
(* its types, that it implements CraneCall, and that an OK is taken for    *)
(* another call's only after a torn line.                                  *)
(***************************************************************************)
EXTENDS CraneLink, TLAPS

-----------------------------------------------------------------------------
(***************************************************************************)
(* Types.                                                                  *)
(***************************************************************************)
\* What is left of a sequence after its first pieces, and what these are
LEMMA Cut ==
  ASSUME NEW S, NEW s \in Seq(S), NEW n \in 0..Len(s)
  PROVE  /\ SubSeq(s, 1, n) \in Seq(S)
         /\ Len(SubSeq(s, 1, n)) = n
         /\ \A i \in 1..n : SubSeq(s, 1, n)[i] = s[i]
         /\ SubSeq(s, n + 1, Len(s)) \in Seq(S)
         /\ Len(SubSeq(s, n + 1, Len(s))) = Len(s) - n
         /\ \A i \in 1..(Len(s) - n) : SubSeq(s, n + 1, Len(s))[i] = s[n + i]
  OBVIOUS

\* ... and of two sequences put together
LEMMA Glue ==
  ASSUME NEW S, NEW s \in Seq(S), NEW t \in Seq(S), NEW w, w = s \o t, NEW i \in 1..Len(w)
  PROVE  \/ i \in 1..Len(s) /\ w[i] = s[i]
         \/ i - Len(s) \in 1..Len(t) /\ w[i] = t[i - Len(s)]
  OBVIOUS

\* What the crane sends is pieces
LEMMA LineType ==
  ASSUME NEW head \in {"ok", "err", "evt"}, NEW n \in 0..MaxCalls
  PROVE  Line(head, n) \in Seq(Pieces)
  BY DEF Line, Piece, Pieces

\* The parts of the type invariant that a step leaves alone
LEMMA Untouched ==
  ASSUME TypeOK
  PROVE  /\ UNCHANGED body => BodyOK'
         /\ UNCHANGED tcp => TcpOK'
         /\ UNCHANGED net => NetOK'
         /\ UNCHANGED crane => CraneOK'
         /\ UNCHANGED faults => (faults \in 0..MaxFaults)'
  BY DEF TypeOK, BodyOK, TcpOK, NetOK, CraneOK, body, tcp, net, crane

\* What a call may be answered
Answers == {"ok", "failed", "foreign"}

\* A call that ends keeps the types of its body, if what it leaves in the buffer is pieces
LEMMA ReturnType ==
  ASSUME BodyOK, NEW answer \in Answers, Return(answer),
         call' = call, attempt' \in {0, 1}, rx' \in Seq(Pieces), torn' \in BOOLEAN
  PROVE  BodyOK'
<1>1. result' \in [Calls -> {"none", "waiting", "ok", "failed", "foreign"}]
  BY DEF Return, BodyOK, Answers
<1>2. pc' = "idle"
  BY DEF Return, Goto
<1> QED
  BY <1>1, <1>2 DEF BodyOK

\* A failed attempt that leaves the buffer alone keeps the types of the body
LEMMA NextAttemptType ==
  ASSUME BodyOK, NextAttempt, UNCHANGED <<call, attempt, rx, torn>>
  PROVE  BodyOK'
<1>1. CASE attempt = 0
  BY <1>1 DEF NextAttempt, Goto, BodyOK
<1>2. CASE attempt # 0
  <2>1. Return("failed") /\ "failed" \in Answers
    BY <1>2 DEF NextAttempt, Answers
  <2>2. rx' \in Seq(Pieces) /\ torn' \in BOOLEAN /\ attempt' \in {0, 1}
    BY DEF BodyOK
  <2> QED
    BY <2>1, <2>2, ReturnType
<1> QED
  BY <1>1, <1>2

\* The socket that goes, and the one that comes, keep theirs
LEMMA CloseType ==
  ASSUME TcpOK, NetOK, Close
  PROVE  TcpOK' /\ NetOK'
<1>0. FALSE \in BOOLEAN
  OBVIOUS
<1>1. TcpOK'
  <2>1. sock' \in 0..MaxConns /\ opened' \in 0..MaxConns
    BY BoundAssumption DEF TcpOK, Close
  <2>2. connected' \in BOOLEAN /\ monitor' \in BOOLEAN /\ seen' \in BOOLEAN
    BY <1>0, Zenon DEF Close
  <2> QED
    BY <2>1, <2>2 DEF TcpOK
<1>2. alive' \in [Conns -> BOOLEAN]
  BY DEF Close, Hangup, NetOK
<1>3. wire' \in [Conns -> Seq(Pieces)]
  BY DEF Close, Hangup, NetOK
<1> QED
  BY <1>1, <1>2, <1>3 DEF NetOK, Close, Hangup

LEMMA OpenType ==
  ASSUME TcpOK, NEW before \in [Conns -> BOOLEAN], Open(before)
  PROVE  /\ sock' \in 0..MaxConns /\ opened' \in 0..MaxConns /\ connected' \in BOOLEAN
         /\ alive' \in [Conns -> BOOLEAN]
  BY BoundAssumption DEF TcpOK, Open, Conns

\* A call that is under way has a number
Numbered == pc # "idle" => call \in Calls

TypeInv == TypeOK /\ Numbered

\* The first state has the types
LEMMA TypeInit == Init => TypeInv
<1> SUFFICES ASSUME Init
             PROVE  TypeInv
  OBVIOUS
<1>b. MaxCalls \in Nat /\ MaxConns \in Nat /\ MaxEvents \in Nat /\ MaxFaults \in Nat
  BY BoundAssumption
<1>c. FALSE \in BOOLEAN
  OBVIOUS
<1>1. BodyOK
  <2>1. result \in [Calls -> {"none", "waiting", "ok", "failed", "foreign"}]
    BY DEF Init
  <2>2. rx \in Seq(Pieces)
    BY DEF Init
  <2>3. torn \in BOOLEAN
    BY <1>c, Zenon DEF Init
  <2> QED
    BY <1>b, <2>1, <2>2, <2>3 DEF Init, BodyOK
<1>2. TcpOK
  <2>1. sock \in 0..MaxConns /\ opened \in 0..MaxConns
    BY <1>b DEF Init
  <2>2. connected \in BOOLEAN /\ monitor \in BOOLEAN /\ seen \in BOOLEAN
    BY <1>c, Zenon DEF Init
  <2> QED
    BY <2>1, <2>2 DEF TcpOK
<1>3. NetOK
  BY DEF Init, NetOK
<1>4. at \in [Conns -> 0..MaxCalls]
  BY <1>b DEF Init
<1>5. runs \in [Calls -> Nat]
  BY DEF Init
<1>6. events \in 0..MaxEvents /\ faults \in 0..MaxFaults
  BY <1>b DEF Init
<1> QED
  BY <1>1, <1>2, <1>3, <1>4, <1>5, <1>6 DEF Init, TypeInv, TypeOK, CraneOK, Numbered

\* A call keeps its number
LEMMA NumberedStep ==
  ASSUME TypeInv, [Next]_vars
  PROVE  Numbered'
<1>1. CASE Ask
  BY <1>1, BoundAssumption DEF Ask, TypeInv, TypeOK, BodyOK, Numbered, Calls
<1>2. CASE CraneCmd
  <2>1. call' = call /\ pc # "idle"
    BY <1>2 DEF CraneCmd, Retry, Check, Connect, ReadAhead, Consume, Send, SendFails,
                Receive, Timeout
  <2> QED
    BY <2>1 DEF TypeInv, Numbered
<1>3. CASE UNCHANGED body
  BY <1>3 DEF body, TypeInv, Numbered
<1> QED
  BY <1>1, <1>2, <1>3 DEF Next, ReceiveEof, MonitorSees, MonitorSwaps, Broadcast,
     CraneRestarts, Execute, Reply, Dies, RequestsLost, vars

\* Every step keeps the types
LEMMA TypeStep == TypeInv /\ [Next]_vars => TypeInv'
<1> SUFFICES ASSUME TypeInv, [Next]_vars
             PROVE  TypeOK'
  BY NumberedStep DEF TypeInv
<1>0. TypeOK
  BY DEF TypeInv
<1>a. BodyOK /\ TcpOK /\ NetOK /\ CraneOK /\ faults \in 0..MaxFaults
  BY <1>0 DEF TypeOK
<1>b. MaxCalls \in Nat /\ MaxConns \in Nat /\ MaxEvents \in Nat /\ MaxFaults \in Nat
  BY BoundAssumption
<1>c. <<>> \in Seq(Pieces)
  OBVIOUS
<1>d. FALSE \in BOOLEAN /\ TRUE \in BOOLEAN
  OBVIOUS
<1>1. CASE Ask
  <2>1. result' \in [Calls -> {"none", "waiting", "ok", "failed", "foreign"}]
    BY <1>1, <1>a DEF Ask, BodyOK
  <2>2. BodyOK'
    BY <1>1, <1>a, <1>b, <2>1 DEF Ask, Goto, BodyOK
  <2> QED
    BY <1>0, <1>1, <2>2, Untouched DEF Ask, TypeOK
<1>2. CASE Retry
  <2>1. BodyOK'
    BY <1>2, <1>a, <1>c DEF Retry, Goto, BodyOK
  <2> QED
    BY <1>0, <1>2, <1>a, <2>1, CloseType, Untouched DEF Retry, TypeOK
<1>3. CASE Check
  <2>1. BodyOK'
    BY <1>3, <1>a DEF Check, Goto, BodyOK
  <2> QED
    BY <1>0, <1>3, <2>1, Untouched DEF Check, TypeOK
<1>4. CASE Connect
  <2>1. CASE Open(alive) /\ Goto("read") /\ UNCHANGED result
    <3>1. BodyOK'
      BY <1>4, <1>a, <2>1 DEF Connect, Goto, BodyOK
    <3>2. TcpOK'
      BY <1>4, <1>a, <2>1, OpenType DEF Connect, TcpOK, NetOK
    <3>3. NetOK'
      BY <1>4, <1>a, <2>1, OpenType DEF Connect, NetOK
    <3> QED
      BY <1>0, <1>4, <3>1, <3>2, <3>3, Untouched DEF Connect, TypeOK
  <2>2. CASE sock' = 0 /\ connected' = FALSE /\ NextAttempt /\ UNCHANGED <<opened, alive>>
    <3>1. BodyOK'
      BY <1>4, <1>a, <2>2, NextAttemptType DEF Connect
    <3>2. TcpOK'
      <4>1. sock' \in 0..MaxConns /\ opened' \in 0..MaxConns
        BY <1>4, <1>a, <1>b, <2>2 DEF Connect, TcpOK
      <4>2. connected' \in BOOLEAN /\ monitor' \in BOOLEAN /\ seen' \in BOOLEAN
        BY <1>4, <1>a, <1>d, <2>2, Zenon DEF Connect, TcpOK
      <4> QED
        BY <4>1, <4>2 DEF TcpOK
    <3>3. NetOK'
      BY <1>4, <1>a, <2>2 DEF Connect, NetOK
    <3> QED
      BY <1>0, <1>4, <3>1, <3>2, <3>3, Untouched DEF Connect, TypeOK
  <2> QED
    BY <1>4, <2>1, <2>2 DEF Connect
<1>5. CASE ReadAhead
  <2> PICK n \in 1..Len(wire[sock]) :
         /\ rx' = rx \o SubSeq(wire[sock], 1, n)
         /\ wire' = [wire EXCEPT ![sock] = SubSeq(@, n + 1, Len(@))]
    BY <1>5 DEF ReadAhead
  <2>1. sock \in Conns
    BY <1>5, <1>a, <1>b DEF ReadAhead, TcpOK, Conns
  <2>2. wire[sock] \in Seq(Pieces)
    BY <2>1, <1>a DEF NetOK
  <2>3. n \in 0..Len(wire[sock])
    BY <2>2
  <2>4. /\ SubSeq(wire[sock], 1, n) \in Seq(Pieces)
        /\ SubSeq(wire[sock], n + 1, Len(wire[sock])) \in Seq(Pieces)
    BY <2>2, <2>3, Cut
  <2>5. rx' \in Seq(Pieces)
    BY <1>a, <2>4 DEF BodyOK
  <2>6. BodyOK'
    BY <1>5, <1>a, <2>5 DEF ReadAhead, BodyOK
  <2>7. NetOK'
    BY <1>5, <1>a, <2>4 DEF ReadAhead, NetOK
  <2> QED
    BY <1>0, <1>5, <2>6, <2>7, Untouched DEF ReadAhead, TypeOK, tcp
<1>6. CASE Consume
  <2> PICK n \in 0..Len(rx) : Pending(rx, n) /\ rx' = SubSeq(rx, n + 1, Len(rx))
    BY <1>6 DEF Consume
  <2>1. rx \in Seq(Pieces)
    BY <1>a DEF BodyOK
  <2>2. /\ rx' \in Seq(Pieces)
        /\ Len(rx') = Len(rx) - n
        /\ \A i \in 1..(Len(rx) - n) : rx'[i] = rx[n + i]
    BY <2>1, Cut
  <2>3. ASSUME NEW i \in 1..Len(rx')
        PROVE  rx'[i].part # "end"
    <3>1. rx'[i] = rx[n + i] /\ n + i \in 1..Len(rx) /\ n + i > n
      BY <2>1, <2>2
    <3> QED
      BY <3>1 DEF Pending
  <2>4. BodyOK'
    BY <1>6, <1>a, <2>2, <2>3 DEF Consume, Goto, BodyOK
  <2> QED
    BY <1>0, <1>6, <2>4, Untouched DEF Consume, TypeOK
<1>7. CASE Send
  <2> PICK n \in 0..Len(wire[sock]) :
         wire' = [wire EXCEPT ![sock] = SubSeq(@, n + 1, Len(@))]
    BY <1>7 DEF Send
  <2>1. sock \in Conns
    BY <1>7, <1>a, <1>b DEF Send, TcpOK, Conns
  <2>2. wire[sock] \in Seq(Pieces)
    BY <2>1, <1>a DEF NetOK
  <2>3. SubSeq(wire[sock], n + 1, Len(wire[sock])) \in Seq(Pieces)
    BY <2>2, Cut
  <2>4. wire' \in [Conns -> Seq(Pieces)]
    BY <2>1, <2>3, <1>a DEF NetOK
  <2>5. call \in Calls
    BY <1>7 DEF Send, TypeInv, Numbered
  <2>6. Append(req[sock], call) \in Seq(Calls)
    BY <2>1, <2>5, <1>a DEF NetOK
  <2>7. req' \in [Conns -> Seq(Calls)]
    BY <1>7, <2>1, <2>6, <1>a DEF Send, NetOK
  <2>8. BodyOK'
    BY <1>7, <1>a DEF Send, Goto, BodyOK
  <2> QED
    BY <1>0, <1>7, <1>a, <2>4, <2>7, <2>8, Untouched DEF Send, TypeOK, NetOK
<1>8. CASE SendFails
  <2>1. BodyOK'
    BY <1>8, <1>a, NextAttemptType DEF SendFails
  <2>2. TcpOK'
    BY <1>8, <1>a DEF SendFails, TcpOK
  <2> QED
    BY <1>0, <1>8, <2>1, <2>2, Untouched DEF SendFails, TypeOK
<1>9. CASE Receive
  <2> DEFINE line == Append(rx, Head(wire[sock]))
             rest == Tail(wire[sock])
  <2>1. sock \in Conns
    BY <1>9, <1>a, <1>b DEF Receive, TcpOK, Conns
  <2>2. wire[sock] \in Seq(Pieces) /\ wire[sock] # <<>> /\ rx \in Seq(Pieces)
    BY <1>9, <2>1, <1>a DEF Receive, NetOK, BodyOK
  <2>3. Head(wire[sock]) \in Pieces /\ rest \in Seq(Pieces)
    BY <2>2
  <2>4. /\ line \in Seq(Pieces)
        /\ Len(line) = Len(rx) + 1
        /\ \A i \in 1..Len(rx) : line[i] = rx[i]
        /\ line[Len(rx) + 1] = Head(wire[sock])
    BY <2>2, <2>3
  <2>5. \A n \in 0..Len(rest) : /\ SubSeq(rest, 1, n) \in Seq(Pieces)
                                /\ SubSeq(rest, n + 1, Len(rest)) \in Seq(Pieces)
    BY <2>3, Cut
  <2>6. 0 \in 0..Len(rest)
    BY <2>3
  <2> HIDE DEF line, rest
  <2>7. ASSUME NEW n \in 0..Len(rest),
               wire' = [wire EXCEPT ![sock] = SubSeq(rest, n + 1, Len(rest))]
        PROVE  NetOK'
    BY <1>9, <1>a, <2>5, <2>7 DEF Receive, NetOK
  <2>8. CASE /\ Head(wire[sock]).part # "end"
             /\ rx' = line
             /\ wire' = [wire EXCEPT ![sock] = SubSeq(rest, 0 + 1, Len(rest))]
             /\ UNCHANGED <<pc, result, torn>>
    <3>0. pc = "wait" /\ \A i \in 1..Len(rx) : rx[i].part # "end"
      BY <1>9, <1>a DEF Receive, BodyOK
    <3>1. ASSUME NEW i \in 1..Len(line)
          PROVE  line[i].part # "end"
      <4>1. i \in 1..Len(rx) \/ i = Len(rx) + 1
        BY <2>2, <2>4
      <4> QED
        BY <2>4, <2>8, <3>0, <4>1
    <3>2. BodyOK'
      BY <1>9, <1>a, <2>4, <2>8, <3>1 DEF Receive, BodyOK
    <3> QED
      BY <1>0, <1>9, <2>6, <2>7, <2>8, <3>2, Untouched DEF Receive, TypeOK
  <2>9. CASE /\ torn' = (torn \/ ~Whole(line))
             /\ rx' = <<>>
             /\ wire' = [wire EXCEPT ![sock] = SubSeq(rest, 0 + 1, Len(rest))]
             /\ UNCHANGED <<pc, result>>
    <3>1. torn' \in BOOLEAN
      BY <1>a, <2>9 DEF BodyOK, Whole
    <3>2. BodyOK'
      BY <1>9, <1>a, <1>c, <2>9, <3>1 DEF Receive, BodyOK
    <3> QED
      BY <1>0, <1>9, <2>6, <2>7, <2>9, <3>2, Untouched DEF Receive, TypeOK
  <2>10. CASE /\ torn' = (torn \/ ~Whole(line))
              /\ \E n \in 0..Len(rest) :
                   /\ rx' = SubSeq(rest, 1, n)
                   /\ wire' = [wire EXCEPT ![sock] = SubSeq(rest, n + 1, Len(rest))]
              /\ \E answer \in Answers : Return(answer)
    <3> PICK n \in 0..Len(rest) :
           /\ rx' = SubSeq(rest, 1, n)
           /\ wire' = [wire EXCEPT ![sock] = SubSeq(rest, n + 1, Len(rest))]
      BY <2>10
    <3>1. torn' \in BOOLEAN
      BY <1>a, <2>10 DEF BodyOK, Whole
    <3>2. rx' \in Seq(Pieces)
      BY <2>5
    <3>3. attempt' \in {0, 1} /\ call' = call
      BY <1>9, <1>a DEF Receive, BodyOK
    <3>4. BodyOK'
      BY <1>a, <2>10, <3>1, <3>2, <3>3, ReturnType
    <3> QED
      BY <1>0, <1>9, <2>7, <3>4, Untouched DEF Receive, TypeOK
  <2> QED
    BY <1>9, <2>8, <2>9, <2>10 DEF Receive, Answers, line, rest
<1>10. CASE ReceiveEof
  <2>1. TcpOK'
    BY <1>10, <1>a DEF ReceiveEof, TcpOK
  <2> QED
    BY <1>0, <1>10, <2>1, Untouched DEF ReceiveEof, TypeOK
<1>11. CASE Timeout
  <2>1. BodyOK'
    <3>1. Return("failed") /\ "failed" \in Answers
      BY <1>11 DEF Timeout, Answers
    <3>2. rx' \in Seq(Pieces) /\ torn' \in BOOLEAN /\ attempt' \in {0, 1} /\ call' = call
      BY <1>11, <1>a DEF Timeout, BodyOK
    <3> QED
      BY <1>a, <3>1, <3>2, ReturnType
  <2> QED
    BY <1>0, <1>11, <1>a, <2>1, CloseType, Untouched DEF Timeout, TypeOK
<1>12. CASE MonitorSees
  <2>1. TcpOK'
    BY <1>12, <1>a DEF MonitorSees, TcpOK
  <2> QED
    BY <1>0, <1>12, <2>1, Untouched DEF MonitorSees, TypeOK
<1>13. CASE MonitorSwaps
  <2> DEFINE hung == [k \in Conns |-> alive[k] /\ k # sock]
  <2>1. hung \in [Conns -> BOOLEAN]
    OBVIOUS
  <2>2. wire' \in [Conns -> Seq(Pieces)] /\ req' \in [Conns -> Seq(Calls)]
    BY <1>13, <1>a DEF MonitorSwaps, NetOK
  <2>3. CASE Open(hung)
    BY <1>0, <1>13, <1>a, <2>1, <2>2, <2>3, OpenType, Untouched
       DEF MonitorSwaps, TypeOK, TcpOK, NetOK
  <2>4. CASE sock' = 0 /\ connected' = FALSE /\ alive' = hung /\ UNCHANGED opened
    <3>1. sock' \in 0..MaxConns /\ opened' \in 0..MaxConns
      BY <1>13, <1>a, <1>b, <2>4 DEF MonitorSwaps, TcpOK
    <3>2. connected' \in BOOLEAN /\ monitor' \in BOOLEAN /\ seen' \in BOOLEAN
      BY <1>13, <1>a, <1>d, <2>4, Zenon DEF MonitorSwaps, TcpOK
    <3>3. TcpOK'
      BY <3>1, <3>2 DEF TcpOK
    <3>4. NetOK'
      BY <2>1, <2>2, <2>4 DEF NetOK
    <3> QED
      BY <1>0, <1>13, <3>3, <3>4, Untouched DEF MonitorSwaps, TypeOK
  <2> QED
    BY <1>13, <2>3, <2>4 DEF MonitorSwaps
<1>14. ASSUME NEW k \in Conns, Execute(k)
       PROVE  TypeOK'
  <2>1. Head(req[k]) \in Calls /\ Tail(req[k]) \in Seq(Calls)
    BY <1>14, <1>a DEF Execute, NetOK
  <2>2. NetOK'
    BY <1>14, <1>a, <2>1 DEF Execute, NetOK
  <2>3. Head(req[k]) \in 0..MaxCalls
    BY <1>b, <2>1 DEF Calls
  <2>4. at' \in [Conns -> 0..MaxCalls]
    BY <1>14, <1>a, <2>3 DEF Execute, CraneOK
  <2>5. runs' \in [Calls -> Nat]
    BY <1>14, <1>a, <2>1 DEF Execute, CraneOK
  <2>6. CraneOK'
    BY <1>14, <1>a, <2>4, <2>5 DEF Execute, CraneOK
  <2> QED
    BY <1>0, <1>14, <2>2, <2>6, Untouched DEF Execute, TypeOK
<1>15. ASSUME NEW k \in Conns, Reply(k)
       PROVE  TypeOK'
  <2> PICK head \in {"ok", "err"} :
         wire' = [wire EXCEPT ![k] = IF alive[k] THEN @ \o Line(head, at[k]) ELSE @]
    BY <1>15 DEF Reply
  <2>1. Line(head, at[k]) \in Seq(Pieces)
    BY <1>a, LineType DEF CraneOK
  <2>2. wire' \in [Conns -> Seq(Pieces)]
    BY <1>a, <2>1 DEF NetOK
  <2>3. NetOK'
    BY <1>15, <1>a, <2>2 DEF Reply, NetOK
  <2>4. CraneOK'
    BY <1>15, <1>a, <1>b DEF Reply, CraneOK
  <2> QED
    BY <1>0, <1>15, <2>3, <2>4, Untouched DEF Reply, TypeOK
<1>16. CASE Broadcast
  <2>1. Line("evt", 0) \in Seq(Pieces)
    BY <1>b, LineType
  <2>2. wire' \in [Conns -> Seq(Pieces)]
    BY <1>16, <1>a, <2>1 DEF Broadcast, NetOK
  <2>3. NetOK'
    BY <1>16, <1>a, <2>2 DEF Broadcast, NetOK
  <2>4. CraneOK'
    BY <1>16, <1>a, <1>b DEF Broadcast, CraneOK
  <2> QED
    BY <1>0, <1>16, <2>3, <2>4, Untouched DEF Broadcast, TypeOK
<1>17. ASSUME NEW k \in Conns, Dies(k)
       PROVE  TypeOK'
  <2>1. alive' \in [Conns -> BOOLEAN]
    BY <1>17, <1>a DEF Dies, NetOK
  <2>2. wire' \in [Conns -> Seq(Pieces)]
    <3>1. CASE wire' = wire
      BY <1>a, <3>1 DEF NetOK
    <3>2. CASE wire' = [wire EXCEPT ![k] = <<>>]
      BY <1>a, <1>c, <3>2 DEF NetOK
    <3> QED
      BY <1>17, <3>1, <3>2 DEF Dies
  <2>3. NetOK'
    BY <1>17, <1>a, <2>1, <2>2 DEF Dies, NetOK
  <2>4. (faults \in 0..MaxFaults)'
    BY <1>17, <1>a, <1>b DEF Dies
  <2> QED
    BY <1>0, <1>17, <2>3, <2>4, Untouched DEF Dies, TypeOK
<1>18. ASSUME NEW k \in Conns, RequestsLost(k)
       PROVE  TypeOK'
  <2>1. NetOK'
    BY <1>18, <1>a DEF RequestsLost, NetOK
  <2> QED
    BY <1>0, <1>18, <2>1, Untouched DEF RequestsLost, TypeOK
<1>19. CASE CraneRestarts
  <2>1. NetOK'
    BY <1>19, <1>a DEF CraneRestarts, NetOK
  <2>2. at' \in [Conns -> 0..MaxCalls]
    BY <1>19, <1>b DEF CraneRestarts
  <2>3. CraneOK'
    BY <1>19, <1>a, <2>2 DEF CraneRestarts, CraneOK
  <2>4. (faults \in 0..MaxFaults)'
    BY <1>19, <1>a, <1>b DEF CraneRestarts
  <2> QED
    BY <1>0, <1>19, <2>1, <2>3, <2>4, Untouched DEF CraneRestarts, TypeOK
<1>20. CASE UNCHANGED vars
  BY <1>0, <1>20, Untouched DEF vars, TypeOK
<1> QED
  BY <1>1, <1>2, <1>3, <1>4, <1>5, <1>6, <1>7, <1>8, <1>9, <1>10, <1>11, <1>12, <1>13,
     <1>14, <1>15, <1>16, <1>17, <1>18, <1>19, <1>20 DEF Next, CraneCmd

\* Every variable is of its type, and no complete line is left in the buffer when a
\* line has been sent (crane_rx_consume_pending_, WASH_ROBOT.cpp:888-905)
THEOREM TypeCorrect == Spec => []TypeOK
<1>1. TypeInv => TypeOK
  BY DEF TypeInv
<1> QED
  BY <1>1, TypeInit, TypeStep, PTL DEF Spec

\* ... with the calls numbered
LEMMA TypeInvariant == Spec => []TypeInv
  BY TypeInit, TypeStep, PTL DEF Spec

-----------------------------------------------------------------------------
(***************************************************************************)
(* CraneLink implements CraneCall.  Calls are numbered in their order, a   *)
(* line is in one place until it runs, and where it has run is recorded    *)
(* wherever an OK for it is on its way.                                    *)
(***************************************************************************)
\* The line of the call has not been sent
Unsent == {"retry", "check", "connect", "read", "send"}

\* Calls are asked in order, and the one under way waits
CallsInOrder ==
  /\ \A c \in Calls : c > call => result[c] = "none" /\ runs[c] = 0
  /\ \A c \in Calls : c <= call => result[c] # "none"
  /\ pc # "idle" => result[call] = "waiting"
  /\ pc \in Unsent => runs[call] = 0

\* A line on its way has been asked, was sent once and has not run
LinesOnce ==
  /\ \A k \in Conns : \A i \in 1..Len(req[k]) :
       /\ req[k][i] <= call
       /\ runs[req[k][i]] = 0
       /\ pc \in Unsent => req[k][i] # call
  /\ \A k, l \in Conns : \A i \in 1..Len(req[k]) : \A j \in 1..Len(req[l]) :
       req[k][i] = req[l][j] => k = l /\ i = j

\* What is executed has run once, and so has what an OK is on its way for
Ran(piece) == piece.part = "ok" => piece.of \in Calls /\ runs[piece.of] = 1
OksRan ==
  /\ \A k \in Conns : at[k] # 0 => runs[at[k]] = 1
  /\ \A k \in Conns : \A i \in 1..Len(wire[k]) : Ran(wire[k][i])
  /\ \A i \in 1..Len(rx) : Ran(rx[i])

PromiseInv == TypeInv /\ CallsInOrder /\ LinesOnce /\ OksRan

LEMMA PromiseInit == Init => CallsInOrder /\ LinesOnce /\ OksRan
  BY BoundAssumption DEF Init, CallsInOrder, LinesOnce, OksRan, Ran, Unsent, Calls, Conns

\* The reply that a caller gets as its own OK is that of a line that ran
LEMMA OkRan ==
  ASSUME PromiseInv, Receive, Append(rx, Head(wire[sock]))[1].part = "ok",
         Head(wire[sock]).part = "end"
  PROVE  /\ Append(rx, Head(wire[sock]))[1].of \in Calls
         /\ runs[Append(rx, Head(wire[sock]))[1].of] = 1
<1>1. rx \in Seq(Pieces)
  BY DEF PromiseInv, TypeInv, TypeOK, BodyOK
<1>2. CASE rx = <<>>
  BY <1>2
<1>3. CASE rx # <<>>
  <2>1. Append(rx, Head(wire[sock]))[1] = rx[1] /\ 1 \in 1..Len(rx)
    BY <1>1, <1>3
  <2> QED
    BY <2>1 DEF PromiseInv, OksRan, Ran
<1> QED
  BY <1>2, <1>3

\* What a step of crane_cmd_ may do to its call
LEMMA CallStep ==
  ASSUME PromiseInv, CraneCmd
  PROVE  /\ call \in Calls /\ pc # "idle"
         /\ UNCHANGED <<call, at, runs, events, faults>>
         /\ pc' \in Unsent => pc \in Unsent
         /\ \/ pc' # "idle" /\ UNCHANGED result
            \/ Return("failed") \/ Return("foreign")
            \/ Return("ok") /\ runs[call] = 1
<1>1. call \in Calls /\ pc # "idle" /\ UNCHANGED <<call, at, runs, events, faults>>
  <2>1. pc # "idle" /\ UNCHANGED <<call, at, runs, events, faults>>
    BY DEF CraneCmd, Retry, Check, Connect, ReadAhead, Consume, Send, SendFails,
           Receive, Timeout, crane
  <2> QED
    BY <2>1 DEF PromiseInv, TypeInv, Numbered
<1>2. CASE Retry \/ Check \/ ReadAhead \/ Consume
  BY <1>1, <1>2 DEF Retry, Check, ReadAhead, Consume, Goto, Unsent
<1>3. CASE Connect \/ SendFails
  BY <1>1, <1>3 DEF Connect, SendFails, NextAttempt, Return, Goto, Unsent
<1>4. CASE Send
  BY <1>1, <1>4 DEF Send, Goto, Unsent
<1>5. CASE Timeout
  BY <1>1, <1>5 DEF Timeout, Return, Goto, Unsent
<1>6. CASE Receive
  <2> DEFINE line == Append(rx, Head(wire[sock]))
  <2>1. CASE UNCHANGED <<pc, result>>
    BY <1>1, <1>6, <2>1 DEF Receive
  <2>2. CASE /\ Head(wire[sock]).part = "end"
             /\ Return(IF line[1].part # "ok" THEN "failed"
                       ELSE IF line[1].of = call THEN "ok"
                       ELSE "foreign")
    <3>1. pc' = "idle" /\ pc = "wait"
      BY <1>6, <2>2 DEF Receive, Return, Goto
    <3>2. CASE line[1].part = "ok" /\ line[1].of = call
      BY <1>1, <1>6, <2>2, <3>1, <3>2, OkRan DEF Unsent
    <3>3. CASE ~(line[1].part = "ok" /\ line[1].of = call)
      <4>1. Return("failed") \/ Return("foreign")
        BY <2>2, <3>3
      <4> QED
        BY <1>1, <3>1, <4>1 DEF Unsent
    <3> QED
      BY <3>2, <3>3
  <2> QED
    BY <1>6, <2>1, <2>2 DEF Receive
<1> QED
  BY <1>2, <1>3, <1>4, <1>5, <1>6 DEF CraneCmd

\* What the other steps leave alone
LEMMA OtherStep ==
  ASSUME [Next]_vars, ~Ask, ~CraneCmd
  PROVE  /\ UNCHANGED <<pc, call, result, rx, torn>>
         /\ (\E k \in Conns : Execute(k)) \/ UNCHANGED runs
  BY DEF Next, ReceiveEof, MonitorSees, MonitorSwaps, Broadcast, CraneRestarts, Execute,
     Reply, Dies, RequestsLost, vars, body, crane

LEMMA InOrderStep ==
  ASSUME PromiseInv, [Next]_vars
  PROVE  CallsInOrder'
<1>0. call \in 0..MaxCalls /\ MaxCalls \in Nat
  BY BoundAssumption DEF PromiseInv, TypeInv, TypeOK, BodyOK
<1>1. /\ result \in [Calls -> {"none", "waiting", "ok", "failed", "foreign"}]
      /\ runs \in [Calls -> Nat]
  BY DEF PromiseInv, TypeInv, TypeOK, BodyOK, CraneOK
<1>2. CASE Ask
  <2>1. /\ call' = call + 1 /\ call + 1 \in Calls
        /\ result' = [result EXCEPT ![call + 1] = "waiting"]
        /\ pc' = "check" /\ UNCHANGED runs
    BY <1>0, <1>2 DEF Ask, Goto, crane, Calls
  <2> QED
    BY <1>0, <1>1, <2>1 DEF PromiseInv, CallsInOrder, Calls, Unsent
<1>3. CASE CraneCmd
  <2>1. CASE pc' # "idle" /\ UNCHANGED result
    BY <1>3, <2>1, CallStep DEF PromiseInv, CallsInOrder
  <2>2. CASE Return("failed") \/ Return("foreign") \/ Return("ok")
    <3>1. \E answer \in Answers : result' = [result EXCEPT ![call] = answer] /\ pc' = "idle"
      BY <2>2 DEF Return, Goto, Answers
    <3>2. call \in Calls /\ UNCHANGED <<call, runs>>
      BY <1>3, CallStep
    <3> QED
      BY <1>0, <1>1, <3>1, <3>2 DEF PromiseInv, CallsInOrder, Calls, Unsent, Answers
  <2> QED
    BY <1>3, <2>1, <2>2, CallStep
<1>4. ASSUME NEW k \in Conns, Execute(k)
      PROVE  CallsInOrder'
  <2>1. UNCHANGED <<pc, call, result>>
    BY <1>4 DEF Execute, body
  <2>2. /\ Head(req[k]) \in Calls /\ Head(req[k]) = req[k][1] /\ 1 \in 1..Len(req[k])
    BY <1>4 DEF Execute, PromiseInv, TypeInv, TypeOK, NetOK
  <2>3. Head(req[k]) <= call /\ (pc \in Unsent => Head(req[k]) # call)
    BY <2>2 DEF PromiseInv, LinesOnce
  <2>4. \A c \in Calls : c # Head(req[k]) => runs'[c] = runs[c]
    BY <1>1, <1>4 DEF Execute
  <2>5. pc \in Unsent => call \in Calls
    BY DEF PromiseInv, TypeInv, Numbered, Unsent
  <2> QED
    BY <1>0, <2>1, <2>2, <2>3, <2>4, <2>5 DEF PromiseInv, CallsInOrder, Calls
<1>5. CASE ~Ask /\ ~CraneCmd /\ UNCHANGED runs
  BY <1>5, OtherStep DEF PromiseInv, CallsInOrder
<1> QED
  BY <1>2, <1>3, <1>4, <1>5, OtherStep

LEMMA OnceStep ==
  ASSUME PromiseInv, [Next]_vars
  PROVE  LinesOnce'
<1>0. call \in 0..MaxCalls /\ MaxCalls \in Nat
  BY BoundAssumption DEF PromiseInv, TypeInv, TypeOK, BodyOK
<1>1. req \in [Conns -> Seq(Calls)] /\ runs \in [Calls -> Nat]
  BY DEF PromiseInv, TypeInv, TypeOK, NetOK, CraneOK
<1>2. \A k \in Conns : \A i \in 1..Len(req[k]) : req[k][i] \in Calls
  BY <1>1
<1>3. CASE Send
  <2>1. /\ sock \in Conns /\ pc = "send" /\ pc' = "wait" /\ UNCHANGED <<call, runs>>
        /\ req' = [req EXCEPT ![sock] = IF alive[sock] THEN Append(@, call) ELSE @]
    BY <1>3, BoundAssumption
       DEF Send, Goto, crane, PromiseInv, TypeInv, TypeOK, TcpOK, Conns
  <2>2. call \in Calls /\ runs[call] = 0
    BY <2>1 DEF PromiseInv, TypeInv, Numbered, CallsInOrder, Unsent
  <2>3. \A k \in Conns : \A i \in 1..Len(req[k]) : req[k][i] # call
    BY <2>1 DEF PromiseInv, LinesOnce, Unsent
  <2>4. CASE ~alive[sock]
    <3>1. req' = req
      BY <1>1, <2>1, <2>4
    <3> QED
      BY <2>1, <3>1 DEF PromiseInv, LinesOnce, Unsent
  <2>5. CASE alive[sock]
    <3>1. \A k \in Conns : k # sock => req'[k] = req[k]
      BY <1>1, <2>1
    <3>2. /\ Len(req'[sock]) = Len(req[sock]) + 1
          /\ \A i \in 1..Len(req[sock]) : req'[sock][i] = req[sock][i]
          /\ req'[sock][Len(req[sock]) + 1] = call
      BY <1>1, <2>1, <2>2, <2>5
    <3>3. \A i \in 1..Len(req'[sock]) : i \in 1..Len(req[sock]) \/ i = Len(req[sock]) + 1
      BY <1>1, <2>1, <3>2
    <3>4. \A k \in Conns : \A i \in 1..Len(req'[k]) :
            \/ i \in 1..Len(req[k]) /\ req'[k][i] = req[k][i]
            \/ k = sock /\ i = Len(req[sock]) + 1 /\ req'[k][i] = call
      BY <3>1, <3>2, <3>3
    <3>5. \A k \in Conns : \A i \in 1..Len(req'[k]) :
            req'[k][i] <= call /\ runs[req'[k][i]] = 0
      BY <1>0, <2>2, <3>4 DEF PromiseInv, LinesOnce
    <3>6. \A k, l \in Conns : \A i \in 1..Len(req'[k]) : \A j \in 1..Len(req'[l]) :
            req'[k][i] = req'[l][j] => k = l /\ i = j
      BY <2>3, <3>4 DEF PromiseInv, LinesOnce
    <3> QED
      BY <2>1, <3>5, <3>6 DEF LinesOnce, Unsent
  <2> QED
    BY <2>4, <2>5
<1>4. ASSUME NEW k \in Conns, Execute(k)
      PROVE  LinesOnce'
  <2> DEFINE head == Head(req[k])
  <2>1. /\ UNCHANGED <<pc, call>>
        /\ req' = [req EXCEPT ![k] = Tail(@)]
        /\ runs' = [runs EXCEPT ![head] = @ + 1]
        /\ req[k] # <<>>
    BY <1>4 DEF Execute, body
  <2>2. head = req[k][1] /\ 1 \in 1..Len(req[k]) /\ head \in Calls
    BY <1>1, <2>1
  <2>3. \A l \in Conns : l # k => req'[l] = req[l]
    BY <1>1, <2>1
  <2>4. /\ req'[k] = Tail(req[k]) /\ Len(req'[k]) = Len(req[k]) - 1
        /\ \A i \in 1..Len(req'[k]) : req'[k][i] = req[k][i + 1] /\ i + 1 \in 1..Len(req[k])
    BY <1>1, <2>1
  <2>5. \A l \in Conns : \A i \in 1..Len(req'[l]) :
          \E j \in 1..Len(req[l]) : /\ req'[l][i] = req[l][j]
                                    /\ j = IF l = k THEN i + 1 ELSE i
    BY <2>3, <2>4
  <2>6. \A l \in Conns : \A i \in 1..Len(req'[l]) : req'[l][i] # head /\ req'[l][i] \in Calls
    <3> TAKE l \in Conns
    <3> TAKE i \in 1..Len(req'[l])
    <3> PICK j \in 1..Len(req[l]) : req'[l][i] = req[l][j] /\ j = IF l = k THEN i + 1 ELSE i
      BY <2>5
    <3>1. ~(l = k /\ j = 1)
      OBVIOUS
    <3>2. req[l][j] # req[k][1]
      BY <2>2, <3>1 DEF PromiseInv, LinesOnce
    <3> QED
      BY <1>2, <2>2, <3>2
  <2>7. \A l \in Conns : \A i \in 1..Len(req'[l]) : runs'[req'[l][i]] = runs[req'[l][i]]
    BY <1>1, <2>1, <2>6
  <2>8. \A l \in Conns : \A i \in 1..Len(req'[l]) :
          /\ req'[l][i] <= call
          /\ runs'[req'[l][i]] = 0
          /\ pc \in Unsent => req'[l][i] # call
    BY <2>5, <2>7 DEF PromiseInv, LinesOnce
  <2>a. \A l, m \in Conns : \A i \in 1..Len(req[l]) : \A j \in 1..Len(req[m]) :
          req[l][i] = req[m][j] => l = m /\ i = j
    BY DEF PromiseInv, LinesOnce
  <2>9. \A l, m \in Conns : \A i \in 1..Len(req'[l]) : \A j \in 1..Len(req'[m]) :
          req'[l][i] = req'[m][j] => l = m /\ i = j
    <3> TAKE l, m \in Conns
    <3> TAKE i \in 1..Len(req'[l])
    <3> TAKE j \in 1..Len(req'[m])
    <3> HAVE req'[l][i] = req'[m][j]
    <3>1. PICK a \in 1..Len(req[l]) : req'[l][i] = req[l][a] /\ a = IF l = k THEN i + 1 ELSE i
      BY <2>5
    <3>2. PICK b \in 1..Len(req[m]) : req'[m][j] = req[m][b] /\ b = IF m = k THEN j + 1 ELSE j
      BY <2>5
    <3>3. req[l][a] = req[m][b]
      BY <3>1, <3>2
    <3>4. l = m /\ a = b
      BY <2>a, <3>3
    <3> QED
      BY <3>1, <3>2, <3>4
  <2>10. pc' = pc /\ call' = call
    BY <2>1
  <2> HIDE DEF head
  <2> QED
    BY <2>8, <2>9, <2>10, Zenon DEF LinesOnce, Unsent
<1>5. ASSUME UNCHANGED <<pc, call, runs>>,
             \A k \in Conns : req'[k] = req[k] \/ req'[k] = <<>>
      PROVE  LinesOnce'
  BY <1>5 DEF PromiseInv, LinesOnce
<1>6. ASSUME NEW k \in Conns, RequestsLost(k)
      PROVE  LinesOnce'
  BY <1>1, <1>5, <1>6 DEF RequestsLost, body, crane
<1>7. CASE CraneRestarts
  BY <1>5, <1>7 DEF CraneRestarts, body
<1>8. CASE Ask
  <2>1. call' = call + 1 /\ UNCHANGED <<runs, req>>
    BY <1>8 DEF Ask, crane, net
  <2> QED
    BY <1>0, <1>2, <2>1 DEF PromiseInv, LinesOnce, Calls
<1>9. CASE CraneCmd /\ ~Send
  <2>1. UNCHANGED req
    BY <1>9 DEF CraneCmd, Retry, Close, Hangup, Check, Connect, ReadAhead, Consume,
                SendFails, Receive, Timeout, net
  <2> QED
    BY <1>9, <2>1, CallStep DEF PromiseInv, LinesOnce
<1>10. CASE /\ ~Ask /\ ~CraneCmd /\ ~CraneRestarts
            /\ ~ \E k \in Conns : Execute(k) \/ RequestsLost(k)
  <2>1. UNCHANGED req
    BY <1>10 DEF Next, ReceiveEof, MonitorSees, MonitorSwaps, Broadcast, Reply, Dies, vars, net
  <2> QED
    BY <1>10, <2>1, OtherStep DEF PromiseInv, LinesOnce
<1> QED
  BY <1>3, <1>4, <1>6, <1>7, <1>8, <1>9, <1>10 DEF Next

\* A step without an execution, after which every piece on a wire was there before or
\* is no OK that has not run
LEMMA RanStep ==
  ASSUME PromiseInv, UNCHANGED runs,
         \A k \in Conns : at'[k] = at[k] \/ at'[k] = 0,
         \A k \in Conns : \A i \in 1..Len(wire'[k]) :
            \/ \E j \in 1..Len(wire[k]) : wire'[k][i] = wire[k][j]
            \/ Ran(wire'[k][i]),
         \A i \in 1..Len(rx') : Ran(rx'[i])
  PROVE  OksRan'
<1>1. \A piece : Ran(piece) => (piece.part = "ok" => piece.of \in Calls /\ runs'[piece.of] = 1)
  BY DEF Ran
<1>2. \A k \in Conns : at'[k] # 0 => runs'[at'[k]] = 1
  BY DEF PromiseInv, OksRan
<1>3. \A k \in Conns : \A i \in 1..Len(wire'[k]) : Ran(wire'[k][i])
  BY DEF PromiseInv, OksRan
<1> QED
  BY <1>1, <1>2, <1>3 DEF OksRan, Ran

LEMMA RanInvStep ==
  ASSUME PromiseInv, [Next]_vars
  PROVE  OksRan'
<1>0. TypeOK /\ TypeOK'
  BY TypeStep DEF PromiseInv, TypeInv
<1>1. wire \in [Conns -> Seq(Pieces)] /\ rx \in Seq(Pieces)
  BY <1>0 DEF TypeOK, BodyOK, NetOK
<1>2. /\ \A k \in Conns : \A i \in 1..Len(wire[k]) : Ran(wire[k][i])
      /\ \A i \in 1..Len(rx) : Ran(rx[i])
  BY DEF PromiseInv, OksRan
<1>3. sock # 0 => sock \in Conns
  BY <1>0, BoundAssumption DEF TypeOK, TcpOK, Conns
<1>4. CASE /\ UNCHANGED <<at, runs>>
           /\ rx' \in {rx, <<>>}
           /\ \A k \in Conns : wire'[k] \in {wire[k], <<>>}
  BY <1>1, <1>2, <1>4, RanStep
<1>5. CASE ReadAhead
  <2> PICK n \in 1..Len(wire[sock]) :
         /\ rx' = rx \o SubSeq(wire[sock], 1, n)
         /\ wire' = [wire EXCEPT ![sock] = SubSeq(@, n + 1, Len(@))]
    BY <1>5 DEF ReadAhead
  <2> DEFINE first == SubSeq(wire[sock], 1, n)
             rest == SubSeq(wire[sock], n + 1, Len(wire[sock]))
  <2>1. sock \in Conns /\ UNCHANGED <<at, runs>>
    BY <1>3, <1>5 DEF ReadAhead, crane
  <2>2. wire[sock] \in Seq(Pieces) /\ n \in 0..Len(wire[sock])
    BY <1>1, <2>1
  <2>3. /\ first \in Seq(Pieces) /\ Len(first) = n
        /\ \A i \in 1..n : first[i] = wire[sock][i]
        /\ rest \in Seq(Pieces) /\ Len(rest) = Len(wire[sock]) - n
        /\ \A i \in 1..(Len(wire[sock]) - n) : rest[i] = wire[sock][n + i]
    BY <2>2, Cut
  <2> HIDE DEF first, rest
  <2>4. ASSUME NEW i \in 1..Len(first)
        PROVE  Ran(first[i])
    <3>1. i \in 1..Len(wire[sock]) /\ first[i] = wire[sock][i]
      BY <2>2, <2>3
    <3> QED
      BY <1>2, <2>1, <3>1
  <2>5. ASSUME NEW i \in 1..Len(rx \o first)
        PROVE  Ran((rx \o first)[i])
    <3>1. \/ i \in 1..Len(rx) /\ (rx \o first)[i] = rx[i]
          \/ i - Len(rx) \in 1..Len(first) /\ (rx \o first)[i] = first[i - Len(rx)]
      BY <1>1, <2>3, Glue
    <3> QED
      BY <1>2, <2>4, <3>1
  <2>6. \A i \in 1..Len(rest) : \E j \in 1..Len(wire[sock]) : rest[i] = wire[sock][j]
    BY <2>2, <2>3
  <2>7. \A k \in Conns : wire'[k] = IF k = sock THEN rest ELSE wire[k]
    BY <1>1, <2>1 DEF rest
  <2>8. \A i \in 1..Len(rx') : Ran(rx'[i])
    BY <2>5 DEF first
  <2>9. \A k \in Conns : \A i \in 1..Len(wire'[k]) :
          \E j \in 1..Len(wire[k]) : wire'[k][i] = wire[k][j]
    <3> TAKE k \in Conns
    <3>1. CASE k = sock
      BY <2>6, <2>7, <3>1
    <3>2. CASE k # sock
      <4>1. wire'[k] = wire[k]
        BY <2>7, <3>2
      <4> QED
        BY <4>1
    <3> QED
      BY <3>1, <3>2
  <2> QED
    BY <2>1, <2>8, <2>9, RanStep
<1>6. CASE Consume
  <2> PICK n \in 0..Len(rx) : rx' = SubSeq(rx, n + 1, Len(rx))
    BY <1>6 DEF Consume
  <2>1. Len(rx') = Len(rx) - n /\ \A i \in 1..(Len(rx) - n) : rx'[i] = rx[n + i]
    BY <1>1, Cut
  <2>2. \A i \in 1..Len(rx') : \E j \in 1..Len(rx) : rx'[i] = rx[j]
    BY <1>1, <2>1
  <2>3. UNCHANGED <<at, runs, wire>>
    BY <1>6 DEF Consume, net, crane
  <2> QED
    BY <1>2, <2>2, <2>3, RanStep
<1>7. CASE Send
  <2> PICK n \in 0..Len(wire[sock]) :
         wire' = [wire EXCEPT ![sock] = SubSeq(@, n + 1, Len(@))]
    BY <1>7 DEF Send
  <2>1. sock \in Conns /\ UNCHANGED <<at, runs, rx>>
    BY <1>3, <1>7 DEF Send, crane
  <2>2. \A k \in Conns : k # sock => wire'[k] = wire[k]
    BY <1>1, <2>1
  <2>3. wire[sock] \in Seq(Pieces) /\ wire'[sock] = SubSeq(wire[sock], n + 1, Len(wire[sock]))
    BY <1>1, <2>1
  <2>4. /\ Len(wire'[sock]) = Len(wire[sock]) - n
        /\ \A i \in 1..(Len(wire[sock]) - n) : wire'[sock][i] = wire[sock][n + i]
    BY <2>3, Cut
  <2>5. \A i \in 1..Len(wire'[sock]) : \E j \in 1..Len(wire[sock]) : wire'[sock][i] = wire[sock][j]
    BY <2>3, <2>4
  <2> QED
    BY <1>2, <2>1, <2>2, <2>5, RanStep
<1>8. CASE Receive
  <2> DEFINE head == Head(wire[sock])
             line == Append(rx, head)
             rest == Tail(wire[sock])
  <2>1. sock \in Conns /\ UNCHANGED <<at, runs>>
    BY <1>3, <1>8 DEF Receive, crane
  <2>2. wire[sock] \in Seq(Pieces) /\ wire[sock] # <<>>
    BY <1>1, <1>8, <2>1 DEF Receive
  <2>3. /\ head = wire[sock][1] /\ 1 \in 1..Len(wire[sock]) /\ head \in Pieces
        /\ rest \in Seq(Pieces) /\ Len(rest) = Len(wire[sock]) - 1
        /\ \A i \in 1..Len(rest) : rest[i] = wire[sock][i + 1] /\ i + 1 \in 1..Len(wire[sock])
    BY <2>2
  <2>4. \A i \in 1..Len(line) : \/ i \in 1..Len(rx) /\ line[i] = rx[i]
                                \/ line[i] = head
    BY <1>1, <2>3
  <2>5. \A i \in 1..Len(line) : Ran(line[i])
    BY <1>2, <2>1, <2>3, <2>4
  <2>6. \A i \in 1..Len(rest) : Ran(rest[i])
    BY <1>2, <2>1, <2>3
  <2> HIDE DEF head, line, rest
  <2>7. PICK n \in 0..Len(rest) :
          /\ wire' = [wire EXCEPT ![sock] = SubSeq(rest, n + 1, Len(rest))]
          /\ rx' \in {line, <<>>, SubSeq(rest, 1, n)}
    <3>1. 0 \in 0..Len(rest)
      BY <2>3
    <3> QED
      BY <1>8, <3>1 DEF Receive, line, rest, head
  <2>8. /\ Len(SubSeq(rest, 1, n)) = n
        /\ \A i \in 1..n : SubSeq(rest, 1, n)[i] = rest[i]
        /\ Len(SubSeq(rest, n + 1, Len(rest))) = Len(rest) - n
        /\ \A i \in 1..(Len(rest) - n) : SubSeq(rest, n + 1, Len(rest))[i] = rest[n + i]
    BY <2>3, Cut
  <2>9. \A i \in 1..Len(rx') : Ran(rx'[i])
    <3>1. CASE rx' = line
      BY <2>5, <3>1
    <3>2. CASE rx' = <<>>
      BY <3>2
    <3>3. CASE rx' = SubSeq(rest, 1, n)
      <4>1. \A i \in 1..n : i \in 1..Len(rest)
        BY <2>3
      <4> QED
        BY <2>6, <2>8, <3>3, <4>1
    <3> QED
      BY <2>7, <3>1, <3>2, <3>3
  <2>10. \A k \in Conns : k # sock => wire'[k] = wire[k]
    BY <1>1, <2>1, <2>7
  <2>11. wire'[sock] = SubSeq(rest, n + 1, Len(rest))
    BY <1>1, <2>1, <2>7
  <2>12. \A i \in 1..Len(wire'[sock]) : Ran(wire'[sock][i])
    <3> TAKE i \in 1..Len(wire'[sock])
    <3>1. i \in 1..(Len(rest) - n) /\ n + i \in 1..Len(rest)
      BY <2>3, <2>8, <2>11
    <3> QED
      BY <2>6, <2>8, <2>11, <3>1
  <2> QED
    BY <2>1, <2>9, <2>10, <2>12, RanStep
<1>9. ASSUME NEW k \in Conns, Execute(k)
      PROVE  OksRan'
  <2>1. /\ UNCHANGED <<rx, wire>>
        /\ at' = [at EXCEPT ![k] = Head(req[k])]
        /\ runs' = [runs EXCEPT ![Head(req[k])] = @ + 1]
    BY <1>9 DEF Execute, body
  <2>2. Head(req[k]) = req[k][1] /\ 1 \in 1..Len(req[k]) /\ Head(req[k]) \in Calls
    BY <1>0, <1>9 DEF Execute, TypeOK, NetOK
  <2>3. runs[Head(req[k])] = 0
    BY <2>2 DEF PromiseInv, LinesOnce
  <2>4. \A c \in Calls : runs[c] = 1 => runs'[c] = 1
    BY <1>0, <2>1, <2>3 DEF TypeOK, CraneOK
  <2>5. runs'[Head(req[k])] = 1
    BY <1>0, <2>1, <2>2, <2>3 DEF TypeOK, CraneOK
  <2>6. ASSUME NEW l \in Conns, at'[l] # 0
        PROVE  runs'[at'[l]] = 1
    <3>1. CASE l = k
      BY <1>0, <2>1, <2>5, <3>1 DEF TypeOK, CraneOK
    <3>2. CASE l # k
      <4>1. at'[l] = at[l] /\ at[l] \in Calls
        BY <1>0, <2>1, <2>6, <3>2, BoundAssumption DEF TypeOK, CraneOK, Calls
      <4> QED
        BY <2>4, <2>6, <4>1 DEF PromiseInv, OksRan
    <3> QED
      BY <3>1, <3>2
  <2>7. \A piece : Ran(piece) => (piece.part = "ok" => piece.of \in Calls /\ runs'[piece.of] = 1)
    BY <2>4 DEF Ran
  <2> QED
    BY <1>2, <2>1, <2>6, <2>7 DEF OksRan, Ran
<1>10. ASSUME NEW k \in Conns, Reply(k)
       PROVE  OksRan'
  <2>1. PICK reply \in {"ok", "err"} :
           wire' = [wire EXCEPT ![k] = IF alive[k] THEN @ \o Line(reply, at[k]) ELSE @]
    BY <1>10 DEF Reply
  <2>2. UNCHANGED <<rx, runs>> /\ at[k] # 0 /\ at' = [at EXCEPT ![k] = 0]
    BY <1>10 DEF Reply, body
  <2>3. at[k] \in Calls /\ runs[at[k]] = 1
    BY <1>0, <2>2, BoundAssumption DEF TypeOK, CraneOK, Calls, PromiseInv, OksRan
  <2>4. \A i \in 1..2 : Ran(Line(reply, at[k])[i])
    BY <2>3 DEF Ran, Line, Piece
  <2>5. \A l \in Conns : l # k => wire'[l] = wire[l]
    BY <1>1, <2>1
  <2>6. wire'[k] = IF alive[k] THEN wire[k] \o Line(reply, at[k]) ELSE wire[k]
    BY <1>1, <2>1
  <2>7. Len(Line(reply, at[k])) = 2 /\ Line(reply, at[k]) \in Seq(Pieces)
    BY <1>0, LineType DEF Line, TypeOK, CraneOK
  <2>8. \A i \in 1..Len(wire'[k]) : Ran(wire'[k][i])
    <3>1. CASE ~alive[k]
      BY <1>2, <2>6, <3>1
    <3>2. CASE alive[k]
      <4> TAKE i \in 1..Len(wire'[k])
      <4>1. wire'[k] = wire[k] \o Line(reply, at[k])
        BY <2>6, <3>2
      <4>2. wire[k] \in Seq(Pieces)
        BY <1>1
      <4>3. \/ i \in 1..Len(wire[k]) /\ wire'[k][i] = wire[k][i]
            \/ /\ i - Len(wire[k]) \in 1..Len(Line(reply, at[k]))
               /\ wire'[k][i] = Line(reply, at[k])[i - Len(wire[k])]
        <5> DEFINE answer == Line(reply, at[k])
        <5>1. answer \in Seq(Pieces) /\ wire'[k] = wire[k] \o answer
          BY <2>7, <4>1
        <5> HIDE DEF answer
        <5>2. \/ i \in 1..Len(wire[k]) /\ wire'[k][i] = wire[k][i]
              \/ i - Len(wire[k]) \in 1..Len(answer) /\ wire'[k][i] = answer[i - Len(wire[k])]
          BY <4>2, <5>1, Glue
        <5> QED
          BY <5>2 DEF answer
      <4> QED
        BY <1>2, <2>4, <2>7, <4>3
    <3> QED
      BY <3>1, <3>2
  <2>9. \A l \in Conns : at'[l] = at[l] \/ at'[l] = 0
    BY <1>0, <2>2 DEF TypeOK, CraneOK
  <2> QED
    BY <1>2, <2>2, <2>5, <2>8, <2>9, RanStep
<1>11. CASE Broadcast
  <2>1. UNCHANGED <<rx, at, runs>>
    BY <1>11 DEF Broadcast, body
  <2>2. \A i \in 1..2 : Ran(Line("evt", 0)[i])
    BY DEF Ran, Line, Piece
  <2>3. Len(Line("evt", 0)) = 2 /\ Line("evt", 0) \in Seq(Pieces)
    BY BoundAssumption, LineType DEF Line
  <2>4. \A k \in Conns : \A i \in 1..Len(wire'[k]) : Ran(wire'[k][i])
    <3> TAKE k \in Conns
    <3> TAKE i \in 1..Len(wire'[k])
    <3>1. wire'[k] = IF alive[k] THEN wire[k] \o Line("evt", 0) ELSE wire[k]
      BY <1>11 DEF Broadcast
    <3>2. CASE ~alive[k]
      BY <1>2, <3>1, <3>2
    <3>3. CASE alive[k]
      <4>1. wire'[k] = wire[k] \o Line("evt", 0)
        BY <3>1, <3>3
      <4>2. wire[k] \in Seq(Pieces)
        BY <1>1
      <4>3. \/ i \in 1..Len(wire[k]) /\ wire'[k][i] = wire[k][i]
            \/ /\ i - Len(wire[k]) \in 1..Len(Line("evt", 0))
               /\ wire'[k][i] = Line("evt", 0)[i - Len(wire[k])]
        BY <2>3, <4>1, <4>2, Glue
      <4> QED
        BY <1>2, <2>2, <2>3, <4>3
    <3> QED
      BY <3>2, <3>3
  <2> QED
    BY <1>2, <2>1, <2>4, RanStep
<1>12. CASE CraneRestarts
  <2>1. UNCHANGED <<rx, runs, wire>> /\ \A k \in Conns : at'[k] = 0
    BY <1>12 DEF CraneRestarts, body
  <2> QED
    BY <1>2, <2>1, RanStep
<1>13. CASE \/ Ask \/ Check \/ Connect \/ SendFails \/ ReceiveEof \/ MonitorSees
            \/ (\E k \in Conns : RequestsLost(k)) \/ UNCHANGED vars
  BY <1>4, <1>13 DEF Ask, Check, Connect, SendFails, ReceiveEof, MonitorSees,
     RequestsLost, vars, body, net, crane
<1>14. CASE Retry \/ Timeout \/ MonitorSwaps \/ \E k \in Conns : Dies(k)
  <2>1. UNCHANGED <<at, runs>> /\ rx' \in {rx, <<>>}
    BY <1>14 DEF Retry, Timeout, MonitorSwaps, Dies, body, crane
  <2>2. \A k \in Conns : wire'[k] \in {wire[k], <<>>}
    <3>1. CASE Retry \/ Timeout \/ MonitorSwaps
      BY <3>1 DEF Retry, Timeout, MonitorSwaps, Close, Hangup
    <3>2. CASE \E k \in Conns : Dies(k)
      BY <1>1, <3>2 DEF Dies
    <3> QED
      BY <1>14, <3>1, <3>2
  <2> QED
    BY <1>4, <2>1, <2>2
<1> QED
  BY <1>5, <1>6, <1>7, <1>8, <1>9, <1>10, <1>11, <1>12, <1>13, <1>14 DEF Next, CraneCmd

LEMMA PromiseInvariant == Spec => []PromiseInv
<1>1. Init => PromiseInv
  BY PromiseInit, TypeInit DEF PromiseInv
<1>2. PromiseInv /\ [Next]_vars => PromiseInv'
  BY TypeStep, InOrderStep, OnceStep, RanInvStep DEF PromiseInv
<1> QED
  BY <1>1, <1>2, PTL DEF Spec

\* crane_cmd_ keeps its promise for any number of calls, connections, broadcasts and
\* faults: a line runs at most once and who is told OK by the reply to the own line has
\* had it run (crane_cmd_, WASH_ROBOT.cpp:752-886)
THEOREM PromiseKept == Spec => KeepsPromise
<1>1. Init => Promise!Init
  BY DEF Init, Promise!Init
<1>2. ASSUME PromiseInv, [Next]_vars
      PROVE  [Promise!Next]_Promise!vars
  <2>0. /\ call \in 0..MaxCalls /\ MaxCalls \in Nat /\ runs \in [Calls -> Nat]
        /\ result \in [Calls -> {"none", "waiting", "ok", "failed", "foreign"}]
    BY <1>2, BoundAssumption DEF PromiseInv, TypeInv, TypeOK, BodyOK, CraneOK
  <2>1. CASE Ask
    <3>1. /\ call + 1 \in Calls /\ result[call + 1] = "none" /\ UNCHANGED runs
          /\ result' = [result EXCEPT ![call + 1] = "waiting"]
      BY <1>2, <2>0, <2>1 DEF Ask, crane, Calls, PromiseInv, CallsInOrder
    <3>2. PICK c \in Calls : c = call + 1
      BY <3>1
    <3>3. Promise!Ask(c)
      BY <2>0, <3>1, <3>2 DEF Promise!Ask
    <3>4. Promise!Next
      BY <3>3, Zenon DEF Promise!Next
    <3> QED
      BY <3>4
  <2>2. CASE CraneCmd
    <3>1. call \in Calls /\ UNCHANGED runs /\ result[call] = "waiting"
      BY <1>2, <2>2, CallStep DEF PromiseInv, CallsInOrder
    <3> PICK c \in Calls : c = call
      BY <3>1
    <3>2. CASE UNCHANGED result
      BY <3>1, <3>2 DEF Promise!vars
    <3>3. CASE Return("failed") \/ Return("foreign")
      <4>1. Promise!Fail(c)
        BY <2>0, <3>1, <3>3 DEF Return, Promise!Fail
      <4>2. Promise!Next
        BY <4>1, Zenon DEF Promise!Next
      <4> QED
        BY <4>2
    <3>4. CASE Return("ok") /\ runs[call] = 1
      <4>1. Promise!Succeed(c)
        BY <2>0, <3>1, <3>4 DEF Return, Promise!Succeed
      <4>2. Promise!Next
        BY <4>1, Zenon DEF Promise!Next
      <4> QED
        BY <4>2
    <3> QED
      BY <1>2, <2>2, <3>2, <3>3, <3>4, CallStep
  <2>3. ASSUME NEW k \in Conns, Execute(k)
        PROVE  Promise!Next
    <3>1. /\ UNCHANGED result
          /\ runs' = [runs EXCEPT ![Head(req[k])] = @ + 1]
      BY <2>3 DEF Execute, body
    <3>2. Head(req[k]) = req[k][1] /\ 1 \in 1..Len(req[k]) /\ Head(req[k]) \in Calls
      BY <1>2, <2>3 DEF Execute, PromiseInv, TypeInv, TypeOK, NetOK
    <3>3. runs[Head(req[k])] = 0 /\ result[Head(req[k])] # "none"
      BY <1>2, <3>2 DEF PromiseInv, LinesOnce, CallsInOrder
    <3>4. runs' = [runs EXCEPT ![Head(req[k])] = 1]
      BY <2>0, <3>1, <3>2, <3>3
    <3>5. Promise!Run(Head(req[k]))
      BY <2>0, <3>1, <3>2, <3>3, <3>4 DEF Promise!Run
    <3> QED
      BY <3>2, <3>5, Zenon DEF Promise!Next
  <2>4. CASE UNCHANGED <<result, runs>>
    BY <2>4 DEF Promise!vars
  <2> QED
    BY <1>2, <2>1, <2>2, <2>3, <2>4, OtherStep
<1> QED
  BY <1>1, <1>2, PromiseInvariant, PTL DEF Spec, KeepsPromise, Promise!Spec

-----------------------------------------------------------------------------
(***************************************************************************)
(* Late replies.  A connection carries at most one line or reply, that of  *)
(* the call that waits, as long as no torn line has been taken for a       *)
(* reply; a connection that is opened carries nothing.                     *)
(***************************************************************************)
IsReply(piece) == piece.part \in {"ok", "err"}
Silent(s) == \A i \in 1..Len(s) : ~IsReply(s[i])

\* The only reply in a sequence is that to the call that waits
Mine(s) == \A i \in 1..Len(s) : IsReply(s[i]) =>
  /\ pc = "wait" /\ s[i].of = call
  /\ \A j \in 1..Len(s) : IsReply(s[j]) => i = j

NotForeign == \A c \in Calls : result[c] # "foreign"

\* Connections not yet opened carry nothing
Fresh ==
  /\ sock <= opened
  /\ \A k \in Conns : k > opened =>
       wire[k] = <<>> /\ req[k] = <<>> /\ at[k] = 0 /\ ~alive[k]

\* The line of the call that waits, its execution or its reply is in one place
OnePlace(k) ==
  /\ Mine(wire[k])
  /\ at[k] # 0 => pc = "wait" /\ at[k] = call /\ req[k] = <<>>
  /\ req[k] # <<>> => pc = "wait" /\ req[k] = <<call>>
  /\ ~Silent(wire[k]) => at[k] = 0 /\ req[k] = <<>>
  /\ ~Silent(rx) => Silent(wire[k]) /\ at[k] = 0 /\ req[k] = <<>>

OneReply == ~torn => NotForeign /\ Mine(rx) /\ (sock # 0 => OnePlace(sock))

ReplyInv == TypeInv /\ Fresh /\ OneReply

LEMMA ReplyInit == Init => Fresh /\ OneReply
<1> SUFFICES ASSUME Init
             PROVE  Fresh /\ OneReply
  OBVIOUS
<1>1. Fresh
  BY BoundAssumption DEF Init, Fresh, Conns
<1>2. OneReply
  BY DEF Init, OneReply, NotForeign, Mine
<1> QED
  BY <1>1, <1>2

\* Where the reconnect thread or crane_cmd_ opens a connection, it was fresh
LEMMA FreshOpen ==
  ASSUME ReplyInv, NEW before \in [Conns -> BOOLEAN], Open(before),
         \A k \in Conns : before[k] => alive[k]
  PROVE  /\ sock' \in Conns /\ sock' = opened' /\ sock' > opened
         /\ wire[sock'] = <<>> /\ req[sock'] = <<>> /\ at[sock'] = 0
         /\ \A k \in Conns : k > opened' => k > opened /\ ~alive'[k]
<1>1. opened \in 0..MaxConns /\ MaxConns \in Nat
  BY BoundAssumption DEF ReplyInv, TypeInv, TypeOK, TcpOK
<1>2. opened' = opened + 1 /\ sock' = opened + 1 /\ opened + 1 \in Conns
  BY <1>1 DEF Open, Conns
<1>3. \A k \in Conns : k > opened' => k > opened /\ ~alive'[k]
  <2> TAKE k \in Conns
  <2> HAVE k > opened'
  <2>1. k > opened /\ k # opened + 1
    BY <1>1, <1>2 DEF Conns
  <2>2. alive'[k] = before[k]
    BY <2>1 DEF Open
  <2> QED
    BY <2>1, <2>2 DEF ReplyInv, Fresh
<1> QED
  BY <1>1, <1>2, <1>3 DEF ReplyInv, Fresh

LEMMA FreshStep ==
  ASSUME ReplyInv, [Next]_vars
  PROVE  Fresh'
<1>0. /\ sock \in 0..MaxConns /\ opened \in 0..MaxConns /\ MaxConns \in Nat
      /\ alive \in [Conns -> BOOLEAN] /\ wire \in [Conns -> Seq(Pieces)]
      /\ req \in [Conns -> Seq(Calls)] /\ at \in [Conns -> 0..MaxCalls]
  BY BoundAssumption DEF ReplyInv, TypeInv, TypeOK, TcpOK, NetOK, CraneOK
<1>1. sock <= opened
  BY DEF ReplyInv, Fresh
<1>2. ASSUME sock' <= opened', opened' >= opened, opened' \in Nat,
             \A k \in Conns : k > opened /\ k > opened' =>
               /\ wire'[k] \in {wire[k], <<>>}
               /\ req'[k] \in {req[k], <<>>}
               /\ at'[k] \in {at[k], 0}
               /\ ~alive'[k]
      PROVE  Fresh'
  <2>1. ASSUME NEW k \in Conns, k > opened'
        PROVE  wire'[k] = <<>> /\ req'[k] = <<>> /\ at'[k] = 0 /\ ~alive'[k]
    <3>1. k > opened
      BY <1>0, <1>2, <2>1 DEF Conns
    <3>2. wire[k] = <<>> /\ req[k] = <<>> /\ at[k] = 0
      BY <3>1 DEF ReplyInv, Fresh
    <3>3. wire'[k] \in {wire[k], <<>>} /\ req'[k] \in {req[k], <<>>}
      BY <1>2, <2>1, <3>1
    <3>4. at'[k] \in {at[k], 0} /\ ~alive'[k]
      BY <1>2, <2>1, <3>1
    <3> QED
      BY <3>2, <3>3, <3>4
  <2> QED
    BY <1>2, <2>1 DEF Fresh
<1>3. CASE Connect
  <2>1. UNCHANGED <<wire, req, at>>
    BY <1>3 DEF Connect, crane
  <2>2. CASE Open(alive)
    <3>1. /\ sock' = opened' /\ opened' = opened + 1
          /\ \A k \in Conns : k > opened' => ~alive'[k]
      BY <1>0, <2>2, FreshOpen DEF Open
    <3> QED
      BY <1>0, <1>2, <2>1, <3>1
  <2>3. CASE sock' = 0 /\ UNCHANGED <<opened, alive>>
    BY <1>0, <1>2, <2>1, <2>3 DEF ReplyInv, Fresh
  <2> QED
    BY <1>3, <2>2, <2>3 DEF Connect
<1>4. CASE MonitorSwaps
  <2> DEFINE hung == [k \in Conns |-> alive[k] /\ k # sock]
  <2>0. hung \in [Conns -> BOOLEAN] /\ \A k \in Conns : hung[k] => alive[k]
    BY <1>0
  <2>1. UNCHANGED <<req, at>> /\ \A k \in Conns : wire'[k] \in {wire[k], <<>>}
    BY <1>4 DEF MonitorSwaps, crane
  <2>2. CASE Open(hung)
    <3>1. /\ sock' = opened' /\ opened' = opened + 1
          /\ \A k \in Conns : k > opened' => ~alive'[k]
      BY <2>0, <2>2, FreshOpen DEF Open
    <3> QED
      BY <1>0, <1>2, <2>1, <3>1
  <2>3. CASE sock' = 0 /\ alive' = hung /\ UNCHANGED opened
    BY <1>0, <1>2, <2>0, <2>1, <2>3 DEF ReplyInv, Fresh
  <2> QED
    BY <1>4, <2>2, <2>3 DEF MonitorSwaps
<1>5. CASE Retry \/ Timeout
  <2>1. /\ UNCHANGED <<opened, req, at>> /\ sock' = 0
        /\ \A k \in Conns : wire'[k] \in {wire[k], <<>>} /\ (alive'[k] => alive[k])
    BY <1>5 DEF Retry, Timeout, Close, Hangup, crane
  <2> QED
    BY <1>0, <1>2, <2>1 DEF ReplyInv, Fresh
<1>6. CASE ReadAhead \/ Receive \/ Send
  <2>1. /\ UNCHANGED <<opened, sock, at, alive>> /\ sock # 0
    BY <1>6 DEF ReadAhead, Receive, Send, tcp, crane
  <2>2. sock \in Conns
    BY <1>0, <2>1 DEF Conns
  <2>3. \A k \in Conns : k # sock => wire'[k] = wire[k] /\ req'[k] = req[k]
    <3>1. CASE ReadAhead
      BY <1>0, <2>2, <3>1 DEF ReadAhead
    <3>2. CASE Receive
      BY <1>0, <2>2, <3>2 DEF Receive
    <3>3. CASE Send
      BY <1>0, <2>2, <3>3 DEF Send
    <3> QED
      BY <1>6, <3>1, <3>2, <3>3
  <2>4. \A k \in Conns : k > opened => k # sock
    BY <1>0, <1>1
  <2> QED
    BY <1>0, <1>1, <1>2, <2>1, <2>3, <2>4 DEF ReplyInv, Fresh
<1>7. ASSUME NEW k \in Conns, Execute(k)
      PROVE  Fresh'
  <2>1. /\ UNCHANGED <<opened, sock, wire, alive>> /\ req[k] # <<>>
        /\ \A l \in Conns : l # k => req'[l] = req[l] /\ at'[l] = at[l]
    BY <1>0, <1>7 DEF Execute, tcp
  <2>2. \A l \in Conns : l > opened => l # k
    BY <2>1 DEF ReplyInv, Fresh
  <2> QED
    BY <1>0, <1>1, <1>2, <2>1, <2>2 DEF ReplyInv, Fresh
<1>8. ASSUME NEW k \in Conns, Reply(k)
      PROVE  Fresh'
  <2>1. /\ UNCHANGED <<opened, sock, req, alive>> /\ at[k] # 0
        /\ \A l \in Conns : l # k => wire'[l] = wire[l] /\ at'[l] = at[l]
    BY <1>0, <1>8 DEF Reply, tcp
  <2>2. \A l \in Conns : l > opened => l # k
    BY <2>1 DEF ReplyInv, Fresh
  <2> QED
    BY <1>0, <1>1, <1>2, <2>1, <2>2 DEF ReplyInv, Fresh
<1>9. CASE Broadcast
  <2>1. /\ UNCHANGED <<opened, sock, req, at, alive>>
        /\ \A k \in Conns : ~alive[k] => wire'[k] = wire[k]
    BY <1>9 DEF Broadcast, tcp
  <2> QED
    BY <1>0, <1>1, <1>2, <2>1 DEF ReplyInv, Fresh
<1>10. ASSUME NEW k \in Conns, Dies(k) \/ RequestsLost(k)
       PROVE  Fresh'
  <2>1. /\ UNCHANGED <<opened, sock, at>>
        /\ \A l \in Conns : wire'[l] \in {wire[l], <<>>} /\ req'[l] \in {req[l], <<>>}
                            /\ (alive'[l] => alive[l])
    BY <1>0, <1>10 DEF Dies, RequestsLost, tcp, crane
  <2> QED
    BY <1>0, <1>1, <1>2, <2>1 DEF ReplyInv, Fresh
<1>11. CASE CraneRestarts
  <2>1. /\ UNCHANGED <<opened, sock, wire>>
        /\ \A k \in Conns : req'[k] = <<>> /\ at'[k] = 0 /\ ~alive'[k]
    BY <1>11 DEF CraneRestarts, tcp
  <2> QED
    BY <1>0, <1>1, <1>2, <2>1
<1>12. CASE Ask \/ Check \/ Consume \/ SendFails \/ ReceiveEof \/ MonitorSees \/ UNCHANGED vars
  <2>1. UNCHANGED <<opened, sock, wire, req, at, alive>>
    BY <1>12 DEF Ask, Check, Consume, SendFails, ReceiveEof, MonitorSees, vars, tcp, net, crane
  <2> QED
    BY <2>1 DEF ReplyInv, Fresh
<1> QED
  BY <1>3, <1>4, <1>5, <1>6, <1>7, <1>8, <1>9, <1>10, <1>11, <1>12 DEF Next, CraneCmd

\* Nothing is due while no call waits
LEMMA Quiet ==
  ASSUME ReplyInv, ~torn, pc # "wait"
  PROVE  /\ NotForeign /\ Silent(rx)
         /\ sock # 0 => Silent(wire[sock]) /\ req[sock] = <<>> /\ at[sock] = 0
  BY DEF ReplyInv, OneReply, OnePlace, Mine, Silent

\* Where nothing is due, nothing is due to another call
LEMMA QuietOne ==
  ASSUME ~torn' => /\ NotForeign' /\ Silent(rx')
                   /\ sock' # 0 => Silent(wire'[sock']) /\ req'[sock'] = <<>> /\ at'[sock'] = 0
  PROVE  OneReply'
  BY DEF OneReply, OnePlace, Mine, Silent

\* A step that only loses what is on the way
LEMMA LossOne ==
  ASSUME ReplyInv, UNCHANGED <<pc, call, result, rx, torn, sock>>,
         sock # 0 => /\ wire'[sock] \in {wire[sock], <<>>}
                     /\ req'[sock] \in {req[sock], <<>>}
                     /\ at'[sock] \in {at[sock], 0}
  PROVE  OneReply'
<1> SUFFICES ASSUME ~torn
             PROVE  NotForeign' /\ Mine(rx)' /\ (sock # 0 => OnePlace(sock)')
  BY DEF OneReply, OnePlace, Mine
<1>1. NotForeign' /\ Mine(rx)'
  BY DEF ReplyInv, OneReply, NotForeign, Mine
<1>2. ASSUME sock # 0
      PROVE  OnePlace(sock)'
  <2>1. OnePlace(sock)
    BY <1>2 DEF ReplyInv, OneReply
  <2>2. Mine(wire[sock])' /\ (Silent(wire[sock]) => Silent(wire'[sock]))
    <3>1. CASE wire'[sock] = wire[sock]
      BY <2>1, <3>1 DEF OnePlace, Mine
    <3>2. CASE wire'[sock] = <<>>
      BY <3>2 DEF Mine, Silent
    <3> QED
      BY <1>2, <3>1, <3>2
  <2>3. Silent(rx') <=> Silent(rx)
    OBVIOUS
  <2> QED
    BY <1>2, <2>1, <2>2, <2>3 DEF OnePlace
<1> QED
  BY <1>1, <1>2

\* A step of another connection
LEMMA OtherConn ==
  ASSUME ReplyInv, UNCHANGED <<pc, call, result, rx, torn, sock>>,
         NEW k, k # sock, wire'[sock] = wire[sock], req'[sock] = req[sock], at'[sock] = at[sock]
  PROVE  OneReply'
  BY LossOne

\* Pieces of a silent sequence are silent
LEMMA SilentCut ==
  ASSUME NEW s \in Seq(Pieces), Silent(s), NEW n \in 0..Len(s)
  PROVE  Silent(SubSeq(s, 1, n)) /\ Silent(SubSeq(s, n + 1, Len(s)))
<1>1. ASSUME NEW i \in 1..Len(SubSeq(s, 1, n))
      PROVE  ~IsReply(SubSeq(s, 1, n)[i])
  <2>1. i \in 1..n /\ i \in 1..Len(s) /\ SubSeq(s, 1, n)[i] = s[i]
    BY Cut
  <2> QED
    BY <2>1 DEF Silent
<1>2. ASSUME NEW i \in 1..Len(SubSeq(s, n + 1, Len(s)))
      PROVE  ~IsReply(SubSeq(s, n + 1, Len(s))[i])
  <2>1. n + i \in 1..Len(s) /\ SubSeq(s, n + 1, Len(s))[i] = s[n + i]
    BY Cut
  <2> QED
    BY <2>1 DEF Silent
<1> QED
  BY <1>1, <1>2 DEF Silent

LEMMA SilentGlue ==
  ASSUME NEW s \in Seq(Pieces), NEW t \in Seq(Pieces), Silent(s), Silent(t)
  PROVE  Silent(s \o t)
<1> SUFFICES ASSUME NEW i \in 1..Len(s \o t)
             PROVE  ~IsReply((s \o t)[i])
  BY DEF Silent
<1> QED
  BY Glue DEF Silent

\* crane_cmd_ before it waits
LEMMA OneBefore ==
  ASSUME ReplyInv, Ask \/ Retry \/ Check \/ Connect \/ ReadAhead \/ Consume \/ SendFails \/ Timeout
  PROVE  OneReply'
<1> SUFFICES ASSUME ~torn
             PROVE  OneReply'
  BY DEF OneReply, Ask, Retry, Check, Connect, ReadAhead, Consume, SendFails, Timeout
<1>0. /\ sock # 0 => sock \in Conns
      /\ alive \in [Conns -> BOOLEAN] /\ wire \in [Conns -> Seq(Pieces)]
      /\ rx \in Seq(Pieces)
      /\ result \in [Calls -> {"none", "waiting", "ok", "failed", "foreign"}]
  BY BoundAssumption DEF ReplyInv, TypeInv, TypeOK, BodyOK, TcpOK, NetOK, Conns
<1>1. NotForeign'
  <2>1. NotForeign
    BY DEF ReplyInv, OneReply
  <2>2. CASE Ask
    BY <1>0, <2>1, <2>2 DEF Ask, NotForeign
  <2>3. CASE UNCHANGED result
    BY <2>1, <2>3 DEF NotForeign
  <2>4. CASE Return("failed")
    BY <1>0, <2>1, <2>4 DEF Return, NotForeign
  <2> QED
    BY <2>2, <2>3, <2>4
       DEF Retry, Check, Connect, ReadAhead, Consume, SendFails, Timeout, NextAttempt
<1>2. CASE Retry \/ Timeout
  <2>1. sock' = 0 /\ rx' = <<>>
    BY <1>2 DEF Retry, Timeout, Close
  <2> QED
    BY <1>1, <2>1, QuietOne DEF Silent
<1>3. CASE Ask \/ Check \/ SendFails
  <2>1. pc # "wait" /\ UNCHANGED <<rx, sock, wire, req, at>>
    BY <1>3 DEF Ask, Check, SendFails, tcp, net, crane
  <2> QED
    BY <1>1, <2>1, Quiet, QuietOne
<1>4. CASE Connect
  <2>1. pc # "wait" /\ UNCHANGED <<rx, wire, req, at>>
    BY <1>4 DEF Connect, crane
  <2>2. CASE Open(alive)
    <3>1. wire[sock'] = <<>> /\ req[sock'] = <<>> /\ at[sock'] = 0
      BY <1>0, <2>2, FreshOpen
    <3> QED
      BY <1>1, <2>1, <3>1, Quiet, QuietOne DEF Silent
  <2>3. CASE sock' = 0
    BY <1>1, <2>1, <2>3, Quiet, QuietOne
  <2> QED
    BY <1>4, <2>2, <2>3 DEF Connect
<1>5. CASE ReadAhead
  <2> PICK n \in 1..Len(wire[sock]) :
         /\ rx' = rx \o SubSeq(wire[sock], 1, n)
         /\ wire' = [wire EXCEPT ![sock] = SubSeq(@, n + 1, Len(@))]
    BY <1>5 DEF ReadAhead
  <2>1. pc # "wait" /\ sock \in Conns /\ UNCHANGED <<sock, req, at>>
    BY <1>0, <1>5 DEF ReadAhead, tcp, crane
  <2>2. wire[sock] \in Seq(Pieces) /\ n \in 0..Len(wire[sock])
    BY <1>0, <2>1
  <2>3. /\ Silent(SubSeq(wire[sock], 1, n))
        /\ Silent(SubSeq(wire[sock], n + 1, Len(wire[sock])))
        /\ SubSeq(wire[sock], 1, n) \in Seq(Pieces)
    <3>1. Silent(wire[sock])
      BY <2>1, Quiet DEF Conns
    <3> QED
      BY <2>2, <3>1, SilentCut, Cut
  <2>4. Silent(rx')
    BY <1>0, <2>1, <2>3, Quiet, SilentGlue
  <2>5. wire'[sock] = SubSeq(wire[sock], n + 1, Len(wire[sock]))
    BY <1>0, <2>1
  <2> QED
    BY <1>1, <2>1, <2>3, <2>4, <2>5, Quiet, QuietOne
<1>6. CASE Consume
  <2>1. PICK n \in 0..Len(rx) : rx' = SubSeq(rx, n + 1, Len(rx))
    BY <1>6 DEF Consume
  <2>2. pc # "wait" /\ UNCHANGED <<sock, wire, req, at>>
    BY <1>6 DEF Consume, tcp, net, crane
  <2>3. Silent(rx')
    BY <1>0, <2>1, <2>2, Quiet, SilentCut
  <2> QED
    BY <1>1, <2>2, <2>3, Quiet, QuietOne
<1> QED
  BY <1>2, <1>3, <1>4, <1>5, <1>6

\* The line is sent
LEMMA OneSend ==
  ASSUME ReplyInv, Send
  PROVE  OneReply'
<1> SUFFICES ASSUME ~torn
             PROVE  NotForeign' /\ Mine(rx)' /\ OnePlace(sock)'
  BY DEF OneReply, OnePlace, Mine, Send, tcp
<1> PICK n \in 0..Len(wire[sock]) :
      wire' = [wire EXCEPT ![sock] = SubSeq(@, n + 1, Len(@))]
  BY DEF Send
<1>1. /\ sock \in Conns /\ pc # "wait" /\ pc' = "wait"
      /\ UNCHANGED <<call, result, rx, sock, at>>
      /\ wire \in [Conns -> Seq(Pieces)] /\ req \in [Conns -> Seq(Calls)]
  BY BoundAssumption
     DEF Send, Goto, tcp, crane, ReplyInv, TypeInv, TypeOK, TcpOK, NetOK, Conns
<1>2. /\ NotForeign /\ Silent(rx)
      /\ Silent(wire[sock]) /\ req[sock] = <<>> /\ at[sock] = 0
  BY <1>1, Quiet DEF Conns
<1>3. Silent(wire'[sock])
  <2>1. wire[sock] \in Seq(Pieces) /\ wire'[sock] = SubSeq(wire[sock], n + 1, Len(wire[sock]))
    BY <1>1
  <2> QED
    BY <1>2, <2>1, SilentCut
<1>4. req'[sock] \in {<<>>, <<call>>}
  <2>1. req'[sock] = IF alive[sock] THEN Append(<<>>, call) ELSE <<>>
    BY <1>1, <1>2 DEF Send
  <2> QED
    BY <2>1
<1>5. NotForeign' /\ Mine(rx)'
  BY <1>1, <1>2 DEF NotForeign, Mine, Silent
<1>6. OnePlace(sock)'
  BY <1>1, <1>2, <1>3, <1>4 DEF OnePlace, Mine, Silent
<1> QED
  BY <1>5, <1>6

\* A piece arrives
LEMMA OneReceive ==
  ASSUME ReplyInv, Receive
  PROVE  OneReply'
<1> DEFINE head == Head(wire[sock])
           line == Append(rx, head)
           rest == Tail(wire[sock])
<1> SUFFICES ASSUME ~torn'
             PROVE  OneReply'
  BY DEF OneReply
<1>0. /\ sock \in Conns /\ sock # 0 /\ pc = "wait" /\ UNCHANGED <<call, sock, req, at>>
      /\ wire \in [Conns -> Seq(Pieces)] /\ rx \in Seq(Pieces) /\ wire[sock] # <<>>
      /\ result \in [Calls -> {"none", "waiting", "ok", "failed", "foreign"}]
  BY BoundAssumption
     DEF Receive, tcp, crane, ReplyInv, TypeInv, TypeOK, BodyOK, TcpOK, NetOK, Conns
<1>1. ~torn
  BY DEF Receive
<1>2. NotForeign /\ Mine(rx) /\ OnePlace(sock)
  BY <1>0, <1>1 DEF ReplyInv, OneReply
<1>3. /\ head = wire[sock][1] /\ 1 \in 1..Len(wire[sock])
      /\ rest \in Seq(Pieces) /\ Len(rest) = Len(wire[sock]) - 1
      /\ \A i \in 1..Len(rest) : rest[i] = wire[sock][i + 1] /\ i + 1 \in 1..Len(wire[sock])
  BY <1>0
<1>4. /\ Len(line) = Len(rx) + 1 /\ line[Len(rx) + 1] = head
      /\ \A i \in 1..Len(rx) : line[i] = rx[i]
      /\ \A i \in 1..Len(line) : i \in 1..Len(rx) \/ i = Len(rx) + 1
  BY <1>0
<1> HIDE DEF head, line, rest
<1>5. ASSUME NEW n \in 0..Len(rest), wire' = [wire EXCEPT ![sock] = SubSeq(rest, n + 1, Len(rest))]
      PROVE  wire'[sock] = SubSeq(rest, n + 1, Len(rest))
  BY <1>0, <1>5
<1>6. 0 \in 0..Len(rest)
  BY <1>3
<1>7. Mine(rest)
  <2> SUFFICES ASSUME NEW i \in 1..Len(rest), IsReply(rest[i])
               PROVE  /\ pc = "wait" /\ rest[i].of = call
                      /\ \A j \in 1..Len(rest) : IsReply(rest[j]) => i = j
    BY DEF Mine
  <2>1. Mine(wire[sock])
    BY <1>2 DEF OnePlace
  <2>2. rest[i].of = call
    BY <1>0, <1>3, <2>1 DEF Mine
  <2>3. ASSUME NEW j \in 1..Len(rest), IsReply(rest[j])
        PROVE  i = j
    <3>1. i + 1 = j + 1
      BY <1>3, <2>1, <2>3 DEF Mine
    <3> QED
      BY <1>3, <3>1
  <2> QED
    BY <1>0, <2>2, <2>3
\* its beginning or middle is kept
<1>8. CASE /\ head.part # "end" /\ rx' = line
           /\ wire' = [wire EXCEPT ![sock] = SubSeq(rest, 0 + 1, Len(rest))]
           /\ UNCHANGED <<pc, result>>
  <2>1. wire'[sock] = rest
    <3>1. SubSeq(rest, 0 + 1, Len(rest)) = rest
      BY <1>3
    <3> QED
      BY <1>5, <1>6, <1>8, <3>1
  <2>2. CASE IsReply(head)
    <3>1. Silent(rest)
      <4> SUFFICES ASSUME NEW i \in 1..Len(rest), IsReply(rest[i])
                   PROVE  FALSE
        BY DEF Silent
      <4>1. i + 1 = 1
        BY <1>2, <1>3, <2>2 DEF OnePlace, Mine
      <4> QED
        BY <1>3, <4>1
    <3>2. /\ Silent(rx) /\ at[sock] = 0 /\ req[sock] = <<>> /\ head.of = call
      BY <1>2, <1>3, <2>2 DEF OnePlace, Mine, Silent
    <3>3. Mine(line)
      BY <1>0, <1>4, <3>2 DEF Mine, Silent
    <3> QED
      BY <1>0, <1>2, <1>8, <2>1, <3>1, <3>2, <3>3
         DEF OneReply, OnePlace, Mine, Silent, NotForeign
  <2>3. CASE ~IsReply(head)
    <3>1. Mine(line) /\ (~Silent(line) => ~Silent(rx))
      BY <1>2, <1>4, <2>3 DEF Mine, Silent
    <3>2. ~Silent(rest) => ~Silent(wire[sock])
      BY <1>3 DEF Silent
    <3>3. OnePlace(sock)'
      BY <1>0, <1>2, <1>7, <1>8, <2>1, <3>1, <3>2 DEF OnePlace, Mine, Silent
    <3> QED
      BY <1>0, <1>2, <1>8, <3>1, <3>3 DEF OneReply, Mine, NotForeign
  <2> QED
    BY <2>2, <2>3
\* its end makes the line, which is whole, an EVT ...
<1>9. ASSUME Whole(line)
      PROVE  Len(rx) = 1 /\ line[1] = rx[1] /\ line[1].part # "end"
  <2>1. Len(line) = 2 /\ line[1].part # "end"
    BY <1>9 DEF Whole
  <2>2. Len(rx) = 1
    <3> DEFINE n == Len(rx)
    <3>1. n \in Nat
      BY <1>0
    <3>2. n + 1 = 2
      BY <1>4, <2>1
    <3> HIDE DEF n
    <3>3. n = 1
      BY <3>1, <3>2
    <3> QED
      BY <3>3 DEF n
  <2> QED
    BY <1>4, <2>1, <2>2
<1>10. CASE /\ Whole(line) /\ line[1].part = "evt" /\ rx' = <<>>
            /\ wire' = [wire EXCEPT ![sock] = SubSeq(rest, 0 + 1, Len(rest))]
            /\ UNCHANGED <<pc, result>>
  <2>1. wire'[sock] = rest
    <3>1. SubSeq(rest, 0 + 1, Len(rest)) = rest
      BY <1>3
    <3> QED
      BY <1>5, <1>6, <1>10, <3>1
  <2>2. ~Silent(rest) => ~Silent(wire[sock])
    BY <1>3 DEF Silent
  <2>3. OnePlace(sock)'
    BY <1>0, <1>2, <1>7, <1>10, <2>1, <2>2 DEF OnePlace, Mine, Silent
  <2> QED
    BY <1>0, <1>2, <1>10, <2>3 DEF OneReply, Mine, NotForeign
\* ... or the reply to the call that waits, and nothing more is due
<1>11. CASE /\ Whole(line) /\ line[1].part # "evt"
            /\ \E n \in 0..Len(rest) :
                 /\ rx' = SubSeq(rest, 1, n)
                 /\ wire' = [wire EXCEPT ![sock] = SubSeq(rest, n + 1, Len(rest))]
            /\ Return(IF line[1].part # "ok" THEN "failed"
                      ELSE IF line[1].of = call THEN "ok" ELSE "foreign")
  <2> PICK n \in 0..Len(rest) :
        /\ rx' = SubSeq(rest, 1, n)
        /\ wire' = [wire EXCEPT ![sock] = SubSeq(rest, n + 1, Len(rest))]
    BY <1>11
  <2>1. rx[1] \in Pieces /\ 1 \in 1..Len(rx) /\ IsReply(rx[1])
    <3>1. Len(rx) = 1 /\ rx[1].part # "end" /\ rx[1].part # "evt"
      BY <1>9, <1>11
    <3>2. 1 \in 1..Len(rx)
      BY <3>1
    <3>3. rx[1] \in Pieces
      <4>1. rx \in Seq(Pieces)
        BY <1>0
      <4> QED
        BY <3>2, <4>1
    <3> QED
      BY <3>1, <3>2, <3>3 DEF IsReply, Pieces
  <2>2. rx[1].of = call /\ Silent(wire[sock]) /\ at[sock] = 0 /\ req[sock] = <<>>
    BY <1>2, <2>1 DEF OnePlace, Mine, Silent
  <2>3. NotForeign'
    <3>1. \E answer \in {"ok", "failed"} : result' = [result EXCEPT ![call] = answer]
      BY <1>9, <1>11, <2>2 DEF Return
    <3> QED
      BY <1>0, <1>2, <3>1 DEF NotForeign
  <2>4. Silent(rest)
    BY <1>3, <2>2 DEF Silent
  <2>5. Silent(rx') /\ Silent(wire'[sock])
    BY <1>3, <1>5, <2>4, SilentCut
  <2> QED
    BY <1>0, <2>2, <2>3, <2>5, QuietOne
<1>12. head.part = "end" => Whole(line)
  BY DEF Receive, head, line
<1> QED
  BY <1>8, <1>10, <1>11, <1>12 DEF Receive, head, line, rest

\* The crane executes and replies
LEMMA OneExecute ==
  ASSUME ReplyInv, NEW k \in Conns, Execute(k)
  PROVE  OneReply'
<1>1. UNCHANGED <<pc, call, result, rx, torn, sock, wire>>
  BY DEF Execute, body, tcp
<1>2. /\ req \in [Conns -> Seq(Calls)] /\ at \in [Conns -> 0..MaxCalls]
      /\ sock # 0 => sock \in Conns
  BY BoundAssumption DEF ReplyInv, TypeInv, TypeOK, TcpOK, NetOK, CraneOK, Conns
<1>3. CASE k # sock
  <2>1. sock # 0 => req'[sock] = req[sock] /\ at'[sock] = at[sock]
    BY <1>2, <1>3 DEF Execute
  <2> QED
    BY <1>1, <2>1, LossOne
<1>4. CASE k = sock
  <2>1. CASE torn
    BY <1>1, <2>1 DEF OneReply
  <2>2. CASE ~torn
    <3>1. /\ NotForeign /\ Mine(rx) /\ OnePlace(sock) /\ sock \in Conns /\ req[sock] # <<>>
      BY <1>2, <1>4, <2>2 DEF ReplyInv, OneReply, Execute, Conns
    <3>2. pc = "wait" /\ req[sock] = <<call>> /\ Silent(wire[sock]) /\ Silent(rx)
      BY <3>1 DEF OnePlace
    <3>3. at'[sock] = call /\ req'[sock] = <<>>
      <4>1. at'[sock] = Head(<<call>>) /\ req'[sock] = Tail(<<call>>)
        BY <1>2, <1>4, <3>1, <3>2 DEF Execute
      <4> QED
        BY <4>1
    <3>4. OnePlace(sock)'
      BY <1>1, <3>2, <3>3 DEF OnePlace, Mine, Silent
    <3> QED
      BY <1>1, <3>1, <3>4 DEF OneReply, NotForeign, Mine
  <2> QED
    BY <2>1, <2>2
<1> QED
  BY <1>3, <1>4

LEMMA OneAnswer ==
  ASSUME ReplyInv, NEW k \in Conns, Reply(k)
  PROVE  OneReply'
<1>1. UNCHANGED <<pc, call, result, rx, torn, sock, req>> /\ at[k] # 0
  BY DEF Reply, body, tcp
<1>2. /\ wire \in [Conns -> Seq(Pieces)] /\ at \in [Conns -> 0..MaxCalls]
      /\ sock # 0 => sock \in Conns
  BY BoundAssumption DEF ReplyInv, TypeInv, TypeOK, TcpOK, NetOK, CraneOK, Conns
<1> PICK reply \in {"ok", "err"} :
      wire' = [wire EXCEPT ![k] = IF alive[k] THEN @ \o Line(reply, at[k]) ELSE @]
  BY DEF Reply
<1>3. CASE k # sock
  <2>1. sock # 0 => wire'[sock] = wire[sock] /\ at'[sock] = at[sock]
    BY <1>2, <1>3 DEF Reply
  <2> QED
    BY <1>1, <2>1, LossOne
<1>4. CASE k = sock /\ ~torn
  <2>1. /\ NotForeign /\ Mine(rx) /\ OnePlace(sock) /\ sock \in Conns /\ sock # 0
    BY <1>2, <1>4, BoundAssumption DEF ReplyInv, OneReply, Conns
  <2>2. /\ pc = "wait" /\ at[sock] = call /\ req[sock] = <<>>
        /\ Silent(wire[sock]) /\ Silent(rx)
    BY <1>1, <1>4, <2>1 DEF OnePlace
  <2>3. at'[sock] = 0
    BY <1>2, <1>4 DEF Reply
  <2>4. Mine(wire'[sock])
    <3>1. CASE ~alive[k]
      <4>1. wire'[sock] = wire[sock]
        BY <1>2, <1>4, <3>1
      <4> QED
        BY <2>2, <4>1 DEF Mine, Silent
    <3>2. CASE alive[k]
      <4>1. wire'[sock] = wire[sock] \o Line(reply, call) /\ wire[sock] \in Seq(Pieces)
        BY <1>2, <1>4, <2>1, <2>2, <3>2
      <4>2. Line(reply, call) \in Seq(Pieces) /\ Len(Line(reply, call)) = 2
        BY <1>2, <2>1, <2>2, LineType DEF Line
      <4>3. ASSUME NEW i \in 1..Len(wire'[sock]), IsReply(wire'[sock][i])
            PROVE  i = Len(wire[sock]) + 1 /\ wire'[sock][i].of = call
        <5>1. \/ i \in 1..Len(wire[sock]) /\ wire'[sock][i] = wire[sock][i]
              \/ /\ i - Len(wire[sock]) \in 1..Len(Line(reply, call))
                 /\ wire'[sock][i] = Line(reply, call)[i - Len(wire[sock])]
          <6> DEFINE answer == Line(reply, call)
                     before == wire[sock]
                     after == wire'[sock]
          <6>1. /\ answer \in Seq(Pieces) /\ before \in Seq(Pieces)
                /\ after = before \o answer /\ i \in 1..Len(after)
            BY <4>1, <4>2
          <6> HIDE DEF answer, before, after
          <6>2. \/ i \in 1..Len(before) /\ after[i] = before[i]
                \/ i - Len(before) \in 1..Len(answer) /\ after[i] = answer[i - Len(before)]
            BY <6>1, Glue
          <6> QED
            BY <6>2 DEF answer, before, after
        <5>2. ~(i \in 1..Len(wire[sock]) /\ wire'[sock][i] = wire[sock][i])
          BY <2>2, <4>3 DEF Silent
        <5>3. ~IsReply(Line(reply, call)[2]) /\ Line(reply, call)[1].of = call
          BY DEF IsReply, Line, Piece
        <5>4. CASE i - Len(wire[sock]) = 1
          <6>1. i = Len(wire[sock]) + 1
            BY <4>1, <5>4
          <6> QED
            BY <5>1, <5>2, <5>3, <5>4, <6>1
        <5>5. CASE i - Len(wire[sock]) = 2
          BY <4>3, <5>1, <5>2, <5>3, <5>5
        <5>6. i - Len(wire[sock]) = 1 \/ i - Len(wire[sock]) = 2
          <6>1. i - Len(wire[sock]) \in 1..2
            BY <4>2, <5>1, <5>2
          <6> QED
            BY <6>1
        <5> QED
          BY <5>4, <5>5, <5>6
      <4> QED
        BY <2>2, <4>3 DEF Mine
    <3> QED
      BY <3>1, <3>2
  <2>5. Mine(wire[sock])'
    BY <1>1, <2>4 DEF Mine
  <2>6. (at[sock])' = 0 /\ (req[sock])' = <<>> /\ Silent(rx)'
    BY <1>1, <2>2, <2>3 DEF Silent
  <2>7. OnePlace(sock)'
    BY <2>5, <2>6 DEF OnePlace
  <2> QED
    BY <1>1, <2>1, <2>7 DEF OneReply, NotForeign, Mine
<1>5. CASE torn
  BY <1>1, <1>5 DEF OneReply
<1> QED
  BY <1>3, <1>4, <1>5

LEMMA OneBroadcast ==
  ASSUME ReplyInv, Broadcast
  PROVE  OneReply'
<1>1. UNCHANGED <<pc, call, result, rx, torn, sock, req, at>>
  BY DEF Broadcast, body, tcp
<1>2. wire \in [Conns -> Seq(Pieces)] /\ (sock # 0 => sock \in Conns)
  BY BoundAssumption DEF ReplyInv, TypeInv, TypeOK, TcpOK, NetOK, Conns
<1>3. CASE torn
  BY <1>1, <1>3 DEF OneReply
<1>4. CASE ~torn
  <2>1. NotForeign /\ Mine(rx) /\ (sock # 0 => OnePlace(sock))
    BY <1>4 DEF ReplyInv, OneReply
  <2>2. ASSUME sock # 0
        PROVE  OnePlace(sock)'
    <3>1. ASSUME NEW i \in 1..Len(wire'[sock]), IsReply(wire'[sock][i])
          PROVE  i \in 1..Len(wire[sock]) /\ wire'[sock][i] = wire[sock][i]
      <4>1. CASE ~alive[sock]
        <5>1. wire'[sock] = wire[sock]
          BY <1>2, <2>2, <4>1 DEF Broadcast
        <5> QED
          BY <5>1
      <4>2. CASE alive[sock]
        <5>1. wire'[sock] = wire[sock] \o Line("evt", 0) /\ wire[sock] \in Seq(Pieces)
          BY <1>2, <2>2, <4>2 DEF Broadcast
        <5>2. Line("evt", 0) \in Seq(Pieces) /\ Len(Line("evt", 0)) = 2
          BY BoundAssumption, LineType DEF Line
        <5>3. \/ i \in 1..Len(wire[sock]) /\ wire'[sock][i] = wire[sock][i]
              \/ /\ i - Len(wire[sock]) \in 1..Len(Line("evt", 0))
                 /\ wire'[sock][i] = Line("evt", 0)[i - Len(wire[sock])]
          BY <5>1, <5>2, Glue
        <5>4. \A j \in 1..2 : ~IsReply(Line("evt", 0)[j])
          BY DEF IsReply, Line, Piece
        <5> QED
          BY <3>1, <5>2, <5>3, <5>4
      <4> QED
        BY <4>1, <4>2
    <3>2. Mine(wire[sock])' /\ (~Silent(wire'[sock]) => ~Silent(wire[sock]))
      BY <1>1, <2>1, <2>2, <3>1 DEF OnePlace, Mine, Silent
    <3> QED
      BY <1>1, <2>1, <2>2, <3>2 DEF OnePlace, Silent
  <2> QED
    BY <1>1, <2>1, <2>2 DEF OneReply, NotForeign, Mine
<1> QED
  BY <1>3, <1>4

\* The reconnect thread puts a fresh connection in the place of the one in use
LEMMA OneSwap ==
  ASSUME ReplyInv, MonitorSwaps
  PROVE  OneReply'
<1>1. UNCHANGED <<pc, call, result, rx, torn, req, at>>
  BY DEF MonitorSwaps, body, crane
<1>2. (torn \/ (NotForeign /\ Mine(rx))) /\ alive \in [Conns -> BOOLEAN]
  BY DEF ReplyInv, OneReply, TypeInv, TypeOK, NetOK
<1> DEFINE hung == [k \in Conns |-> alive[k] /\ k # sock]
<1>3. CASE sock' = 0
  BY <1>1, <1>2, <1>3 DEF OneReply, NotForeign, Mine
<1>4. CASE Open(hung)
  <2>1. hung \in [Conns -> BOOLEAN] /\ \A k \in Conns : hung[k] => alive[k]
    BY <1>2
  <2>2. /\ sock' \in Conns
        /\ wire[sock'] = <<>> /\ req[sock'] = <<>> /\ at[sock'] = 0
    BY <1>4, <2>1, FreshOpen
  <2>3. wire'[sock'] = <<>> /\ req'[sock'] = <<>> /\ at'[sock'] = 0
    BY <1>1, <2>2 DEF MonitorSwaps
  <2>4. OnePlace(sock)'
    BY <2>3 DEF OnePlace, Mine, Silent
  <2> QED
    BY <1>1, <1>2, <2>4 DEF OneReply, NotForeign, Mine
<1> QED
  BY <1>3, <1>4 DEF MonitorSwaps

LEMMA OneStep ==
  ASSUME ReplyInv, [Next]_vars
  PROVE  OneReply'
<1>0. /\ wire \in [Conns -> Seq(Pieces)] /\ req \in [Conns -> Seq(Calls)]
      /\ sock # 0 => sock \in Conns
  BY BoundAssumption DEF ReplyInv, TypeInv, TypeOK, TcpOK, NetOK, Conns
<1>1. ASSUME NEW k \in Conns, Dies(k) \/ RequestsLost(k)
      PROVE  OneReply'
  <2>1. UNCHANGED <<pc, call, result, rx, torn, sock, at>>
    BY <1>1 DEF Dies, RequestsLost, body, tcp, crane
  <2>2. sock # 0 => wire'[sock] \in {wire[sock], <<>>} /\ req'[sock] \in {req[sock], <<>>}
    BY <1>0, <1>1 DEF Dies, RequestsLost
  <2> QED
    BY <2>1, <2>2, LossOne
<1>2. CASE CraneRestarts
  <2>1. UNCHANGED <<pc, call, result, rx, torn, sock, wire>>
    BY <1>2 DEF CraneRestarts, body, tcp
  <2>2. sock # 0 => req'[sock] = <<>> /\ at'[sock] = 0
    BY <1>0, <1>2 DEF CraneRestarts
  <2> QED
    BY <2>1, <2>2, LossOne
<1>3. CASE ReceiveEof \/ MonitorSees \/ UNCHANGED vars
  <2>1. UNCHANGED <<pc, call, result, rx, torn, sock, wire, req, at>>
    BY <1>3 DEF ReceiveEof, MonitorSees, vars, body, tcp, net, crane
  <2> QED
    BY <2>1, LossOne
<1> QED
  BY <1>1, <1>2, <1>3, OneBefore, OneSend, OneReceive, OneExecute, OneAnswer, OneBroadcast,
     OneSwap DEF Next, CraneCmd

LEMMA ReplyInvariant == Spec => []ReplyInv
<1>1. Init => ReplyInv
  BY ReplyInit, TypeInit DEF ReplyInv
<1>2. ReplyInv /\ [Next]_vars => ReplyInv'
  BY TypeStep, FreshStep, OneStep DEF ReplyInv
<1> QED
  BY <1>1, <1>2, PTL DEF Spec

\* An OK is taken for that of another call only after a torn line was taken for a
\* reply: closing the socket at a timeout keeps every other late reply away, however
\* connections change under a call (WASH_ROBOT.cpp:866-885)
THEOREM LateRepliesKeptAway == Spec => []ForeignOnlyIfTorn
<1>1. ReplyInv => ForeignOnlyIfTorn
  BY DEF ReplyInv, OneReply, NotForeign, ForeignOnlyIfTorn
<1> QED
  BY <1>1, ReplyInvariant, PTL
=============================================================================
