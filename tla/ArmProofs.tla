----------------------------- MODULE ArmProofs ------------------------------
(***************************************************************************)
(* Arm for any number of connections and any commands: its types, that a   *)
(* motor that was enabled and not disabled keeps its flag, or a routine    *)
(* that took it gives it back, and that the feedback loop does not send a  *)
(* motor the frame without torque.                                         *)
(***************************************************************************)
EXTENDS Arm, TLAPS

-----------------------------------------------------------------------------
(* The invariant *)

CalAt  == {"cal.seek", "cal.zero", "cal.end"}
LrAt   == {"lr.seek", "lr.back", "lr.centre", "lr.zero", "lr.done", "lr.end"}
SlotAt == {"slot.ramp", "slot.end"}
Entry  == {"-", "en.limp", "dis.flags", "zero.limp", "home.begin", "cal.begin", "lr.limp", "slot.begin"}

\* A thread keeps a flag it took only within a routine that gives it back
ThreadOK(t) ==
  /\ th[t].at = "-" => th[t].sub = "-"
  /\ th[t].got => th[t].sub \in {"home.ramp", "home.end"} \cup CalAt \cup LrAt \cup SlotAt
  /\ th[t].peer => th[t].sub \in {"en.window", "en.arm"} \cup CalAt \cup LrAt
  /\ th[t].sub \in CalAt \cup {"cal.begin"} => th[t].m = M1
  /\ th[t].sub \in LrAt \cup SlotAt \cup {"lr.limp", "lr.begin", "slot.begin"} => th[t].m = M2

Threads == \A t \in Thread : ThreadOK(t)

ArmInv == Threads /\ FlagNotLost

Alone(t) == \A u \in Thread : u # t => th'[u] = th[u]

LEMMA Peers ==
  /\ M1 \in Motor /\ M2 \in Motor /\ M1 # M2
  /\ \A m \in Motor : Peer(m) \in Motor /\ Peer(m) # m /\ (\A n \in Motor : n = m \/ n = Peer(m))
BY DEF M1, M2, Motor, Peer

-----------------------------------------------------------------------------
(* What the control operators do to the record of a thread *)

LEMMA GoEffect ==
  ASSUME th \in [Thread -> ThreadType], NEW t \in Thread, NEW x \in SubPlace, Go(t, x)
  PROVE  /\ th' \in [Thread -> ThreadType] /\ Alone(t)
         /\ th'[t].sub = x /\ th'[t].at = th[t].at /\ th'[t].m = th[t].m
         /\ th'[t].got = th[t].got /\ th'[t].peer = th[t].peer
BY DEF Go, ThreadType, Alone

LEMMA JumpEffect ==
  ASSUME th \in [Thread -> ThreadType], NEW t \in Thread, NEW x \in Place, Jump(t, x)
  PROVE  /\ th' \in [Thread -> ThreadType] /\ Alone(t)
         /\ th'[t].sub = th[t].sub /\ th'[t].at = x /\ th'[t].m = th[t].m
         /\ th'[t].got = th[t].got /\ th'[t].peer = th[t].peer
BY DEF Jump, ThreadType, Alone

LEMMA IdleIs ==
  /\ Idle \in ThreadType
  /\ Idle.at = "-" /\ Idle.sub = "-" /\ Idle.got = FALSE /\ Idle.peer = FALSE /\ Idle.m = M1
<1>1. "-" \in Place /\ "-" \in SubPlace /\ NoCommand \in (Kinds \cup {"-", "STARTUP"}) \X Motor
  BY Peers DEF Place, SubPlace, NoCommand
<1>2. FALSE \in BOOLEAN /\ M1 \in Motor
  BY Peers
<1>3. Idle \in ThreadType
  BY <1>1, <1>2, Zenon DEF Idle, ThreadType
<1> QED
  BY <1>3 DEF Idle

LEMMA FinishEffect ==
  ASSUME th \in [Thread -> ThreadType], NEW t \in Thread, Finish(t)
  PROVE  th' \in [Thread -> ThreadType] /\ Alone(t) /\ th'[t] = Idle
BY IdleIs DEF Finish, Alone

LEMMA CallEffect ==
  ASSUME th \in [Thread -> ThreadType], NEW t \in Thread, NEW x \in SubPlace, NEW m \in Motor,
         NEW next \in Place, Call(t, x, m, next)
  PROVE  /\ th' \in [Thread -> ThreadType] /\ Alone(t)
         /\ th'[t].sub = x /\ th'[t].at = next /\ th'[t].m = m
         /\ th'[t].got = th[t].got /\ th'[t].peer = th[t].peer
<1> DEFINE r == [th[t] EXCEPT !.sub = x, !.m = m, !.at = next]
<1>1. th' = [th EXCEPT ![t] = r]
  BY DEF Call
<1>2. /\ r \in ThreadType /\ r.sub = x /\ r.at = next /\ r.m = m
      /\ r.got = th[t].got /\ r.peer = th[t].peer
  BY DEF ThreadType
<1> HIDE DEF r
<1> QED
  BY <1>1, <1>2 DEF Alone

\* The record of a thread whose routine ends
LEMMA ReturnEffect ==
  ASSUME th \in [Thread -> ThreadType], NEW t \in Thread, NEW b \in BOOLEAN, Return(t, b)
  PROVE  /\ th' \in [Thread -> ThreadType] /\ Alone(t)
         /\ th'[t].sub = "-" /\ th'[t].at = th[t].at /\ th'[t].m = th[t].m
         /\ th'[t].got = FALSE /\ th'[t].peer = FALSE
<1> DEFINE r == [th[t] EXCEPT !.sub = "-", !.ok = b, !.got = FALSE, !.peer = FALSE]
<1>1. th' = [th EXCEPT ![t] = r]
  BY DEF Return
<1>2. "-" \in SubPlace /\ FALSE \in BOOLEAN
  BY DEF SubPlace
<1>3. /\ r \in ThreadType /\ r.sub = "-" /\ r.at = th[t].at /\ r.m = th[t].m
      /\ r.got = FALSE /\ r.peer = FALSE
  BY <1>2 DEF ThreadType
<1> HIDE DEF r
<1> QED
  BY <1>1, <1>3 DEF Alone

\* A flag taken, of one motor ...
TakesOne(t, x, g) ==
  th' = [th EXCEPT ![t].got = g, ![t].sub = x]

LEMMA TakeEffect ==
  ASSUME th \in [Thread -> ThreadType], NEW t \in Thread, NEW x \in SubPlace,
         NEW g \in BOOLEAN, TakesOne(t, x, g)
  PROVE  /\ th' \in [Thread -> ThreadType] /\ Alone(t)
         /\ th'[t].sub = x /\ th'[t].at = th[t].at /\ th'[t].m = th[t].m
         /\ th'[t].got = g /\ th'[t].peer = th[t].peer
<1> DEFINE r == [th[t] EXCEPT !.got = g, !.sub = x]
<1>1. th' = [th EXCEPT ![t] = r]
  BY DEF TakesOne
<1>2. r \in ThreadType
  <2> DEFINE q == [th[t] EXCEPT !.sub = x]
  <2>1. q \in ThreadType
    BY DEF ThreadType
  <2>2. r = [q EXCEPT !.got = g]
    BY DEF ThreadType
  <2> HIDE DEF q
  <2> QED
    BY <2>1, <2>2, Zenon DEF ThreadType
<1>3. r.sub = x /\ r.at = th[t].at /\ r.m = th[t].m
  BY DEF ThreadType
<1>4. r.got = g /\ r.peer = th[t].peer
  BY Zenon DEF ThreadType
<1> HIDE DEF r
<1>5. th' \in [Thread -> ThreadType] /\ Alone(t) /\ th'[t] = r
  BY <1>1, <1>2 DEF Alone
<1>6. th'[t].sub = x /\ th'[t].at = th[t].at /\ th'[t].m = th[t].m
  BY <1>3, <1>5
<1>7. th'[t].got = g /\ th'[t].peer = th[t].peer
  BY <1>4, <1>5, Zenon
<1> QED
  BY <1>5, <1>6, <1>7, Zenon

\* ... of both ...
TakesBoth(t, x, g, p) ==
  th' = [th EXCEPT ![t].got = g, ![t].peer = p, ![t].sub = x]

LEMMA TakeBothEffect ==
  ASSUME th \in [Thread -> ThreadType], NEW t \in Thread, NEW x \in SubPlace,
         NEW g \in BOOLEAN, NEW p \in BOOLEAN, TakesBoth(t, x, g, p)
  PROVE  /\ th' \in [Thread -> ThreadType] /\ Alone(t)
         /\ th'[t].sub = x /\ th'[t].at = th[t].at /\ th'[t].m = th[t].m
         /\ th'[t].got = g /\ th'[t].peer = p
<1> DEFINE r == [th[t] EXCEPT !.got = g, !.peer = p, !.sub = x]
<1>1. th' = [th EXCEPT ![t] = r]
  BY DEF TakesBoth
<1>2. r \in ThreadType
  <2> DEFINE q == [th[t] EXCEPT !.sub = x]
  <2>1. q \in ThreadType
    BY DEF ThreadType
  <2>2. r = [q EXCEPT !.got = g, !.peer = p]
    BY DEF ThreadType
  <2> HIDE DEF q
  <2> QED
    BY <2>1, <2>2, Zenon DEF ThreadType
<1>3. r.sub = x /\ r.at = th[t].at /\ r.m = th[t].m
  BY DEF ThreadType
<1>4. r.got = g /\ r.peer = p
  BY Zenon DEF ThreadType
<1> HIDE DEF r
<1>5. th' \in [Thread -> ThreadType] /\ Alone(t) /\ th'[t] = r
  BY <1>1, <1>2 DEF Alone
<1>6. th'[t].sub = x /\ th'[t].at = th[t].at /\ th'[t].m = th[t].m
  BY <1>3, <1>5
<1>7. th'[t].got = g /\ th'[t].peer = p
  BY <1>4, <1>5, Zenon
<1> QED
  BY <1>5, <1>6, <1>7, Zenon

\* ... of the peer alone
TakesPeer(t, x, p) ==
  th' = [th EXCEPT ![t].peer = p, ![t].sub = x]

LEMMA PeerEffect ==
  ASSUME th \in [Thread -> ThreadType], NEW t \in Thread, NEW x \in SubPlace,
         NEW p \in BOOLEAN, TakesPeer(t, x, p)
  PROVE  /\ th' \in [Thread -> ThreadType] /\ Alone(t)
         /\ th'[t].sub = x /\ th'[t].at = th[t].at /\ th'[t].m = th[t].m
         /\ th'[t].got = th[t].got /\ th'[t].peer = p
<1> DEFINE r == [th[t] EXCEPT !.peer = p, !.sub = x]
<1>1. th' = [th EXCEPT ![t] = r]
  BY DEF TakesPeer
<1>2. r \in ThreadType
  <2> DEFINE q == [th[t] EXCEPT !.sub = x]
  <2>1. q \in ThreadType
    BY DEF ThreadType
  <2>2. r = [q EXCEPT !.peer = p]
    BY DEF ThreadType
  <2> HIDE DEF q
  <2> QED
    BY <2>1, <2>2, Zenon DEF ThreadType
<1>3. r.sub = x /\ r.at = th[t].at /\ r.m = th[t].m
  BY DEF ThreadType
<1>4. r.got = th[t].got /\ r.peer = p
  BY Zenon DEF ThreadType
<1> HIDE DEF r
<1>5. th' \in [Thread -> ThreadType] /\ Alone(t) /\ th'[t] = r
  BY <1>1, <1>2 DEF Alone
<1>6. th'[t].sub = x /\ th'[t].at = th[t].at /\ th'[t].m = th[t].m
  BY <1>3, <1>5
<1>7. th'[t].got = th[t].got /\ th'[t].peer = p
  BY <1>4, <1>5, Zenon
<1> QED
  BY <1>5, <1>6, <1>7, Zenon

\* A routine's result
Results(t, x, b) ==
  th' = [th EXCEPT ![t].sub = x, ![t].ok = b]

LEMMA ResultEffect ==
  ASSUME th \in [Thread -> ThreadType], NEW t \in Thread, NEW x \in SubPlace,
         NEW b \in BOOLEAN, Results(t, x, b)
  PROVE  /\ th' \in [Thread -> ThreadType] /\ Alone(t)
         /\ th'[t].sub = x /\ th'[t].at = th[t].at /\ th'[t].m = th[t].m
         /\ th'[t].got = th[t].got /\ th'[t].peer = th[t].peer
<1> DEFINE r == [th[t] EXCEPT !.sub = x, !.ok = b]
<1>1. th' = [th EXCEPT ![t] = r]
  BY DEF Results
<1>2. r \in ThreadType
  <2> DEFINE q == [th[t] EXCEPT !.sub = x]
  <2>1. q \in ThreadType
    BY DEF ThreadType
  <2>2. r = [q EXCEPT !.ok = b]
    BY DEF ThreadType
  <2> HIDE DEF q
  <2> QED
    BY <2>1, <2>2, Zenon DEF ThreadType
<1>3. r.sub = x /\ r.at = th[t].at /\ r.m = th[t].m
  BY DEF ThreadType
<1>4. r.got = th[t].got /\ r.peer = th[t].peer
  BY Zenon DEF ThreadType
<1> HIDE DEF r
<1>5. th' \in [Thread -> ThreadType] /\ Alone(t) /\ th'[t] = r
  BY <1>1, <1>2 DEF Alone
<1>6. th'[t].sub = x /\ th'[t].at = th[t].at /\ th'[t].m = th[t].m
  BY <1>3, <1>5
<1>7. th'[t].got = th[t].got /\ th'[t].peer = th[t].peer
  BY <1>4, <1>5, Zenon
<1> QED
  BY <1>5, <1>6, <1>7, Zenon

-----------------------------------------------------------------------------
(* The invariant under the kinds of steps *)

\* A step of one thread, given that the thread is as it should be afterwards, and that
\* no motor is left unserved by it
LEMMA StepKeeps ==
  ASSUME ArmInv, NEW t \in Thread, Alone(t), ThreadOK(t)',
         \A m \in Motor : wanted'[m] /\ m \notin wiped' =>
            \/ enabled'[m]
            \/ Owes(t, m)'
            \/ wanted[m] /\ m \notin wiped /\ ~enabled[m] /\ ~Owes(t, m)
  PROVE  ArmInv'
<1>1. Threads'
  BY DEF ArmInv, Threads, ThreadOK, Alone
<1>2. FlagNotLost'
  <2> SUFFICES ASSUME NEW m \in Motor, wanted'[m], m \notin wiped', ~enabled'[m], ~Owes(t, m)'
               PROVE  \E u \in Thread : Owes(u, m)'
    BY DEF FlagNotLost
  <2>1. PICK u \in Thread : Owes(u, m)
    BY DEF ArmInv, FlagNotLost
  <2>2. u # t
    BY <2>1
  <2> QED
    BY <2>1, <2>2 DEF Owes, Alone
<1> QED
  BY <1>1, <1>2 DEF ArmInv

\* A step within a routine that touches no flag: whoever owed owes
LEMMA WithinKeeps ==
  ASSUME ArmInv, NEW t \in Thread, Alone(t), ThreadOK(t)', UNCHANGED <<enabled, wanted, wiped>>,
         th'[t].m = th[t].m, th'[t].got = th[t].got, th'[t].peer = th[t].peer,
         th[t].sub \in {"en.off", "en.window", "en.arm", "en.on"} =>
            th'[t].sub \in {"en.off", "en.window", "en.arm", "en.on"}
  PROVE  ArmInv'
<1>1. \A m \in Motor : Owes(t, m) => Owes(t, m)'
  BY DEF Owes
<1> QED
  BY <1>1, StepKeeps DEF ArmInv, FlagNotLost

\* A step outside the routines: between commands, into one or out of one
LEMMA OutsideKeeps ==
  ASSUME ArmInv, NEW t \in Thread, Alone(t), UNCHANGED <<enabled, wanted, wiped>>,
         th[t].sub = "-", ~th'[t].got, ~th'[t].peer, th'[t].sub \in Entry,
         th'[t].at = "-" => th'[t].sub = "-",
         th'[t].sub = "cal.begin" => th'[t].m = M1,
         th'[t].sub \in {"lr.limp", "slot.begin"} => th'[t].m = M2
  PROVE  ArmInv'
<1>1. ThreadOK(t)'
  BY DEF ThreadOK, Entry, CalAt, LrAt, SlotAt
<1>2. \A m \in Motor : ~Owes(t, m)
  BY DEF ArmInv, Threads, ThreadOK, Owes, CalAt, LrAt, SlotAt
<1> QED
  BY <1>1, <1>2, StepKeeps DEF ArmInv, FlagNotLost

Inv == TypeOK /\ ArmInv

\* A routine takes the flag of its motor, and some take that of the other as well
Facts(t) ==
  /\ th \in [Thread -> ThreadType] /\ th[t] \in ThreadType /\ th[t].m \in Motor
  /\ enabled \in [Motor -> BOOLEAN] /\ wanted \in [Motor -> BOOLEAN]
  /\ ThreadOK(t)

LEMMA FactsHold ==
  ASSUME Inv, NEW t \in Thread
  PROVE  Facts(t)
BY DEF Inv, TypeOK, Facts, ThreadType, ArmInv, Threads

LEMMA TakenBack ==
  ASSUME Inv, NEW t \in Thread, RoutineEnd(t),
         th[t].sub \in {"home.end", "cal.end", "lr.done", "lr.end", "slot.end"}
  PROVE  ArmInv' /\ th' \in [Thread -> ThreadType]
<1>0. Facts(t)
  BY FactsHold
<1>1. th[t].ok \in BOOLEAN
  BY <1>0 DEF Facts, ThreadType
<1>2. Return(t, th[t].ok) /\ enabled' = GivenBack(t) /\ UNCHANGED <<wanted, wiped>>
  BY DEF RoutineEnd, hist
<1>3. /\ th' \in [Thread -> ThreadType] /\ Alone(t)
      /\ th'[t].sub = "-" /\ th'[t].at = th[t].at /\ th'[t].m = th[t].m
      /\ th'[t].got = FALSE /\ th'[t].peer = FALSE
  BY <1>0, <1>1, <1>2, ReturnEffect DEF Facts
<1>4. ThreadOK(t)'
  BY <1>3 DEF ThreadOK, CalAt, LrAt, SlotAt
<1>5. \A m \in Motor : enabled'[m] \/ (~enabled[m] /\ ~Owes(t, m))
  BY <1>2, Peers DEF GivenBack, Owes
<1>6. \A m \in Motor : wanted'[m] /\ m \notin wiped' =>
            \/ enabled'[m]
            \/ Owes(t, m)'
            \/ wanted[m] /\ m \notin wiped /\ ~enabled[m] /\ ~Owes(t, m)
  BY <1>2, <1>5
<1> QED
  BY <1>3, <1>4, <1>6, StepKeeps DEF Inv

LEMMA OneTaken ==
  ASSUME Inv, NEW t \in Thread, NEW m \in Motor, Take(t, m), m = th[t].m, UNCHANGED <<wanted, wiped>>,
         th[t].sub \in {"home.begin", "slot.begin"}
  PROVE  ArmInv' /\ th' \in [Thread -> ThreadType]
<1>0. Facts(t) /\ enabled[m] \in BOOLEAN
  BY FactsHold DEF Facts
<1> DEFINE x == IF th[t].sub = "home.begin" THEN "home.ramp" ELSE "slot.ramp"
<1>1. x \in {"home.ramp", "slot.ramp"} /\ x \in SubPlace /\ (x = "slot.ramp" => th[t].sub = "slot.begin")
  BY DEF SubPlace, Driving
<1>2. TakesOne(t, x, enabled[m])
  BY DEF Take, TakesOne
<1>3. enabled' = [enabled EXCEPT ![m] = FALSE]
  BY DEF Take
<1> HIDE DEF x
<1>4. /\ th' \in [Thread -> ThreadType] /\ Alone(t)
      /\ th'[t].sub = x /\ th'[t].at = th[t].at /\ th'[t].m = th[t].m
      /\ th'[t].got = enabled[m] /\ th'[t].peer = th[t].peer
  BY <1>0, <1>1, <1>2, TakeEffect DEF Facts
<1>5. ThreadOK(t)'
  BY <1>0, <1>1, <1>4 DEF Facts, ThreadOK, CalAt, LrAt, SlotAt
<1>6. \A n \in Motor : ~Owes(t, n)
  BY <1>0 DEF Facts, ThreadOK, Owes, CalAt, LrAt, SlotAt
<1>7. \A n \in Motor : Owes(t, n)' \/ ~enabled[n] \/ enabled'[n]
  BY <1>0, <1>3, <1>4 DEF Facts, Owes
<1>8. \A n \in Motor : enabled'[n] => enabled[n]
  BY <1>0, <1>3 DEF Facts
<1> QED
  BY <1>4, <1>5, <1>6, <1>7, StepKeeps DEF Inv, ArmInv, FlagNotLost

LEMMA BothTaken ==
  ASSUME Inv, NEW t \in Thread, NEW m \in Motor, NEW x \in {"cal.seek", "lr.seek"},
         TakeBoth(t, m, x), m = th[t].m, UNCHANGED <<wanted, wiped>>,
         th[t].sub \in {"cal.begin", "lr.begin"}, x = "cal.seek" <=> m = M1
  PROVE  ArmInv' /\ th' \in [Thread -> ThreadType]
<1>0. Facts(t) /\ enabled[m] \in BOOLEAN /\ enabled[Peer(m)] \in BOOLEAN /\ Peer(m) \in Motor
  BY FactsHold, Peers DEF Facts
<1>1. x \in SubPlace
  BY DEF SubPlace, Driving
<1>2. TakesBoth(t, x, enabled[m], enabled[Peer(m)]) /\ enabled' = [n \in Motor |-> FALSE]
  BY DEF TakeBoth, TakesBoth
<1>4. /\ th' \in [Thread -> ThreadType] /\ Alone(t)
      /\ th'[t].sub = x /\ th'[t].at = th[t].at /\ th'[t].m = th[t].m
      /\ th'[t].got = enabled[m] /\ th'[t].peer = enabled[Peer(m)]
  BY <1>0, <1>1, <1>2, TakeBothEffect DEF Facts
<1>5. ThreadOK(t)'
  BY <1>0, <1>4, Peers DEF Facts, ThreadOK, CalAt, LrAt, SlotAt, Motor
<1>6. \A n \in Motor : ~Owes(t, n)
  BY <1>0 DEF Facts, ThreadOK, Owes, CalAt, LrAt, SlotAt
<1>7. \A n \in Motor : enabled[n] => Owes(t, n)'
  BY <1>0, <1>4, Peers DEF Facts, Owes
<1> QED
  BY <1>4, <1>5, <1>6, <1>7, StepKeeps DEF Inv

\* A routine that goes on
LEMMA GoKeeps ==
  ASSUME Inv, NEW t \in Thread, NEW x \in SubPlace, UNCHANGED <<enabled, wanted, wiped>>,
         Go(t, x) \/ \E b \in BOOLEAN : Results(t, x, b),
         th[t].sub # "-", x # "-",
         th[t].sub \in {"en.limp", "en.off", "en.window"} <=> x \in {"en.off", "en.window", "en.arm"},
         th[t].sub \notin {"en.arm", "en.on"},
         th[t].got => x \in {"home.ramp", "home.end"} \cup CalAt \cup LrAt \cup SlotAt,
         th[t].peer => x \in {"en.window", "en.arm"} \cup CalAt \cup LrAt,
         x \in CalAt \cup {"cal.begin"} => th[t].sub \in CalAt,
         x \in LrAt \cup SlotAt \cup {"lr.limp", "lr.begin", "slot.begin"} =>
            th[t].sub \in LrAt \cup SlotAt \cup {"lr.limp"}
  PROVE  ArmInv' /\ th' \in [Thread -> ThreadType]
<1>0. Facts(t)
  BY FactsHold
<1>1. /\ th' \in [Thread -> ThreadType] /\ Alone(t)
      /\ th'[t].sub = x /\ th'[t].at = th[t].at /\ th'[t].m = th[t].m
      /\ th'[t].got = th[t].got /\ th'[t].peer = th[t].peer
  BY <1>0, GoEffect, ResultEffect DEF Facts
<1>2. ThreadOK(t)'
  BY <1>0, <1>1 DEF Facts, ThreadOK
<1> QED
  BY <1>1, <1>2, WithinKeeps DEF Inv

\* A routine that ends without a flag to give back
LEMMA ReturnKeeps ==
  ASSUME Inv, NEW t \in Thread, NEW b \in BOOLEAN, UNCHANGED <<enabled, wanted, wiped>>, Return(t, b),
         th[t].sub \in {"dis.hw", "zero.set"}
  PROVE  ArmInv' /\ th' \in [Thread -> ThreadType]
<1>0. Facts(t)
  BY FactsHold
<1>1. /\ th' \in [Thread -> ThreadType] /\ Alone(t)
      /\ th'[t].sub = "-" /\ th'[t].at = th[t].at /\ th'[t].m = th[t].m
      /\ th'[t].got = FALSE /\ th'[t].peer = FALSE
  BY <1>0, ReturnEffect DEF Facts
<1>2. ThreadOK(t)'
  BY <1>1 DEF ThreadOK, CalAt, LrAt, SlotAt
<1>3. \A m \in Motor : ~Owes(t, m)
  BY <1>0 DEF Facts, ThreadOK, Owes, CalAt, LrAt, SlotAt
<1> QED
  BY <1>1, <1>2, <1>3, StepKeeps DEF Inv

\* Every step of a routine keeps the flags served
LEMMA RoutineKeeps ==
  ASSUME Inv, NEW t \in Thread, Routine(t)
  PROVE  ArmInv' /\ th' \in [Thread -> ThreadType]
<1> USE DEF hist, flags
<1>0. Facts(t)
  BY FactsHold
<1>a. TRUE \in BOOLEAN /\ FALSE \in BOOLEAN
  OBVIOUS
<1>b. /\ {"en.off", "en.window", "en.arm", "en.on", "dis.hw", "zero.set"} \subseteq SubPlace
      /\ {"home.end", "cal.zero", "cal.end", "slot.end"} \subseteq SubPlace
      /\ {"lr.begin", "lr.back", "lr.centre", "lr.zero", "lr.done", "lr.end"} \subseteq SubPlace
  BY DEF SubPlace, Pausing, Driving
<1>1. CASE EnableLimp(t) \/ EnableWindow(t)
  <2>1. CASE EnableLimp(t)
    BY <1>0, <2>1, <1>b, GoKeeps DEF EnableLimp, In, Facts, ThreadOK, CalAt, LrAt, SlotAt
  <2>2. CASE EnableWindow(t)
    <3>1. /\ Go(t, "en.arm") /\ UNCHANGED <<enabled, wanted, wiped>> /\ th[t].sub = "en.window"
      BY <2>2 DEF EnableWindow, In
    <3> QED
      BY <1>0, <3>1, <1>b, GoKeeps DEF Facts, ThreadOK, CalAt, LrAt, SlotAt
  <2> QED
    BY <1>1, <2>1, <2>2
<1>2. CASE EnableOff(t)
  <2> DEFINE m == th[t].m
  <2>1. /\ TakesPeer(t, "en.window", enabled[Peer(m)]) /\ enabled' = [n \in Motor |-> FALSE]
        /\ UNCHANGED <<wanted, wiped>> /\ th[t].sub = "en.off"
    BY <1>2 DEF EnableOff, TakesPeer, In
  <2>2. m \in Motor /\ Peer(m) \in Motor /\ enabled[Peer(m)] \in BOOLEAN
    BY <1>0, Peers DEF Facts
  <2>3. /\ th' \in [Thread -> ThreadType] /\ Alone(t)
        /\ th'[t].sub = "en.window" /\ th'[t].at = th[t].at /\ th'[t].m = m
        /\ th'[t].got = th[t].got /\ th'[t].peer = enabled[Peer(m)]
    BY <1>0, <1>b, <2>1, <2>2, PeerEffect DEF Facts
  <2>4. ThreadOK(t)'
    BY <1>0, <2>1, <2>3 DEF Facts, ThreadOK, CalAt, LrAt, SlotAt
  <2>5. \A n \in Motor : Owes(t, n) => n = m
    BY <1>0, <2>1 DEF Facts, ThreadOK, Owes, CalAt, LrAt
  <2>6. \A n \in Motor : n = m \/ enabled[n] => Owes(t, n)'
    BY <2>2, <2>3, Peers DEF Owes
  <2> QED
    BY <2>1, <2>3, <2>4, <2>5, <2>6, StepKeeps DEF Inv
<1>3. CASE EnableArm(t)
  <2> DEFINE m == th[t].m
  <2>1. /\ TakesPeer(t, "en.on", FALSE) /\ enabled' = [enabled EXCEPT ![Peer(m)] = @ \/ th[t].peer]
        /\ UNCHANGED <<wanted, wiped>> /\ th[t].sub = "en.arm"
    BY <1>3 DEF EnableArm, TakesPeer, In
  <2>2. m \in Motor /\ Peer(m) \in Motor
    BY <1>0, Peers DEF Facts
  <2>3. /\ th' \in [Thread -> ThreadType] /\ Alone(t)
        /\ th'[t].sub = "en.on" /\ th'[t].at = th[t].at /\ th'[t].m = m
        /\ th'[t].got = th[t].got /\ th'[t].peer = FALSE
    BY <1>0, <1>a, <1>b, <2>1, PeerEffect DEF Facts
  <2>4. ThreadOK(t)'
    BY <1>0, <2>1, <2>3 DEF Facts, ThreadOK, CalAt, LrAt, SlotAt
  <2>5. Owes(t, m)'
    BY <2>3 DEF Owes
  <2>6. \A n \in Motor : n # m => enabled'[n] \/ (~enabled[n] /\ ~Owes(t, n))
    BY <1>0, <2>1, <2>2, Peers DEF Facts, Owes
  <2> QED
    BY <2>1, <2>3, <2>4, <2>5, <2>6, StepKeeps DEF Inv
<1>4. CASE EnableOn(t)
  <2> DEFINE m == th[t].m
  <2>1. /\ Return(t, TRUE) /\ enabled' = [enabled EXCEPT ![m] = TRUE]
        /\ wanted' = [wanted EXCEPT ![m] = TRUE] /\ wiped' = wiped \ {m} /\ th[t].sub = "en.on"
    BY <1>4 DEF EnableOn, In, Set
  <2>2. m \in Motor
    BY <1>0 DEF Facts
  <2>3. /\ th' \in [Thread -> ThreadType] /\ Alone(t)
        /\ th'[t].sub = "-" /\ th'[t].at = th[t].at /\ th'[t].m = m
        /\ th'[t].got = FALSE /\ th'[t].peer = FALSE
    BY <1>0, <1>a, <2>1, ReturnEffect DEF Facts
  <2>4. ThreadOK(t)'
    BY <2>3 DEF ThreadOK, CalAt, LrAt, SlotAt
  <2>5. enabled'[m]
    BY <1>0, <2>1, <2>2 DEF Facts
  <2>6. \A n \in Motor : n # m =>
          (wanted'[n] => wanted[n]) /\ (n \notin wiped' => n \notin wiped)
          /\ (enabled[n] => enabled'[n]) /\ ~Owes(t, n)
    BY <1>0, <2>1, <2>2 DEF Facts, Owes, ThreadOK, CalAt, LrAt, SlotAt
  <2>7. \A n \in Motor : wanted'[n] /\ n \notin wiped' =>
            \/ enabled'[n]
            \/ Owes(t, n)'
            \/ wanted[n] /\ n \notin wiped /\ ~enabled[n] /\ ~Owes(t, n)
    BY <2>5, <2>6
  <2> QED
    BY <2>3, <2>4, <2>7, StepKeeps DEF Inv
<1>5. CASE DisableFlags(t)
  <2> DEFINE m == th[t].m
  <2>1. /\ Go(t, "dis.hw") /\ enabled' = [enabled EXCEPT ![m] = FALSE]
        /\ wanted' = [wanted EXCEPT ![m] = FALSE] /\ wiped' = wiped /\ th[t].sub = "dis.flags"
    BY <1>5 DEF DisableFlags, In, Set
  <2>2. m \in Motor
    BY <1>0 DEF Facts
  <2>3. /\ th' \in [Thread -> ThreadType] /\ Alone(t)
        /\ th'[t].sub = "dis.hw" /\ th'[t].at = th[t].at /\ th'[t].m = m
        /\ th'[t].got = th[t].got /\ th'[t].peer = th[t].peer
    BY <1>0, <1>b, <2>1, GoEffect DEF Facts
  <2>4. ThreadOK(t)'
    BY <1>0, <2>1, <2>3 DEF Facts, ThreadOK, CalAt, LrAt, SlotAt
  <2>5. ~wanted'[m]
    BY <1>0, <2>1, <2>2 DEF Facts
  <2>6. \A n \in Motor : n # m =>
          (wanted'[n] => wanted[n]) /\ (enabled[n] => enabled'[n]) /\ ~Owes(t, n)
    BY <1>0, <2>1, <2>2 DEF Facts, Owes, ThreadOK, CalAt, LrAt, SlotAt
  <2>7. \A n \in Motor : wanted'[n] /\ n \notin wiped' =>
            \/ enabled'[n]
            \/ Owes(t, n)'
            \/ wanted[n] /\ n \notin wiped /\ ~enabled[n] /\ ~Owes(t, n)
    BY <2>1, <2>5, <2>6
  <2> QED
    BY <2>3, <2>4, <2>7, StepKeeps DEF Inv
<1>6. CASE DisableHw(t) \/ ZeroSet(t)
  <2>1. /\ Return(t, TRUE) /\ UNCHANGED <<enabled, wanted, wiped>>
        /\ th[t].sub \in {"dis.hw", "zero.set"}
    BY <1>6 DEF DisableHw, ZeroSet, In
  <2> QED
    BY <1>a, <2>1, ReturnKeeps
<1>7. CASE ZeroLimp(t)
  BY <1>0, <1>7, <1>b, GoKeeps DEF ZeroLimp, In, Facts, ThreadOK, CalAt, LrAt, SlotAt
<1>8. CASE HomeBegin(t)
  BY <1>0, <1>8, OneTaken DEF HomeBegin, In, Facts
<1>9. CASE SlotBegin(t)
  BY <1>0, <1>9, OneTaken DEF SlotBegin, In, Facts, ThreadOK
<1>10. CASE HomeRamp(t)
  <2>1. /\ \E b \in BOOLEAN : Results(t, "home.end", b)
        /\ UNCHANGED <<enabled, wanted, wiped>> /\ th[t].sub = "home.ramp"
    BY <1>a, <1>10 DEF HomeRamp, HomeSettles, In, Results
  <2> QED
    BY <1>0, <1>b, <2>1, GoKeeps DEF Facts, ThreadOK, CalAt, LrAt, SlotAt
<1>11. CASE CalBegin(t)
  BY <1>0, <1>11, Peers, BothTaken DEF CalBegin, In, Facts, ThreadOK
<1>12. CASE LrBegin(t)
  BY <1>0, <1>12, Peers, BothTaken DEF LrBegin, In, Facts, ThreadOK
<1>13. CASE CalSeek(t)
  <2>1. /\ Go(t, "cal.zero") \/ Results(t, "cal.end", FALSE)
        /\ UNCHANGED <<enabled, wanted, wiped>> /\ th[t].sub = "cal.seek"
    BY <1>13 DEF CalSeek, In, Results
  <2> QED
    BY <1>0, <1>a, <1>b, <2>1, GoKeeps DEF Facts, ThreadOK, CalAt, LrAt, SlotAt
<1>14. CASE CalZero(t)
  <2>1. Results(t, "cal.end", TRUE) /\ UNCHANGED <<enabled, wanted, wiped>> /\ th[t].sub = "cal.zero"
    BY <1>14 DEF CalZero, In, Results
  <2> QED
    BY <1>0, <1>a, <1>b, <2>1, GoKeeps DEF Facts, ThreadOK, CalAt, LrAt, SlotAt
<1>15. CASE LrLimp(t)
  <2>1. Go(t, "lr.begin") /\ UNCHANGED <<enabled, wanted, wiped>> /\ th[t].sub = "lr.limp"
    BY <1>15 DEF LrLimp, In
  <2> QED
    BY <1>0, <1>b, <2>1, GoKeeps DEF Facts, ThreadOK, CalAt, LrAt, SlotAt
<1>16. CASE LrSeek(t) \/ LrBack(t)
  <2>1. /\ Go(t, "lr.back") \/ Go(t, "lr.centre") \/ Results(t, "lr.end", FALSE)
        /\ UNCHANGED <<enabled, wanted, wiped>> /\ th[t].sub \in {"lr.seek", "lr.back"}
    BY <1>16 DEF LrSeek, LrBack, LrGivesUp, In, Results
  <2> QED
    BY <1>0, <1>a, <1>b, <2>1, GoKeeps DEF Facts, ThreadOK, CalAt, LrAt, SlotAt
<1>17. CASE LrCentre(t)
  <2>1. /\ \E b \in BOOLEAN : Results(t, "lr.zero", b)
        /\ UNCHANGED <<enabled, wanted, wiped>> /\ th[t].sub = "lr.centre"
    BY <1>17 DEF LrCentre, In, Results
  <2> QED
    BY <1>0, <1>b, <2>1, GoKeeps DEF Facts, ThreadOK, CalAt, LrAt, SlotAt
<1>18. CASE LrZero(t)
  <2>1. /\ Go(t, "lr.done") /\ enabled' = [enabled EXCEPT ![M2] = FALSE] /\ wanted' = wanted
        /\ wiped' = IF enabled[M2] /\ ~th[t].got THEN wiped \cup {M2} ELSE wiped
        /\ th[t].sub = "lr.zero"
    BY <1>18 DEF LrZero, In, Set
  <2>2. th[t].m = M2
    BY <1>0, <2>1 DEF Facts, ThreadOK, LrAt
  <2>3. /\ th' \in [Thread -> ThreadType] /\ Alone(t)
        /\ th'[t].sub = "lr.done" /\ th'[t].at = th[t].at /\ th'[t].m = th[t].m
        /\ th'[t].got = th[t].got /\ th'[t].peer = th[t].peer
    BY <1>0, <1>b, <2>1, GoEffect DEF Facts
  <2>4. ThreadOK(t)'
    BY <1>0, <2>1, <2>3 DEF Facts, ThreadOK, CalAt, LrAt, SlotAt
  <2>5. \A n \in Motor : Owes(t, n) => Owes(t, n)'
    BY <2>1, <2>3 DEF Owes
  <2>6. \A n \in Motor : n # M2 => (enabled[n] => enabled'[n])
    BY <1>0, <2>1 DEF Facts
  <2>7. M2 \notin wiped' => M2 \notin wiped /\ (~enabled[M2] \/ Owes(t, M2)')
    BY <2>1, <2>2, <2>3 DEF Owes
  <2>8. \A n \in Motor : wanted'[n] /\ n \notin wiped' =>
            \/ enabled'[n]
            \/ Owes(t, n)'
            \/ wanted[n] /\ n \notin wiped /\ ~enabled[n] /\ ~Owes(t, n)
    BY <2>1, <2>5, <2>6, <2>7
  <2> QED
    BY <2>3, <2>4, <2>8, StepKeeps DEF Inv
<1>19. CASE SlotRamp(t)
  <2>1. /\ \E b \in BOOLEAN : Results(t, "slot.end", b)
        /\ UNCHANGED <<enabled, wanted, wiped>> /\ th[t].sub = "slot.ramp"
    BY <1>19 DEF SlotRamp, In, Results
  <2> QED
    BY <1>0, <1>b, <2>1, GoKeeps DEF Facts, ThreadOK, CalAt, LrAt, SlotAt
<1>20. CASE HomeEnd(t) \/ CalEnd(t) \/ LrDone(t) \/ LrEnd(t) \/ SlotEnd(t)
  BY <1>20, TakenBack DEF HomeEnd, CalEnd, LrDone, LrEnd, SlotEnd, In
<1> QED
  BY <1>1, <1>2, <1>3, <1>4, <1>5, <1>6, <1>7, <1>8, <1>9, <1>10, <1>11, <1>12, <1>13, <1>14,
     <1>15, <1>16, <1>17, <1>18, <1>19, <1>20 DEF Routine

-----------------------------------------------------------------------------
(* The steps of a command between its routines *)

LEMMA CallKeeps ==
  ASSUME Inv, NEW t \in Thread, NEW x \in Entry \ {"-"}, NEW m \in Motor, NEW next \in Place \ {"-"},
         Call(t, x, m, next), th[t].sub = "-", UNCHANGED <<enabled, wanted, wiped>>,
         x = "cal.begin" => m = M1,
         x \in {"lr.limp", "slot.begin"} => m = M2
  PROVE  ArmInv' /\ th' \in [Thread -> ThreadType]
<1>0. Facts(t)
  BY FactsHold
<1>1. x \in SubPlace
  BY DEF Entry, SubPlace, Pausing
<1>2. /\ th' \in [Thread -> ThreadType] /\ Alone(t)
      /\ th'[t].sub = x /\ th'[t].at = next /\ th'[t].m = m
      /\ th'[t].got = th[t].got /\ th'[t].peer = th[t].peer
  BY <1>0, <1>1, CallEffect DEF Facts
<1>3. ~th[t].got /\ ~th[t].peer
  BY <1>0 DEF Facts, ThreadOK, CalAt, LrAt, SlotAt
<1> QED
  BY <1>2, <1>3, OutsideKeeps DEF Inv

LEMMA JumpKeeps ==
  ASSUME Inv, NEW t \in Thread, NEW next \in Place, th[t].sub = "-", UNCHANGED <<enabled, wanted, wiped>>,
         Jump(t, next) \/ Finish(t)
  PROVE  ArmInv' /\ th' \in [Thread -> ThreadType]
<1>0. Facts(t)
  BY FactsHold
<1>1. ~th[t].got /\ ~th[t].peer
  BY <1>0 DEF Facts, ThreadOK, CalAt, LrAt, SlotAt
<1>2. CASE Jump(t, next)
  <2>1. /\ th' \in [Thread -> ThreadType] /\ Alone(t)
        /\ th'[t].sub = "-" /\ th'[t].m = th[t].m
        /\ th'[t].got = th[t].got /\ th'[t].peer = th[t].peer
    BY <1>0, <1>2, JumpEffect DEF Facts
  <2> QED
    BY <1>1, <2>1, OutsideKeeps DEF Inv, Entry
<1>3. CASE Finish(t)
  <2>1. th' \in [Thread -> ThreadType] /\ Alone(t) /\ th'[t] = Idle
    BY <1>0, <1>3, FinishEffect DEF Facts
  <2> QED
    BY <2>1, IdleIs, OutsideKeeps DEF Inv, Entry
<1> QED
  BY <1>2, <1>3

LEMMA StartKeeps ==
  ASSUME Inv, NEW t \in Thread, Start(t)
  PROVE  ArmInv' /\ th' \in [Thread -> ThreadType]
<1>0. Facts(t) /\ th[t].sub = "-" /\ UNCHANGED <<enabled, wanted, wiped>>
  BY FactsHold DEF Start, Busy, Facts, ThreadOK, flags
<1>1. PICK c \in Commands : th' = [th EXCEPT ![t] = [Idle EXCEPT !.cmd = c, !.at = c[1]]]
  BY DEF Start
<1> DEFINE r == [Idle EXCEPT !.cmd = c, !.at = c[1]]
<1>2. c \in Kinds \X Motor /\ c \in (Kinds \cup {"-", "STARTUP"}) \X Motor /\ c[1] \in Place
  BY CommandsAssumption DEF Place
<1>3. r \in ThreadType /\ r.sub = "-" /\ r.got = FALSE /\ r.peer = FALSE
  BY <1>2, IdleIs DEF ThreadType
<1>5. th' = [th EXCEPT ![t] = r]
  BY <1>1
<1> HIDE DEF r
<1>4. th' \in [Thread -> ThreadType] /\ Alone(t) /\ th'[t] = r
  BY <1>0, <1>3, <1>5 DEF Facts, Alone
<1> QED
  BY <1>0, <1>3, <1>4, OutsideKeeps DEF Inv, Entry

\* Every step of a command outside its routines keeps the flags served
LEMMA CommandKeeps ==
  ASSUME Inv, NEW t \in Thread, Command(t)
  PROVE  ArmInv' /\ th' \in [Thread -> ThreadType]
<1> USE DEF hist, flags, arm, OnlyTh, At
<1>0. /\ Facts(t) /\ M1 \in Motor /\ M2 \in Motor /\ th[t].cmd[2] \in Motor
      /\ "done" \in Place
  BY FactsHold, Peers DEF Facts, ThreadType, Place
<1>1. \A x \in Entry \ {"-"}, m \in Motor, next \in Place \ {"-"} :
        /\ Call(t, x, m, next) /\ th[t].sub = "-" /\ UNCHANGED <<enabled, wanted, wiped>>
        /\ x = "cal.begin" => m = M1
        /\ x \in {"lr.limp", "slot.begin"} => m = M2
        => ArmInv' /\ th' \in [Thread -> ThreadType]
  BY CallKeeps
<1>2. CASE Start(t)
  BY <1>2, StartKeeps
<1>3. CASE Single(t)
  <2>1. /\ UNCHANGED <<enabled, wanted, wiped>> /\ th[t].sub = "-"
        /\ \/ \E x \in {"en.limp", "dis.flags", "zero.limp", "home.begin"} : Call(t, x, th[t].cmd[2], "done")
           \/ Call(t, "cal.begin", M1, "done")
           \/ Call(t, "lr.limp", M2, "done")
    BY <1>3 DEF Single
  <2>2. /\ "done" \in Place \ {"-"}
        /\ {"en.limp", "dis.flags", "zero.limp", "home.begin", "cal.begin", "lr.limp"} \subseteq Entry \ {"-"}
    BY DEF Place, Entry
  <2> QED
    BY <1>0, <1>1, <2>1, <2>2
<1>4. CASE LrSlot(t)
  BY <1>0, <1>1, <1>4 DEF LrSlot, Entry, Place
<1>5. CASE MotorNotEnabled(t) \/ Over(t) \/ DeployRefused(t)
  BY <1>0, <1>5, JumpKeeps DEF MotorNotEnabled, Over, DeployRefused
<1>6. CASE Hold(t) \/ Unhold(t) \/ FreeHang(t)
  <2>1. /\ UNCHANGED <<enabled, wanted, wiped>> /\ th[t].sub = "-"
        /\ Finish(t) \/ Jump(t, "hangs")
    BY <1>6 DEF Hold, Unhold, FreeHang
  <2>2. "hangs" \in Place
    BY DEF Place
  <2> QED
    BY <2>1, <2>2, JumpKeeps
<1>7. CASE MoveCommand(t)
  <2>1. /\ UNCHANGED <<enabled, wanted, wiped>> /\ th[t].sub = "-" /\ Finish(t)
    BY <1>7 DEF MoveCommand, MoveTo, TouchWall
  <2> QED
    BY <1>0, <2>1, JumpKeeps
<1>8. CASE Startup(t)
  <2>1. /\ UNCHANGED <<enabled, wanted, wiped>> /\ th[t].sub = "-"
        /\ \/ \E x \in {"en.limp", "home.begin"}, m \in Motor, next \in {"su.range", "su.home", "su.slot"} :
               Call(t, x, m, next)
           \/ Jump(t, "done")
           \/ Call(t, "slot.begin", M2, "INIT")
    BY <1>0, <1>8 DEF Startup
  <2>2. /\ {"su.range", "su.home", "su.slot", "INIT"} \subseteq Place \ {"-"}
        /\ {"en.limp", "home.begin", "slot.begin"} \subseteq Entry \ {"-"}
    BY DEF Place, Entry, Kinds
  <2> QED
    BY <1>0, <1>1, <2>1, <2>2, JumpKeeps
<1>9. CASE InitBegin(t)
  BY <1>0, <1>1, <1>9, JumpKeeps DEF InitBegin, InitStarts, Entry, Place
<1>10. CASE InitSteps(t)
  BY <1>0, <1>1, <1>10 DEF InitSteps, Entry, Place
<1>11. CASE InitEnd(t)
  BY <1>0, <1>11, JumpKeeps DEF InitEnd, InitFails
<1>12. CASE Prepare(t)
  BY <1>0, <1>1, <1>12, JumpKeeps DEF Prepare, Entry, Place
<1>13. CASE Approach(t)
  <2>1. /\ UNCHANGED <<enabled, wanted, wiped>> /\ th[t].sub = "-"
        /\ Jump(t, "d.wait") \/ Jump(t, "done")
    BY <1>13 DEF Approach, MoveTo, TouchWall
  <2>2. "d.wait" \in Place
    BY DEF Place
  <2> QED
    BY <1>0, <2>1, <2>2, JumpKeeps
<1>14. CASE Waited(t) \/ PressEnds(t)
  <2>1. /\ UNCHANGED <<enabled, wanted, wiped>> /\ th[t].sub = "-"
        /\ Jump(t, "d.press") \/ Jump(t, "done")
    BY <1>14 DEF Waited, PressEnds
  <2>2. "d.press" \in Place
    BY DEF Place
  <2> QED
    BY <1>0, <2>1, <2>2, JumpKeeps
<1>15. CASE Press(t)
  <2>1. /\ UNCHANGED <<enabled, wanted, wiped>> /\ th[t].sub = "-"
        /\ Jump(t, "d.press")
    BY <1>15 DEF Press, Pressed
  <2>2. "d.press" \in Place
    BY DEF Place
  <2> QED
    BY <2>1, <2>2, JumpKeeps
<1>16. CASE Park(t)
  <2>1. /\ UNCHANGED <<enabled, wanted, wiped>> /\ th[t].sub = "-"
        /\ \/ \E x \in {"home.begin", "en.limp", "dis.flags"}, next \in {"pk.home", "pk.again", "pk.m2"} :
               Call(t, x, M1, next)
           \/ \E next \in {"pk.m2", "pk.off"} : Jump(t, next)
           \/ Call(t, "slot.begin", M2, "pk.off")
           \/ Call(t, "dis.flags", M2, "done")
    BY <1>16 DEF Park
  <2>2. /\ {"pk.home", "pk.again", "pk.m2", "pk.off", "done"} \subseteq Place \ {"-"}
        /\ {"home.begin", "en.limp", "dis.flags", "slot.begin"} \subseteq Entry \ {"-"}
    BY DEF Place, Entry
  <2> QED
    BY <1>0, <1>1, <2>1, <2>2, JumpKeeps
<1> QED
  BY <1>2, <1>3, <1>4, <1>5, <1>6, <1>7, <1>8, <1>9, <1>10, <1>11, <1>12, <1>13, <1>14, <1>15,
     <1>16 DEF Command

-----------------------------------------------------------------------------
(* Types *)

\* Everything but the threads and the three flags
RestOK ==
  /\ hw \in [Motor -> BOOLEAN]
  /\ read1 \in Reading /\ goal \in {"near", "out"}
  /\ {lrCal, initDone} \subseteq BOOLEAN
  /\ wanted \in [Motor -> BOOLEAN] /\ sent \in 0..MaxCommands
  /\ wiped \subseteq Motor /\ limp \subseteq Motor /\ crossed \subseteq Motor

FlagsOK ==
  /\ enabled \in [Motor -> BOOLEAN] /\ hold \in [Motor -> BOOLEAN]
  /\ moving \in [Motor -> BOOLEAN]

LEMMA TypeParts ==
  TypeOK <=> FlagsOK /\ RestOK /\ th \in [Thread -> ThreadType]
BY DEF TypeOK, FlagsOK, RestOK

LEMMA SetTyped ==
  ASSUME NEW f \in [Motor -> BOOLEAN], NEW m \in Motor, NEW b \in BOOLEAN
  PROVE  Set(f, m, b) \in [Motor -> BOOLEAN]
BY Zenon DEF Set

LEMMA CrossTyped ==
  ASSUME NEW t \in Thread, NEW x, NEW m \in Motor, th \in [Thread -> ThreadType]
  PROVE  Crossing(t, x, m) \subseteq Motor
<1>1. \A u \in Thread : th[u].m \in Motor
  BY DEF ThreadType
<1>2. \A y, n : n \in Motor => Touched(y, n) \subseteq Motor
  BY DEF Touched
<1>3. \A u \in Thread : Touched(th[u].sub, th[u].m) \cup Touched(x, m) \subseteq Motor
  BY <1>1, <1>2
<1> QED
  BY <1>3 DEF Crossing

LEMMA RoutineTyped ==
  ASSUME Inv, NEW t \in Thread, Routine(t)
  PROVE  FlagsOK' /\ RestOK'
<1> USE DEF hist, flags, arm, FlagsOK, RestOK
<1> DEFINE m == th[t].m
<1>0. /\ FlagsOK /\ RestOK /\ m \in Motor /\ Peer(m) \in Motor /\ M1 \in Motor /\ M2 \in Motor
      /\ "home" \in Reading /\ "near" \in Reading /\ "out" \in Reading
      /\ [n \in Motor |-> FALSE] \in [Motor -> BOOLEAN]
  BY FactsHold, Peers, TypeParts DEF Inv, Facts, Reading
<1> HIDE DEF m
<1>1. \A f \in [Motor -> BOOLEAN], n \in Motor : /\ Set(f, n, TRUE) \in [Motor -> BOOLEAN]
                                              /\ Set(f, n, FALSE) \in [Motor -> BOOLEAN]
  BY SetTyped
<1>a. /\ enabled \in [Motor -> BOOLEAN] /\ hw \in [Motor -> BOOLEAN]
      /\ m \in Motor /\ M2 \in Motor
  BY <1>0
<1>2. CASE EnableLimp(t) \/ ZeroLimp(t) \/ LrLimp(t)
  <2>1. /\ \E n \in Motor : hold' = Set(hold, n, FALSE) /\ moving' = Set(moving, n, FALSE)
        /\ limp' \subseteq limp \cup {m}
        /\ UNCHANGED <<enabled, hw, arm, lrCal, initDone, wanted, wiped, sent, crossed>>
    BY <1>0, <1>2 DEF EnableLimp, ZeroLimp, LrLimp, m
  <2>2. PICK n \in Motor : hold' = Set(hold, n, FALSE) /\ moving' = Set(moving, n, FALSE)
    BY <2>1
  <2>3. hold' \in [Motor -> BOOLEAN] /\ moving' \in [Motor -> BOOLEAN]
    BY <1>0, <1>1, <2>2, Zenon
  <2> QED
    BY <1>0, <2>1, <2>3
<1>3. CASE EnableOff(t) \/ CalBegin(t) \/ LrBegin(t)
  <2>1. /\ enabled' = [n \in Motor |-> FALSE]
        /\ UNCHANGED <<hold, moving, hw, arm, lrCal, initDone, hist, crossed>>
    BY <1>3 DEF EnableOff, CalBegin, LrBegin, TakeBoth
  <2> QED
    BY <1>0, <2>1
<1>4. CASE EnableWindow(t)
  <2>1. /\ \E b \in BOOLEAN : hw' = Set(hw, m, b)
        /\ UNCHANGED <<flags, arm, lrCal, initDone, hist, crossed>>
    BY <1>4 DEF EnableWindow, m
  <2>2. hw' \in [Motor -> BOOLEAN]
    <3>1. PICK b \in BOOLEAN : hw' = Set(hw, m, b)
      BY <2>1
    <3>2. Set(hw, m, b) \in [Motor -> BOOLEAN]
      BY <1>a, SetTyped
    <3> QED
      BY <3>1, <3>2, Zenon
  <2> QED
    BY <1>0, <2>1, <2>2
<1>5. CASE EnableArm(t)
  <2>1. /\ enabled' = [enabled EXCEPT ![Peer(m)] = enabled[Peer(m)] \/ th[t].peer]
        /\ hold' = Set(hold, m, TRUE) /\ limp' = limp \ {m}
        /\ UNCHANGED <<moving, hw, arm, lrCal, initDone, wanted, wiped, sent, crossed>>
    BY <1>5 DEF EnableArm, m
  <2>2. (enabled[Peer(m)] \/ th[t].peer) \in BOOLEAN
    OBVIOUS
  <2>3. enabled' \in [Motor -> BOOLEAN]
    BY <1>0, <2>1, <2>2
  <2> QED
    BY <1>0, <1>1, <2>1, <2>3
<1>6. CASE EnableOn(t)
  <2>1. /\ enabled' = Set(enabled, m, TRUE) /\ wanted' = Set(wanted, m, TRUE) /\ wiped' = wiped \ {m}
        /\ UNCHANGED <<hold, moving, hw, arm, lrCal, initDone, limp, sent, crossed>>
    BY <1>6 DEF EnableOn, m
  <2> QED
    BY <1>0, <1>1, <2>1
<1>7. CASE DisableFlags(t)
  <2>1. /\ enabled' = Set(enabled, m, FALSE) /\ hold' = Set(hold, m, FALSE)
        /\ moving' = Set(moving, m, FALSE) /\ wanted' = Set(wanted, m, FALSE)
        /\ UNCHANGED <<hw, arm, lrCal, initDone, wiped, limp, sent, crossed>>
    BY <1>7 DEF DisableFlags, m
  <2> QED
    BY <1>0, <1>1, <2>1
<1>8. CASE DisableHw(t)
  <2>1. hw' = Set(hw, m, FALSE) /\ UNCHANGED <<flags, arm, lrCal, initDone, hist, crossed>>
    BY <1>8 DEF DisableHw, m
  <2> QED
    BY <1>0, <1>1, <2>1
<1>9. CASE ZeroSet(t) \/ CalZero(t)
  <2>1. /\ read1' \in {"home", read1} /\ UNCHANGED <<goal, flags, hw, lrCal, initDone, hist, crossed>>
    BY <1>9 DEF ZeroSet, CalZero, Zeroed
  <2> QED
    BY <1>0, <2>1
<1>10. CASE HomeBegin(t) \/ SlotBegin(t)
  <2>1. /\ \E n \in Motor : enabled' = Set(enabled, n, FALSE)
        /\ UNCHANGED <<hold, moving, hw, arm, lrCal, initDone, hist, crossed>>
    BY <1>0, <1>10 DEF HomeBegin, SlotBegin, Take, Set, m
  <2>2. enabled' \in [Motor -> BOOLEAN]
    <3>1. PICK n \in Motor : enabled' = Set(enabled, n, FALSE)
      BY <2>1
    <3>2. Set(enabled, n, FALSE) \in [Motor -> BOOLEAN]
      BY <1>a, <1>1
    <3> QED
      BY <3>1, <3>2, Zenon
  <2> QED
    BY <1>0, <2>1, <2>2
<1>11. CASE HomeRamp(t)
  <2>1. /\ hw' = hw \/ hw' = Set(hw, m, TRUE)
        /\ read1' \in {"home", "near", "out", read1}
        /\ UNCHANGED <<flags, goal, lrCal, initDone, hist, crossed>>
    BY <1>11 DEF HomeRamp, HomeTorque, HomeSettles, m
  <2>2. hw' \in [Motor -> BOOLEAN]
    <3>1. Set(hw, m, TRUE) \in [Motor -> BOOLEAN]
      BY <1>a, <1>1
    <3>2. hw' = hw \/ hw' = Set(hw, m, TRUE)
      BY <2>1
    <3> QED
      BY <1>a, <3>1, <3>2, Zenon
  <2> QED
    BY <1>0, <2>1, <2>2
<1>12. CASE CalSeek(t)
  <2>1. /\ read1' \in {"home", "near", "out", read1}
        /\ UNCHANGED <<flags, hw, goal, lrCal, initDone, hist, crossed>>
    BY <1>12 DEF CalSeek
  <2> QED
    BY <1>0, <2>1
<1>13. CASE LrSeek(t) \/ LrBack(t) \/ LrCentre(t) \/ SlotRamp(t)
  <2>1. /\ hw' = hw \/ hw' = Set(hw, M2, TRUE)
        /\ UNCHANGED <<flags, arm, lrCal, initDone, hist, crossed>>
    BY <1>13 DEF LrSeek, LrBack, LrCentre, SlotRamp, LrTorque
  <2>2. hw' \in [Motor -> BOOLEAN]
    <3>1. Set(hw, M2, TRUE) \in [Motor -> BOOLEAN]
      BY <1>a, <1>1
    <3>2. hw' = hw \/ hw' = Set(hw, M2, TRUE)
      BY <2>1
    <3> QED
      BY <1>a, <3>1, <3>2, Zenon
  <2> QED
    BY <1>0, <2>1, <2>2
<1>14. CASE LrZero(t)
  <2>1. /\ enabled' = Set(enabled, M2, FALSE) /\ wiped' \subseteq wiped \cup {M2}
        /\ UNCHANGED <<hold, moving, hw, arm, lrCal, initDone, wanted, limp, sent, crossed>>
    BY <1>14 DEF LrZero
  <2>2. enabled' \in [Motor -> BOOLEAN]
    BY <1>0, <1>1, <2>1, Zenon
  <2> QED
    BY <1>0, <2>1, <2>2
<1>15. CASE HomeEnd(t) \/ CalEnd(t) \/ LrDone(t) \/ LrEnd(t) \/ SlotEnd(t)
  <2>1. /\ enabled' = GivenBack(t) /\ hold' = Set(hold, m, TRUE) /\ moving' = Set(moving, m, FALSE)
        /\ lrCal' = lrCal \/ lrCal' = th[t].ok
        /\ UNCHANGED <<hw, arm, initDone, hist, crossed>>
    BY <1>15 DEF HomeEnd, CalEnd, LrDone, LrEnd, SlotEnd, RoutineEnd, m
  <2>2. GivenBack(t) \in [Motor -> BOOLEAN]
    BY DEF GivenBack
  <2>3. {lrCal', initDone'} \subseteq BOOLEAN
    <3>1. th[t].ok \in BOOLEAN
      BY FactsHold DEF Facts, ThreadType
    <3>2. lrCal \in BOOLEAN /\ initDone \in BOOLEAN /\ initDone' = initDone
      BY <1>0, <2>1
    <3>3. lrCal' \in BOOLEAN
      BY <2>1, <3>1, <3>2, Zenon
    <3> QED
      BY <3>2, <3>3
  <2> QED
    BY <1>0, <1>1, <2>1, <2>2, <2>3
<1> QED
  BY <1>2, <1>3, <1>4, <1>5, <1>6, <1>7, <1>8, <1>9, <1>10, <1>11, <1>12, <1>13, <1>14, <1>15
     DEF Routine

\* What the commands and the feedback loop do to the rest
LEMMA MoveTyped ==
  ASSUME FlagsOK, read1 \in Reading, goal \in {"near", "out"}, NEW m \in Motor, NEW x \in {"near", "out"},
         MoveTo(m, x)
  PROVE  FlagsOK' /\ read1' \in Reading /\ goal' \in {"near", "out"} /\ enabled' = enabled
<1>1. enabled' = enabled /\ read1' = read1 /\ goal' \in {goal, x}
  BY DEF MoveTo, flags, arm
<1>2. /\ hold' = hold \/ hold' = Set(hold, m, FALSE)
      /\ moving' = moving \/ moving' = Set(moving, m, TRUE)
  BY DEF MoveTo, flags
<1>3. hold \in [Motor -> BOOLEAN] /\ moving \in [Motor -> BOOLEAN]
  BY DEF FlagsOK
<1>4. Set(hold, m, FALSE) \in [Motor -> BOOLEAN] /\ Set(moving, m, TRUE) \in [Motor -> BOOLEAN]
  BY <1>3, SetTyped
<1>5. hold' \in [Motor -> BOOLEAN] /\ moving' \in [Motor -> BOOLEAN]
  BY <1>2, <1>3, <1>4, Zenon
<1> QED
  BY <1>1, <1>5 DEF FlagsOK

LEMMA CommandTyped ==
  ASSUME Inv, NEW t \in Thread, Command(t)
  PROVE  FlagsOK' /\ RestOK'
<1> USE DEF hist, flags, arm
<1>0. /\ FlagsOK /\ RestOK /\ M1 \in Motor /\ M2 \in Motor /\ th[t].cmd[2] \in Motor
      /\ th \in [Thread -> ThreadType]
      /\ "home" \in Reading /\ "near" \in Reading /\ "out" \in Reading
  BY FactsHold, Peers, TypeParts DEF Inv, Facts, ThreadType, Reading
<1>1. \A f \in [Motor -> BOOLEAN], n \in Motor : /\ Set(f, n, TRUE) \in [Motor -> BOOLEAN]
                                              /\ Set(f, n, FALSE) \in [Motor -> BOOLEAN]
  BY SetTyped
<1>a. /\ lrCal \in BOOLEAN /\ initDone \in BOOLEAN /\ TRUE \in BOOLEAN /\ FALSE \in BOOLEAN
      /\ th[t].ok \in BOOLEAN
  BY <1>0 DEF RestOK, ThreadType
<1>c. \A x, n, next : n \in Motor /\ Call(t, x, n, next) => crossed' \subseteq Motor
  <2> SUFFICES ASSUME NEW x, NEW n \in Motor, NEW next, Call(t, x, n, next)
               PROVE  crossed' \subseteq Motor
    OBVIOUS
  <2>1. Crossing(t, x, n) \subseteq Motor
    BY <1>0, CrossTyped
  <2> QED
    BY <1>0, <2>1 DEF Call, RestOK
\* A step that only calls or goes on
<1>2. ASSUME UNCHANGED <<flags, hw, goal, sent, wanted, wiped, limp>>,
             read1' \in {"home", read1}, lrCal' \in BOOLEAN, initDone' \in BOOLEAN,
             crossed' \subseteq Motor
      PROVE  FlagsOK' /\ RestOK'
  <2>1. {lrCal', initDone'} \subseteq BOOLEAN
    BY <1>2, Zenon
  <2>2. UNCHANGED <<hw, goal, sent, wanted, wiped, limp>> /\ read1' \in {"home", read1} /\ crossed' \subseteq Motor
    BY <1>2
  <2> QED
    BY <1>0, <1>2, <2>1, <2>2 DEF FlagsOK, RestOK
<1>3. CASE Start(t)
  BY <1>0, <1>3, MaxAssumption DEF Start, FlagsOK, RestOK
<1>4. CASE Single(t) \/ LrSlot(t) \/ MotorNotEnabled(t) \/ Over(t) \/ DeployRefused(t) \/ Waited(t)
           \/ PressEnds(t)
  <2>1. /\ UNCHANGED <<flags, hw, arm, lrCal, initDone, hist>>
        /\ \/ UNCHANGED crossed
           \/ \E n \in Motor, x \in Entry, next \in Place : Call(t, x, n, next)
    BY <1>0, <1>4 DEF Single, LrSlot, MotorNotEnabled, Over, DeployRefused, Waited, PressEnds, OnlyTh,
                   Entry, Place
  <2> QED
    BY <1>0, <1>2, <1>a, <1>c, <2>1 DEF RestOK
<1>5. CASE Hold(t) \/ Unhold(t) \/ FreeHang(t)
  <2> DEFINE m == th[t].cmd[2]
  <2>1. /\ \E n \in Motor : hold' = Set(hold, n, TRUE) \/ hold' = Set(hold, n, FALSE)
        /\ \E n \in Motor : moving' = moving \/ moving' = Set(moving, n, FALSE)
        /\ limp' = limp \/ limp' = limp \cup {M1} \/ limp' = limp \cup {m}
        /\ read1' \in {"near", "out", read1}
        /\ UNCHANGED <<enabled, hw, goal, lrCal, initDone, wanted, wiped, sent, crossed>>
    BY <1>0, <1>5 DEF Hold, Unhold, FreeHang
  <2> HIDE DEF m
  <2>2. hold' \in [Motor -> BOOLEAN]
    <3>1. PICK n \in Motor : hold' = Set(hold, n, TRUE) \/ hold' = Set(hold, n, FALSE)
      BY <2>1
    <3>2. Set(hold, n, TRUE) \in [Motor -> BOOLEAN] /\ Set(hold, n, FALSE) \in [Motor -> BOOLEAN]
      BY <1>0, <1>1 DEF FlagsOK
    <3> QED
      BY <3>1, <3>2, Zenon
  <2>3. moving' \in [Motor -> BOOLEAN]
    <3>1. PICK n \in Motor : moving' = moving \/ moving' = Set(moving, n, FALSE)
      BY <2>1
    <3>2. moving \in [Motor -> BOOLEAN] /\ Set(moving, n, FALSE) \in [Motor -> BOOLEAN]
      BY <1>0, <1>1 DEF FlagsOK
    <3> QED
      BY <3>1, <3>2, Zenon
  <2>4. limp' \subseteq Motor
    BY <1>0, <2>1 DEF RestOK, m
  <2> QED
    BY <1>0, <2>1, <2>2, <2>3, <2>4 DEF FlagsOK, RestOK
<1>6. CASE MoveCommand(t) \/ Approach(t)
  <2>1. /\ \/ \E n \in Motor, x \in {"near", "out"} : MoveTo(n, x)
           \/ UNCHANGED <<flags, arm>>
        /\ \E n \in Motor : hw' = hw \/ hw' = Set(hw, n, TRUE)
        /\ UNCHANGED <<lrCal, initDone, hist, crossed>>
    BY <1>0, <1>6 DEF MoveCommand, Approach, TouchWall
  <2>2. hw' \in [Motor -> BOOLEAN]
    <3>1. PICK n \in Motor : hw' = hw \/ hw' = Set(hw, n, TRUE)
      BY <2>1
    <3>2. hw \in [Motor -> BOOLEAN] /\ Set(hw, n, TRUE) \in [Motor -> BOOLEAN]
      BY <1>0, <1>1 DEF RestOK
    <3> QED
      BY <3>1, <3>2, Zenon
  <2>3. FlagsOK' /\ read1' \in Reading /\ goal' \in {"near", "out"}
    <3>1. CASE UNCHANGED <<flags, arm>>
      BY <1>0, <3>1 DEF FlagsOK, RestOK
    <3>2. CASE \E n \in Motor, x \in {"near", "out"} : MoveTo(n, x)
      BY <1>0, <3>2, MoveTyped DEF RestOK
    <3> QED
      BY <2>1, <3>1, <3>2
  <2> QED
    BY <1>0, <2>1, <2>2, <2>3 DEF RestOK
<1>7. CASE Startup(t) \/ Prepare(t) \/ Park(t)
  <2>1. /\ UNCHANGED <<flags, hw, goal, lrCal, initDone, hist>> /\ read1' \in {"home", read1}
        /\ \/ UNCHANGED crossed
           \/ \E n \in Motor, x \in Entry, next \in Place : Call(t, x, n, next)
    <3>1. CASE Startup(t)
      BY <1>0, <3>1 DEF Startup, RangeCheck, Zeroed, Entry, Place, Kinds
    <3>2. CASE Prepare(t)
      BY <1>0, <3>2 DEF Prepare, OnlyTh, Entry, Place
    <3>3. CASE Park(t)
      BY <1>0, <3>3 DEF Park, OnlyTh, Entry, Place
    <3> QED
      BY <1>7, <3>1, <3>2, <3>3
  <2> QED
    BY <1>0, <1>2, <1>a, <1>c, <2>1 DEF RestOK
<1>8. CASE InitBegin(t) \/ InitEnd(t)
  <2>1. /\ UNCHANGED <<flags, hw, arm, lrCal, hist>>
        /\ initDone' = FALSE \/ initDone' = (initDone \/ th[t].ok)
        /\ \/ UNCHANGED crossed
           \/ \E n \in Motor, x \in Entry, next \in Place : Call(t, x, n, next)
    BY <1>0, <1>8 DEF InitBegin, InitEnd, Entry, Place
  <2>2. initDone' \in BOOLEAN
    <3>1. (initDone \/ th[t].ok) \in BOOLEAN
      OBVIOUS
    <3> QED
      BY <1>a, <2>1, <3>1, Zenon
  <2> QED
    BY <1>0, <1>2, <1>a, <1>c, <2>1, <2>2 DEF RestOK
<1>9. CASE InitSteps(t)
  <2>1. /\ UNCHANGED <<flags, hw, goal, initDone, hist>> /\ read1' \in {"home", read1}
        /\ lrCal' = lrCal \/ lrCal' = FALSE
        /\ \/ UNCHANGED crossed
           \/ \E n \in Motor, x \in Entry, next \in Place : Call(t, x, n, next)
    BY <1>0, <1>9 DEF InitSteps, RangeCheck, Zeroed, Entry, Place
  <2>2. lrCal' \in BOOLEAN
    BY <1>a, <2>1, Zenon
  <2> QED
    BY <1>0, <1>2, <1>a, <1>c, <2>1, <2>2 DEF RestOK
<1>10. CASE Press(t)
  <2>1. /\ moving' = Set(moving, M1, FALSE) /\ hold' = Set(hold, M1, TRUE) /\ goal' = "out"
        /\ read1' \in {read1, "out"} /\ UNCHANGED <<enabled, hw, lrCal, initDone, hist, crossed>>
    BY <1>10 DEF Press, Pressed
  <2> QED
    BY <1>0, <1>1, <2>1 DEF FlagsOK, RestOK
<1> QED
  BY <1>3, <1>4, <1>5, <1>6, <1>7, <1>8, <1>9, <1>10 DEF Command

\* The feedback loop takes no flag
LEMMA FeedbackKeeps ==
  ASSUME Inv, Feedback
  PROVE  FlagsOK' /\ RestOK' /\ ArmInv' /\ UNCHANGED th
<1> USE DEF hist, flags, arm
<1>0. FlagsOK /\ RestOK /\ M1 \in Motor /\ "near" \in Reading /\ "out" \in Reading
  BY Peers, TypeParts DEF Inv, Reading
<1>1. UNCHANGED <<enabled, th, wanted, wiped>>
  BY DEF Feedback, Recover, MoveDone
<1>2. ArmInv'
  BY <1>1 DEF Inv, ArmInv, Threads, ThreadOK, FlagNotLost, Owes
<1>3. CASE Recover
  <2>1. hw' = Set(hw, M1, TRUE) /\ UNCHANGED <<flags, arm, lrCal, initDone, hist, crossed>>
    BY <1>3 DEF Recover
  <2>2. hw' \in [Motor -> BOOLEAN]
    BY <1>0, <2>1, SetTyped DEF RestOK
  <2> QED
    BY <1>0, <1>1, <1>2, <2>1, <2>2 DEF FlagsOK, RestOK
<1>4. ASSUME NEW m \in Motor, MoveDone(m)
      PROVE  FlagsOK' /\ RestOK'
  <2>1. /\ moving' = Set(moving, m, FALSE) /\ hold' = Set(hold, m, TRUE) /\ read1' \in {goal, read1}
        /\ UNCHANGED <<enabled, hw, goal, lrCal, initDone, hist, crossed>>
    BY <1>4 DEF MoveDone
  <2>2. moving' \in [Motor -> BOOLEAN] /\ hold' \in [Motor -> BOOLEAN]
    BY <1>0, <2>1, SetTyped DEF FlagsOK
  <2> QED
    BY <1>0, <2>1, <2>2 DEF FlagsOK, RestOK
<1> QED
  BY <1>1, <1>2, <1>3, <1>4 DEF Feedback

LEMMA InvInit ==
  ASSUME Init
  PROVE  Inv
<1>1. /\ [m \in Motor |-> FALSE] \in [Motor -> BOOLEAN]
      /\ TRUE \in BOOLEAN /\ FALSE \in BOOLEAN /\ "near" \in {"near", "out"} /\ "home" \in Reading
  BY DEF Reading
<1>2. {lrCal, initDone} \subseteq BOOLEAN
  BY <1>1, Zenon DEF Init
<1> DEFINE r == [Idle EXCEPT !.cmd = <<"STARTUP", M1>>, !.at = "su"]
<1>3. /\ th \in [Thread -> {Idle, r}]
      /\ sent \in {0, 1}
  BY DEF Init
<1>4. r \in ThreadType /\ r.sub = "-" /\ r.got = FALSE /\ r.peer = FALSE /\ r.at = "su"
  <2>1. <<"STARTUP", M1>> \in (Kinds \cup {"-", "STARTUP"}) \X Motor /\ "su" \in Place
    BY Peers DEF Place
  <2> QED
    BY <2>1, IdleIs DEF ThreadType
<1> HIDE DEF r
<1>5. th \in [Thread -> ThreadType]
  BY <1>3, <1>4, IdleIs
<1>6. Threads
  BY <1>3, <1>4, IdleIs DEF Threads, ThreadOK, CalAt, LrAt, SlotAt
<1>7. FlagNotLost
  BY DEF Init, FlagNotLost
<1>8. TypeOK
  BY <1>1, <1>2, <1>3, <1>5, MaxAssumption DEF Init, TypeOK
<1> QED
  BY <1>6, <1>7, <1>8 DEF Inv, ArmInv

LEMMA InvStep ==
  ASSUME Inv, [Next]_vars
  PROVE  Inv'
<1>1. CASE UNCHANGED vars
  BY <1>1 DEF Inv, TypeOK, ArmInv, Threads, ThreadOK, FlagNotLost, Owes, vars, flags, arm, hist
<1>2. ASSUME FlagsOK', RestOK', th' \in [Thread -> ThreadType], ArmInv'
      PROVE  Inv'
  BY <1>2 DEF Inv, TypeOK, FlagsOK, RestOK
<1>3. CASE Feedback
  <2>1. th' \in [Thread -> ThreadType]
    BY <1>3, FeedbackKeeps DEF Inv, TypeOK
  <2> QED
    BY <1>2, <1>3, <2>1, FeedbackKeeps
<1>4. ASSUME NEW t \in Thread, Routine(t)
      PROVE  Inv'
  BY <1>2, <1>4, RoutineKeeps, RoutineTyped
<1>5. ASSUME NEW t \in Thread, Command(t)
      PROVE  Inv'
  BY <1>2, <1>5, CommandKeeps, CommandTyped
<1> QED
  BY <1>1, <1>3, <1>4, <1>5 DEF Next

-----------------------------------------------------------------------------
(* No frame without torque *)

Served(m) == hold[m] \/ moving[m]

\* A thread about to set m's flag, and one that has yet to clear it
Needs(t, m) ==
  \/ th[t].m # m /\ th[t].peer
  \/ th[t].m = m /\ th[t].sub = "en.on"
Gives(t, m) == th[t].m = m /\ th[t].sub \in {"en.off", "lr.begin"}

\* Two routines that work on one motor have been seen to cross
Exclusive == \A t, u \in Thread : t # u =>
  Touched(th[t].sub, th[t].m) \cap Touched(th[u].sub, th[u].m) \subseteq crossed

\* A motor that neither holds nor moves has its flag cleared, or will have in a moment,
\* and nobody is about to set it
NoGap == \A m \in Motor :
  \/ m \in limp \cup crossed
  \/ Served(m)
  \/ /\ \A t \in Thread : ~Needs(t, m)
     /\ enabled[m] => \E t \in Thread : Gives(t, m)

GapInv == Exclusive /\ NoGap

\* Who is about to set a motor's flag, or to clear it, is in a routine that works on it
LEMMA Reaches ==
  ASSUME Inv, NEW t \in Thread, NEW m \in Motor, Needs(t, m) \/ Gives(t, m)
  PROVE  m \in Touched(th[t].sub, th[t].m)
<1>1. ThreadOK(t)
  BY FactsHold DEF Facts
<1>2. th[t].sub \in Pausing
  BY <1>1 DEF Needs, Gives, ThreadOK, Pausing, CalAt, LrAt
<1>3. th[t].sub # "-"
  BY <1>2 DEF Pausing
<1> QED
  BY <1>2, <1>3 DEF Touched

\* The flag of the peer, when a routine takes it, is up only if the peer is served
LEMMA PeerServed ==
  ASSUME Inv, GapInv, NEW t \in Thread, NEW m \in Motor, m # th[t].m, th[t].sub \in Pausing,
         enabled[m], m \notin limp \cup crossed
  PROVE  Served(m)
<1> SUFFICES ASSUME ~Served(m)
             PROVE  FALSE
  OBVIOUS
<1>1. PICK u \in Thread : Gives(u, m)
  BY DEF GapInv, NoGap
<1>2. u # t
  BY <1>1 DEF Gives
<1>3. m \in Touched(th[u].sub, th[u].m)
  BY <1>1, Reaches
<1>4. m \in Touched(th[t].sub, th[t].m)
  BY DEF Touched, Pausing
<1> QED
  BY <1>2, <1>3, <1>4 DEF GapInv, Exclusive

\* A step of one thread
LEMMA GapStep ==
  ASSUME Inv, GapInv, NEW t \in Thread, Alone(t), crossed \subseteq crossed',
         \A m \in Motor :
           \/ m \in limp' \cup crossed'
           \/ Served(m)'
           \/ /\ m \notin limp
              /\ Served(m) => m \in Touched(th[t].sub, th[t].m)
              /\ ~Needs(t, m)'
              /\ enabled'[m] => \/ Gives(t, m)'
                                \/ enabled[m] /\ ~Gives(t, m) /\ ~Served(m)
  PROVE  NoGap'
<1> SUFFICES ASSUME NEW m \in Motor, m \notin limp' \cup crossed', ~Served(m)'
             PROVE  /\ \A u \in Thread : ~Needs(u, m)'
                    /\ enabled'[m] => \E u \in Thread : Gives(u, m)'
  BY DEF NoGap
<1>1. /\ m \notin limp \cup crossed
      /\ Served(m) => m \in Touched(th[t].sub, th[t].m)
      /\ ~Needs(t, m)'
      /\ enabled'[m] => Gives(t, m)' \/ (enabled[m] /\ ~Gives(t, m) /\ ~Served(m))
  OBVIOUS
<1>2. ASSUME NEW u \in Thread
      PROVE  ~Needs(u, m)'
  <2>1. CASE u = t
    BY <1>1, <2>1
  <2>2. CASE u # t /\ Served(m)
    <3>1. ~Needs(u, m)
      BY <1>1, <2>2, Reaches DEF GapInv, Exclusive
    <3> QED
      BY <2>2, <3>1 DEF Needs, Alone
  <2>3. CASE u # t /\ ~Served(m)
    <3>1. ~Needs(u, m)
      BY <1>1, <2>3 DEF GapInv, NoGap
    <3> QED
      BY <2>3, <3>1 DEF Needs, Alone
  <2> QED
    BY <2>1, <2>2, <2>3
<1>3. ASSUME enabled'[m]
      PROVE  \E u \in Thread : Gives(u, m)'
  <2>1. CASE Gives(t, m)'
    BY <2>1
  <2>2. CASE enabled[m] /\ ~Gives(t, m) /\ ~Served(m)
    <3>1. PICK u \in Thread : Gives(u, m)
      BY <1>1, <2>2 DEF GapInv, NoGap
    <3> QED
      BY <2>2, <3>1 DEF Gives, Alone
  <2> QED
    BY <1>1, <1>3, <2>1, <2>2
<1> QED
  BY <1>2, <1>3

\* A step that takes no hold away, except as asked for, and sets no flag
LEMMA QuietGap ==
  ASSUME Inv, GapInv, NEW t \in Thread, Alone(t), crossed \subseteq crossed', limp \subseteq limp',
         \A m \in Motor : /\ enabled'[m] => enabled[m]
                          /\ Served(m) => Served(m)' \/ m \in limp'
                          /\ Needs(t, m)' => Needs(t, m),
         th[t].sub \notin {"en.off", "lr.begin"}
  PROVE  NoGap'
<1>1. \A m \in Motor : ~Gives(t, m)
  BY DEF Gives
<1>2. \A m \in Motor : m \in limp \cup crossed \/ Served(m) \/ ~Needs(t, m)
  BY DEF GapInv, NoGap
<1> QED
  BY <1>1, <1>2, GapStep

\* Routines cross only where one is called
LEMMA ExclusiveWithin ==
  ASSUME Inv, GapInv, NEW t \in Thread, Alone(t), crossed \subseteq crossed', th'[t].m = th[t].m,
         th[t].sub # "-", th'[t].sub \in Pausing => th[t].sub \in Pausing
  PROVE  Exclusive'
<1>1. th[t].m \in Motor
  BY FactsHold DEF Facts
<1>2. Touched(th'[t].sub, th'[t].m) \subseteq Touched(th[t].sub, th[t].m)
  BY <1>1 DEF Touched
<1>3. \A u \in Thread : u # t => Touched(th'[u].sub, th'[u].m) = Touched(th[u].sub, th[u].m)
  BY DEF Alone
<1>4. ASSUME NEW u \in Thread, NEW v \in Thread, u # v
      PROVE  Touched(th'[u].sub, th'[u].m) \cap Touched(th'[v].sub, th'[v].m) \subseteq crossed'
  <2>1. Touched(th[u].sub, th[u].m) \cap Touched(th[v].sub, th[v].m) \subseteq crossed
    BY <1>4 DEF GapInv, Exclusive
  <2>2. /\ Touched(th'[u].sub, th'[u].m) \subseteq Touched(th[u].sub, th[u].m)
        /\ Touched(th'[v].sub, th'[v].m) \subseteq Touched(th[v].sub, th[v].m)
    BY <1>2, <1>3
  <2> QED
    BY <2>1, <2>2
<1> QED
  BY <1>4 DEF Exclusive, Touched

LEMMA ExclusiveCall ==
  ASSUME GapInv, NEW t \in Thread, Alone(t), NEW x, NEW m, th'[t].sub = x, th'[t].m = m,
         crossed' = crossed \cup Crossing(t, x, m)
  PROVE  Exclusive'
<1> DEFINE T(u) == Touched(th[u].sub, th[u].m)
           new == Touched(x, m)
<1>1. \A u \in Thread : u # t => Touched(th'[u].sub, th'[u].m) = T(u)
  BY DEF Alone
<1>2. Touched(th'[t].sub, th'[t].m) = new
  OBVIOUS
<1>3. \A u \in Thread \ {t} : T(u) \cap new \subseteq crossed'
  BY DEF Crossing
<1>4. \A u, v \in Thread : u # v => T(u) \cap T(v) \subseteq crossed'
  BY DEF GapInv, Exclusive
<1> HIDE DEF T, new
<1>5. \A u, v \in Thread : u # v =>
        Touched(th'[u].sub, th'[u].m) \cap Touched(th'[v].sub, th'[v].m) \subseteq crossed'
  BY <1>1, <1>2, <1>3, <1>4
<1> QED
  BY <1>5 DEF Exclusive, Touched

\* A thread between two routines calls one, goes on or ends its command
LEMMA BetweenGap ==
  ASSUME Inv, GapInv, NEW t \in Thread, th[t].sub = "-", enabled' = enabled, limp \subseteq limp',
         \A m \in Motor : Served(m) => Served(m)' \/ m \in limp',
         \/ /\ UNCHANGED crossed
            /\ Alone(t) /\ th'[t].sub = "-" /\ th'[t].peer = FALSE
         \/ \E x \in Entry, m \in Motor, next \in Place : Call(t, x, m, next)
  PROVE  GapInv'
<1>0. Facts(t) /\ th[t].peer = FALSE
  BY FactsHold DEF Facts, ThreadOK, CalAt, LrAt, ThreadType
<1>1. CASE UNCHANGED crossed /\ Alone(t) /\ th'[t].sub = "-" /\ th'[t].peer = FALSE
  <2>1. \A m \in Motor : ~Needs(t, m)'
    BY <1>1 DEF Needs
  <2>2. NoGap'
    BY <1>1, <2>1, QuietGap
  <2>3. \A m : Touched("-", m) = {}
    BY DEF Touched
  <2>4. \A u \in Thread : Touched(th'[u].sub, th'[u].m) \subseteq Touched(th[u].sub, th[u].m)
    BY <1>1, <2>3 DEF Alone
  <2>5. \A u, v \in Thread : u # v =>
          Touched(th'[u].sub, th'[u].m) \cap Touched(th'[v].sub, th'[v].m) \subseteq crossed'
    <3> SUFFICES ASSUME NEW u \in Thread, NEW v \in Thread, u # v
                 PROVE  Touched(th'[u].sub, th'[u].m) \cap Touched(th'[v].sub, th'[v].m) \subseteq crossed
      BY <1>1
    <3>1. Touched(th[u].sub, th[u].m) \cap Touched(th[v].sub, th[v].m) \subseteq crossed
      BY DEF GapInv, Exclusive
    <3> QED
      BY <2>4, <3>1
  <2> QED
    BY <2>2, <2>5 DEF GapInv, Exclusive, Touched
<1>2. ASSUME NEW x \in Entry, NEW m \in Motor, NEW next \in Place, Call(t, x, m, next)
      PROVE  GapInv'
  <2>1. x \in SubPlace /\ x # "en.on"
    BY DEF Entry, SubPlace, Pausing
  <2>2. /\ Alone(t) /\ th'[t].sub = x /\ th'[t].m = m /\ th'[t].peer = FALSE
    BY <1>0, <1>2, <2>1, CallEffect DEF Facts
  <2>3. crossed' = crossed \cup Crossing(t, x, m)
    BY <1>2, Zenon DEF Call
  <2>4. \A n \in Motor : ~Needs(t, n)'
    <3>1. ~th'[t].peer /\ th'[t].sub # "en.on"
      BY <2>1, <2>2
    <3> QED
      BY <3>1, Zenon DEF Needs
  <2>5. NoGap'
    BY <2>2, <2>3, <2>4, QuietGap
  <2>6. Exclusive'
    BY <2>2, <2>3, ExclusiveCall
  <2> QED
    BY <2>5, <2>6 DEF GapInv
<1> QED
  BY <1>1, <1>2

\* What a command does to a hold between its routines
LEMMA CommandServes ==
  ASSUME Inv, NEW t \in Thread, Command(t)
  PROVE  /\ enabled' = enabled /\ limp \subseteq limp'
         /\ \A m \in Motor : Served(m) => Served(m)' \/ m \in limp'
<1> USE DEF hist, flags, Served
<1>0. FlagsOK /\ M1 \in Motor /\ th[t].cmd[2] \in Motor
  BY FactsHold, Peers, TypeParts DEF Inv, Facts, ThreadType
<1>1. CASE Hold(t)
  BY <1>0, <1>1 DEF Hold, Set, FlagsOK
<1>2. CASE Unhold(t)
  BY <1>0, <1>2 DEF Unhold, Set, FlagsOK
<1>3. CASE FreeHang(t)
  BY <1>0, <1>3 DEF FreeHang, Set, FlagsOK
<1>4. ASSUME NEW m \in Motor, NEW x, MoveTo(m, x)
      PROVE  enabled' = enabled /\ \A n \in Motor : Served(n) => Served(n)'
  BY <1>0, <1>4 DEF MoveTo, Set, FlagsOK
<1>5. CASE MoveCommand(t)
  BY <1>0, <1>4, <1>5 DEF MoveCommand, TouchWall
<1>6. CASE Approach(t)
  BY <1>0, <1>4, <1>6 DEF Approach, TouchWall
<1>7. CASE Press(t)
  BY <1>0, <1>7 DEF Press, Pressed, Set, FlagsOK
<1>8. CASE \/ Start(t) \/ Single(t) \/ LrSlot(t) \/ MotorNotEnabled(t) \/ Over(t) \/ DeployRefused(t)
           \/ Waited(t) \/ PressEnds(t) \/ Prepare(t) \/ Park(t)
  <2>1. UNCHANGED <<enabled, hold, moving, limp>>
    <3>1. CASE Start(t)
      BY <3>1, Zenon DEF Start
    <3>2. CASE \/ Single(t) \/ LrSlot(t) \/ MotorNotEnabled(t) \/ Over(t) \/ DeployRefused(t)
               \/ Waited(t) \/ PressEnds(t) \/ Prepare(t) \/ Park(t)
      <4>1. OnlyTh
        BY <3>2, Zenon DEF Single, LrSlot, MotorNotEnabled, Over, DeployRefused, Waited, PressEnds,
                           Prepare, Park
      <4> QED
        BY <4>1 DEF OnlyTh
    <3> QED
      BY <1>8, <3>1, <3>2
  <2> QED
    BY <2>1
<1>9. CASE Startup(t) \/ InitBegin(t) \/ InitSteps(t) \/ InitEnd(t)
  BY <1>9 DEF Startup, InitBegin, InitSteps, InitEnd
<1> QED
  BY <1>1, <1>2, <1>3, <1>5, <1>6, <1>7, <1>8, <1>9 DEF Command

LEMMA CommandGap ==
  ASSUME Inv, GapInv, NEW t \in Thread, Command(t)
  PROVE  GapInv'
<1> DEFINE calls == \E x \in Entry, m \in Motor, next \in Place : Call(t, x, m, next)
           goes  == UNCHANGED crossed /\ (Finish(t) \/ \E next \in Place : Jump(t, next))
<1>0. /\ Facts(t) /\ M1 \in Motor /\ M2 \in Motor /\ th[t].cmd[2] \in Motor
      /\ th[t].peer \in BOOLEAN
  BY FactsHold, Peers DEF Facts, ThreadType
<1>1. ASSUME th[t].sub = "-", calls
      PROVE  GapInv'
  BY <1>1, BetweenGap, CommandServes
<1>2. ASSUME th[t].sub = "-", goes
      PROVE  GapInv'
  <2>1. ~th[t].peer
    BY <1>0, <1>2 DEF Facts, ThreadOK, CalAt, LrAt
  <2>2. Alone(t) /\ th'[t].sub = "-" /\ ~th'[t].peer /\ th'[t].peer \in BOOLEAN
    <3>1. CASE Finish(t)
      BY <1>0, <3>1, FinishEffect, IdleIs DEF Facts
    <3>2. ASSUME NEW next \in Place, Jump(t, next)
          PROVE  Alone(t) /\ th'[t].sub = "-" /\ th'[t].peer = th[t].peer
      BY <1>0, <1>2, <3>2, JumpEffect DEF Facts
    <3> QED
      BY <1>0, <1>2, <2>1, <3>1, <3>2
  <2>3. th'[t].peer = FALSE
    BY <2>2
  <2> QED
    BY <1>2, <2>2, <2>3, BetweenGap, CommandServes
<1>3. CASE Start(t)
  <2>1. th[t].sub = "-" /\ UNCHANGED crossed
    BY <1>0, <1>3 DEF Start, Busy, Facts, ThreadOK
  <2>2. PICK c \in Commands : th' = [th EXCEPT ![t] = [Idle EXCEPT !.cmd = c, !.at = c[1]]]
    BY <1>3, Zenon DEF Start
  <2> DEFINE r == [Idle EXCEPT !.cmd = c, !.at = c[1]]
  <2>3. r.sub = "-" /\ r.peer = FALSE
    BY IdleIs DEF ThreadType
  <2>4. th' = [th EXCEPT ![t] = r]
    BY <2>2
  <2> HIDE DEF r
  <2>5. Alone(t) /\ th'[t] = r
    BY <1>0, <2>4 DEF Facts, Alone
  <2> QED
    BY <2>1, <2>3, <2>5, BetweenGap, CommandServes
<1> USE DEF At, OnlyTh
<1>4. CASE Single(t) \/ LrSlot(t)
  <2>1. th[t].sub = "-" /\ calls
    BY <1>0, <1>4 DEF Single, LrSlot, Entry, Place
  <2> QED
    BY <1>1, <2>1
<1>5. CASE \/ MotorNotEnabled(t) \/ Over(t) \/ DeployRefused(t) \/ Hold(t) \/ Unhold(t) \/ MoveCommand(t)
           \/ InitEnd(t)
  <2>1. th[t].sub = "-" /\ goes
    BY <1>5 DEF MotorNotEnabled, Over, DeployRefused, Hold, Unhold, MoveCommand, InitEnd, InitFails, hist
  <2> QED
    BY <1>2, <2>1
<1>6. CASE FreeHang(t) \/ Approach(t) \/ Waited(t) \/ PressEnds(t) \/ Press(t)
  <2>1. {"hangs", "d.wait", "d.press", "done"} \subseteq Place
    BY DEF Place
  <2>2. th[t].sub = "-" /\ goes
    BY <1>6, <2>1 DEF FreeHang, Approach, Waited, PressEnds, Press, Pressed, hist
  <2> QED
    BY <1>2, <2>2
<1>7. CASE Startup(t)
  <2>1. th[t].sub = "-" /\ (calls \/ goes)
    BY <1>0, <1>7 DEF Startup, Entry, Place, Kinds
  <2> QED
    BY <1>1, <1>2, <2>1
<1>8. CASE InitBegin(t) \/ InitSteps(t)
  <2>1. th[t].sub = "-" /\ (calls \/ goes)
    BY <1>0, <1>8 DEF InitBegin, InitStarts, InitSteps, Entry, Place
  <2> QED
    BY <1>1, <1>2, <2>1
<1>9. CASE Prepare(t)
  <2>1. th[t].sub = "-" /\ (calls \/ goes)
    BY <1>0, <1>9 DEF Prepare, Entry, Place
  <2> QED
    BY <1>1, <1>2, <2>1
<1>10. CASE Park(t)
  <2>1. th[t].sub = "-" /\ (calls \/ goes)
    BY <1>0, <1>10 DEF Park, Entry, Place
  <2> QED
    BY <1>1, <1>2, <2>1
<1> QED
  BY <1>3, <1>4, <1>5, <1>6, <1>7, <1>8, <1>9, <1>10 DEF Command

\* A step within a routine that takes no hold away
LEMMA QuietRoutine ==
  ASSUME Inv, GapInv, NEW t \in Thread, Alone(t), UNCHANGED crossed, limp \subseteq limp',
         th'[t].m = th[t].m, th'[t].peer => th[t].peer,
         th[t].sub \notin {"-", "en.off", "lr.begin"}, th'[t].sub # "en.on",
         th'[t].sub \in Pausing => th[t].sub \in Pausing,
         \A m \in Motor : /\ enabled'[m] => enabled[m]
                          /\ Served(m) => Served(m)' \/ m \in limp'
  PROVE  GapInv'
<1>1. \A m \in Motor : Needs(t, m)' => Needs(t, m)
  BY DEF Needs
<1>2. NoGap'
  BY <1>1, QuietGap
<1>3. Exclusive'
  BY ExclusiveWithin
<1> QED
  BY <1>2, <1>3 DEF GapInv

\* Both flags taken
LEMMA BothGap ==
  ASSUME Inv, GapInv, NEW t \in Thread, Alone(t), UNCHANGED <<crossed, limp, hold, moving>>,
         th'[t].m = th[t].m, th'[t].peer = enabled[Peer(th[t].m)], th'[t].sub \in Pausing \ {"en.on"},
         th[t].sub \in Pausing, enabled' = [n \in Motor |-> FALSE]
  PROVE  GapInv'
<1> DEFINE m == th[t].m
<1>0. m \in Motor
  BY FactsHold DEF Facts
<1>1. \A n \in Motor : Served(n)' <=> Served(n)
  BY DEF Served
<1>2. \A n \in Motor : Needs(t, n)' => n # m /\ enabled[n]
  BY <1>0, Peers DEF Needs
<1>3. \A n \in Motor : n \in limp \cup crossed \/ Served(n) \/ ~Needs(t, n)'
  BY <1>2, PeerServed
<1>4. \A n \in Motor : ~enabled'[n]
  OBVIOUS
<1>5. NoGap'
  BY <1>1, <1>3, <1>4, GapStep
<1>6. "-" \notin Pausing
  BY DEF Pausing
<1>7. Exclusive'
  BY <1>6, ExclusiveWithin
<1> QED
  BY <1>5, <1>7 DEF GapInv

\* A flag given back
LEMMA EndGap ==
  ASSUME Inv, GapInv, NEW t \in Thread, RoutineEnd(t), th[t].sub # "-"
  PROVE  GapInv'
<1> DEFINE m == th[t].m
<1>0. Facts(t) /\ FlagsOK /\ m \in Motor /\ th[t].ok \in BOOLEAN
  BY FactsHold, TypeParts DEF Facts, Inv, ThreadType
<1>1. Alone(t) /\ th'[t].sub = "-" /\ th'[t].m = m /\ th'[t].peer = FALSE
  BY <1>0, ReturnEffect DEF RoutineEnd, Facts
<1>a. hold' = [hold EXCEPT ![m] = TRUE] /\ moving' = [moving EXCEPT ![m] = FALSE]
  BY DEF RoutineEnd, Set
<1>2. \A n \in Motor : n = m => Served(n)'
  <2>1. hold'[m] = TRUE
    BY <1>0, <1>a DEF FlagsOK
  <2> QED
    BY <2>1, Zenon DEF Served
<1>3. \A n \in Motor : n # m => (Served(n)' <=> Served(n))
  <2>1. \A n \in Motor : n # m => hold'[n] = hold[n] /\ moving'[n] = moving[n]
    BY <1>0, <1>a DEF FlagsOK
  <2> QED
    BY <2>1, Zenon DEF Served
<1>4. \A n \in Motor : n # m /\ enabled'[n] => enabled[n] \/ Needs(t, n)
  BY DEF RoutineEnd, GivenBack, Needs
<1>5. \A n \in Motor : n \in limp \cup crossed \/ Served(n) \/ ~Needs(t, n)
  BY DEF GapInv, NoGap
<1>6. \A n \in Motor : ~Needs(t, n)' /\ (n # m => ~Gives(t, n))
  BY <1>1 DEF Needs, Gives
<1>7. limp' = limp /\ crossed' = crossed
  BY DEF RoutineEnd, hist
<1>8. NoGap'
  BY <1>1, <1>2, <1>3, <1>4, <1>5, <1>6, <1>7, GapStep
<1>9. "-" \notin Pausing
  BY DEF Pausing
<1>10. Exclusive'
  BY <1>1, <1>7, <1>9, ExclusiveWithin
<1> QED
  BY <1>8, <1>10 DEF GapInv

\* A hold given up in a routine: the flag is down, or the thread takes it in its next step
LEMMA LimpGap ==
  ASSUME Inv, GapInv, NEW t \in Thread, Alone(t), UNCHANGED <<crossed, limp>>,
         th'[t].m = th[t].m, th'[t].peer => th[t].peer,
         th[t].sub \in {"en.limp", "dis.flags", "lr.limp"}, th'[t].sub \in {"en.off", "dis.hw", "lr.begin"},
         th'[t].sub \in Pausing => th[t].sub \in Pausing,
         \A n \in Motor : n # th[t].m => enabled'[n] = enabled[n] /\ (Served(n) <=> Served(n)'),
         \A n \in Motor : n = th[t].m /\ enabled'[n] => Gives(t, n)'
  PROVE  GapInv'
<1> DEFINE m == th[t].m
<1>0. m \in Motor
  BY FactsHold DEF Facts
<1>1. m \in Touched(th[t].sub, th[t].m)
  BY <1>0 DEF Touched
<1>2. \A n \in Motor : (Needs(t, n)' => n # m /\ Needs(t, n)) /\ (n # m => ~Gives(t, n))
  BY DEF Needs, Gives
<1>3. \A n \in Motor : n \in limp \cup crossed \/ Served(n) \/ ~Needs(t, n)
  BY DEF GapInv, NoGap
<1>4. ASSUME NEW n \in Motor
      PROVE  \/ n \in limp' \cup crossed'
             \/ Served(n)'
             \/ /\ n \notin limp
                /\ Served(n) => n \in Touched(th[t].sub, th[t].m)
                /\ ~Needs(t, n)'
                /\ enabled'[n] => \/ Gives(t, n)'
                                  \/ enabled[n] /\ ~Gives(t, n) /\ ~Served(n)
  <2>1. CASE n = m
    BY <1>1, <1>2, <2>1
  <2>2. CASE n # m
    BY <1>2, <1>3, <2>2
  <2> QED
    BY <2>1, <2>2
<1>5. NoGap'
  BY <1>4, GapStep
<1>6. Exclusive'
  BY ExclusiveWithin
<1> QED
  BY <1>5, <1>6 DEF GapInv

\* The hold set and the peer's flag given back, then the motor's own flag
LEMMA ArmGap ==
  ASSUME Inv, GapInv, NEW t \in Thread, EnableArm(t) \/ EnableOn(t)
  PROVE  GapInv'
<1> DEFINE m == th[t].m
<1>0. Facts(t) /\ FlagsOK /\ m \in Motor /\ Peer(m) \in Motor /\ TRUE \in BOOLEAN /\ FALSE \in BOOLEAN
  BY FactsHold, Peers, TypeParts DEF Facts, Inv
<1>1. th[t].sub \in {"en.arm", "en.on"} /\ crossed' = crossed
  BY DEF EnableArm, EnableOn, In
<1>2. \A n \in Motor : n \in limp \cup crossed \/ Served(n) \/ ~Needs(t, n)
  BY DEF GapInv, NoGap
<1>3. \A n \in Motor : ~Gives(t, n)
  BY <1>1 DEF Gives
<1>4. CASE EnableArm(t)
  <2>1. /\ hold' = [hold EXCEPT ![m] = TRUE] /\ moving' = moving /\ limp' = limp \ {m}
        /\ enabled' = [enabled EXCEPT ![Peer(m)] = @ \/ th[t].peer]
        /\ TakesPeer(t, "en.on", FALSE)
    BY <1>4 DEF EnableArm, Set, TakesPeer
  <2>2. /\ Alone(t) /\ th'[t].sub = "en.on" /\ th'[t].m = m /\ th'[t].peer = FALSE
    <3>1. "en.on" \in SubPlace
      BY DEF SubPlace, Pausing
    <3> QED
      BY <1>0, <2>1, <3>1, PeerEffect DEF Facts
  <2> HIDE DEF m
  <2>3. \A n \in Motor : n = m => Served(n)'
    <3>1. hold'[m] = TRUE
      BY <1>0, <2>1 DEF FlagsOK
    <3> QED
      BY <3>1, Zenon DEF Served
  <2>4. \A n \in Motor : n # m => (Served(n)' <=> Served(n))
    <3>1. \A n \in Motor : n # m => hold'[n] = hold[n] /\ moving'[n] = moving[n]
      BY <1>0, <2>1 DEF FlagsOK
    <3> QED
      BY <3>1, Zenon DEF Served
  <2>5. \A n \in Motor : n # m /\ enabled'[n] => enabled[n] \/ Needs(t, n)
    BY <1>0, <2>1, Peers DEF Needs, Facts, m
  <2>6. \A n \in Motor : n # m => ~Needs(t, n)'
    <3>1. ~th'[t].peer
      BY <2>2
    <3> QED
      BY <2>2, <3>1, Zenon DEF Needs
  <2>7. NoGap'
    <3>1. ASSUME NEW n \in Motor, n # m
          PROVE  \/ n \in limp' \cup crossed'
                 \/ Served(n)'
                 \/ /\ n \notin limp /\ ~Served(n) /\ ~Needs(t, n)' /\ ~Gives(t, n)
                    /\ enabled'[n] => enabled[n]
      BY <1>1, <1>2, <1>3, <2>1, <2>4, <2>5, <2>6, <3>1
    <3> QED
      BY <1>1, <2>2, <2>3, <3>1, GapStep
  <2>8. Exclusive'
    BY <1>1, <2>2, ExclusiveWithin DEF Pausing, m
  <2> QED
    BY <2>7, <2>8 DEF GapInv
<1>5. CASE EnableOn(t)
  <2>1. /\ UNCHANGED <<hold, moving, limp>> /\ enabled' = [enabled EXCEPT ![m] = TRUE]
        /\ Return(t, TRUE) /\ th[t].sub = "en.on"
    BY <1>5 DEF EnableOn, Set, In
  <2>2. /\ Alone(t) /\ th'[t].sub = "-" /\ th'[t].m = m /\ th'[t].peer = FALSE
    BY <1>0, <2>1, ReturnEffect DEF Facts
  <2>3. \A n \in Motor : Served(n)' <=> Served(n)
    BY <2>1 DEF Served
  <2>4. m \in limp \cup crossed \/ Served(m)
    BY <1>0, <1>2, <2>1 DEF Needs
  <2>5. \A n \in Motor : n # m => enabled'[n] = enabled[n]
    BY <1>0, <2>1 DEF Facts
  <2>6. \A n \in Motor : ~Needs(t, n)'
    <3>1. ~th'[t].peer
      BY <2>2
    <3> QED
      BY <2>2, <3>1 DEF Needs
  <2>7. NoGap'
    BY <1>1, <1>3, <2>1, <2>2, <2>3, <2>4, <2>5, <2>6, GapStep
  <2>8. "-" \notin Pausing
    BY DEF Pausing
  <2>9. Exclusive'
    BY <1>1, <2>2, <2>8, ExclusiveWithin
  <2> QED
    BY <2>7, <2>9 DEF GapInv
<1> QED
  BY <1>4, <1>5

\* Every step of a routine leaves no motor with its flag up and nothing to hold it
LEMMA RoutineGap ==
  ASSUME Inv, GapInv, NEW t \in Thread, Routine(t)
  PROVE  GapInv'
<1> DEFINE m == th[t].m
<1>0. /\ Facts(t) /\ FlagsOK /\ m \in Motor /\ Peer(m) \in Motor /\ TRUE \in BOOLEAN /\ FALSE \in BOOLEAN
      /\ M1 \in Motor /\ M2 \in Motor
  BY FactsHold, Peers, TypeParts DEF Facts, Inv
<1>a. /\ {"en.off", "en.window", "en.arm", "en.on", "dis.hw", "zero.set"} \subseteq SubPlace
      /\ {"home.ramp", "home.end", "slot.ramp", "slot.end"} \subseteq SubPlace
      /\ {"cal.seek", "cal.zero", "cal.end"} \subseteq SubPlace
      /\ {"lr.begin", "lr.seek", "lr.back", "lr.centre", "lr.zero", "lr.done", "lr.end"} \subseteq SubPlace
  BY DEF SubPlace, Pausing, Driving
\* The steps that take no hold away
<1>1. ASSUME NEW x \in SubPlace, Go(t, x) \/ \E b \in BOOLEAN : Results(t, x, b),
             UNCHANGED <<enabled, hold, moving, limp, crossed>>,
             th[t].sub \notin {"-", "en.off", "lr.begin"}, x # "en.on",
             x \in Pausing => th[t].sub \in Pausing
      PROVE  GapInv'
  <2>1. Alone(t) /\ th'[t].sub = x /\ th'[t].m = m /\ th'[t].peer = th[t].peer
    BY <1>0, <1>1, GoEffect, ResultEffect DEF Facts
  <2>2. \A n \in Motor : (enabled'[n] => enabled[n]) /\ (Served(n) => Served(n)')
    BY <1>1 DEF Served
  <2> QED
    BY <1>1, <2>1, <2>2, QuietRoutine
<1> USE DEF In, hist, flags
<1>2. CASE EnableWindow(t)
  <2>1. Go(t, "en.arm") /\ UNCHANGED <<enabled, hold, moving, limp, crossed>> /\ th[t].sub = "en.window"
    BY <1>2, Zenon DEF EnableWindow
  <2> QED
    BY <1>1, <1>a, <2>1 DEF Pausing
<1>3. CASE HomeRamp(t)
  <2>1. /\ \E b \in BOOLEAN : Results(t, "home.end", b)
        /\ UNCHANGED <<enabled, hold, moving, limp, crossed>> /\ th[t].sub = "home.ramp"
    BY <1>0, <1>3 DEF HomeRamp, HomeSettles, Results
  <2> QED
    BY <1>1, <1>a, <2>1 DEF Pausing
<1>4. CASE CalSeek(t) \/ CalZero(t)
  <2>1. /\ Go(t, "cal.zero") \/ Results(t, "cal.end", FALSE) \/ Results(t, "cal.end", TRUE)
        /\ UNCHANGED <<enabled, hold, moving, limp, crossed>> /\ th[t].sub \in {"cal.seek", "cal.zero"}
    BY <1>4 DEF CalSeek, CalZero, Results
  <2> QED
    BY <1>0, <1>1, <1>a, <2>1 DEF Pausing
<1>5. CASE LrSeek(t) \/ LrBack(t) \/ LrCentre(t)
  <2>1. /\ \/ Go(t, "lr.back") \/ Go(t, "lr.centre") \/ Results(t, "lr.end", FALSE)
           \/ \E b \in BOOLEAN : Results(t, "lr.zero", b)
        /\ UNCHANGED <<enabled, hold, moving, limp, crossed>>
        /\ th[t].sub \in {"lr.seek", "lr.back", "lr.centre"}
    BY <1>5 DEF LrSeek, LrBack, LrCentre, LrGivesUp, Results
  <2> QED
    BY <1>0, <1>1, <1>a, <2>1 DEF Pausing
<1>6. CASE SlotRamp(t)
  <2>1. /\ \E b \in BOOLEAN : Results(t, "slot.end", b)
        /\ UNCHANGED <<enabled, hold, moving, limp, crossed>> /\ th[t].sub = "slot.ramp"
    BY <1>6 DEF SlotRamp, Results
  <2> QED
    BY <1>1, <1>a, <2>1 DEF Pausing
<1>7. CASE DisableHw(t) \/ ZeroSet(t)
  <2>1. /\ Return(t, TRUE) /\ UNCHANGED <<enabled, hold, moving, limp, crossed>>
        /\ th[t].sub \in {"dis.hw", "zero.set"}
    BY <1>7 DEF DisableHw, ZeroSet
  <2>2. Alone(t) /\ th'[t].sub = "-" /\ th'[t].m = m /\ ~th'[t].peer
    BY <1>0, <2>1, ReturnEffect DEF Facts
  <2>3. \A n \in Motor : (enabled'[n] => enabled[n]) /\ (Served(n) => Served(n)')
    BY <2>1 DEF Served
  <2> QED
    BY <2>1, <2>2, <2>3, QuietRoutine DEF Pausing
<1>8. CASE ZeroLimp(t)
  <2>1. /\ Go(t, "zero.set") /\ UNCHANGED <<enabled, crossed>> /\ limp' = limp \cup {m}
        /\ hold' = [hold EXCEPT ![m] = FALSE] /\ moving' = [moving EXCEPT ![m] = FALSE]
        /\ th[t].sub = "zero.limp"
    BY <1>8 DEF ZeroLimp, Set
  <2>2. Alone(t) /\ th'[t].sub = "zero.set" /\ th'[t].m = m /\ th'[t].peer = th[t].peer
    BY <1>0, <1>a, <2>1, GoEffect DEF Facts
  <2> HIDE DEF m
  <2>3. \A n \in Motor : n # m => hold'[n] = hold[n] /\ moving'[n] = moving[n]
    BY <1>0, <2>1 DEF FlagsOK
  <2>4. \A n \in Motor : (enabled'[n] => enabled[n]) /\ (Served(n) => Served(n)' \/ n \in limp')
    BY <2>1, <2>3, Zenon DEF Served
  <2> QED
    BY <2>1, <2>2, <2>4, QuietRoutine DEF Pausing, m
<1>9. CASE HomeBegin(t) \/ SlotBegin(t)
  <2>1. PICK n \in Motor : Take(t, n)
    BY <1>0, <1>9 DEF HomeBegin, SlotBegin
  <2>2. UNCHANGED <<hold, moving, limp, crossed>> /\ th[t].sub \in {"home.begin", "slot.begin"}
    BY <1>9 DEF HomeBegin, SlotBegin
  <2> DEFINE x == IF th[t].sub = "home.begin" THEN "home.ramp" ELSE "slot.ramp"
  <2>3. x \in {"home.ramp", "slot.ramp"} /\ x \in SubPlace
    BY <1>a
  <2>4. TakesOne(t, x, enabled[n]) /\ enabled' = [enabled EXCEPT ![n] = FALSE]
    BY <2>1 DEF Take, TakesOne
  <2> HIDE DEF x
  <2>5. Alone(t) /\ th'[t].sub = x /\ th'[t].m = m /\ th'[t].peer = th[t].peer
    <3>1. enabled[n] \in BOOLEAN
      BY <1>0 DEF Facts
    <3> QED
      BY <1>0, <2>3, <2>4, <3>1, TakeEffect DEF Facts
  <2>6. \A k \in Motor : (enabled'[k] => enabled[k]) /\ (Served(k) => Served(k)')
    BY <1>0, <2>2, <2>4 DEF Served, Facts
  <2> QED
    BY <2>2, <2>3, <2>5, <2>6, QuietRoutine DEF Pausing
<1>10. CASE LrZero(t)
  <2>1. /\ Go(t, "lr.done") /\ UNCHANGED <<hold, moving, limp, crossed>> /\ th[t].sub = "lr.zero"
        /\ enabled' = [enabled EXCEPT ![M2] = FALSE]
    BY <1>10 DEF LrZero, Set
  <2>2. Alone(t) /\ th'[t].sub = "lr.done" /\ th'[t].m = m /\ th'[t].peer = th[t].peer
    BY <1>0, <1>a, <2>1, GoEffect DEF Facts
  <2>3. \A n \in Motor : (enabled'[n] => enabled[n]) /\ (Served(n) => Served(n)')
    BY <1>0, <2>1 DEF Served, Facts
  <2> QED
    BY <2>1, <2>2, <2>3, QuietRoutine DEF Pausing
\* The steps that take a hold away, and those that touch the other motor's flag
<1>11. CASE EnableLimp(t) \/ LrLimp(t) \/ DisableFlags(t)
  <2>1. PICK x \in {"en.off", "lr.begin", "dis.hw"} :
          /\ Go(t, x) /\ UNCHANGED <<limp, crossed>>
          /\ \/ th[t].sub = "en.limp" /\ x = "en.off" /\ enabled' = enabled
             \/ th[t].sub = "lr.limp" /\ x = "lr.begin" /\ enabled' = enabled
             \/ th[t].sub = "dis.flags" /\ x = "dis.hw" /\ enabled' = [enabled EXCEPT ![m] = FALSE]
          /\ hold' = [hold EXCEPT ![m] = FALSE] /\ moving' = [moving EXCEPT ![m] = FALSE]
    <3>1. LrLimp(t) => m = M2
      BY <1>0 DEF LrLimp, Facts, ThreadOK
    <3> QED
      BY <1>11, <3>1 DEF EnableLimp, LrLimp, DisableFlags, Set
  <2>2. Alone(t) /\ th'[t].sub = x /\ th'[t].m = m /\ th'[t].peer = th[t].peer
    BY <1>0, <1>a, <2>1, GoEffect DEF Facts
  <2>3. \A n \in Motor : n # m => hold'[n] = hold[n] /\ moving'[n] = moving[n] /\ enabled'[n] = enabled[n]
    <3> HIDE DEF m
    <3> QED
      BY <1>0, <2>1 DEF FlagsOK
  <2>4. \A n \in Motor : n # m => enabled'[n] = enabled[n] /\ (Served(n) <=> Served(n)')
    BY <2>3, Zenon DEF Served
  <2>5. \A n \in Motor : n = m /\ enabled'[n] => Gives(t, n)'
    <3>1. x = "dis.hw" => ~enabled'[m]
      BY <1>0, <2>1 DEF FlagsOK
    <3> QED
      BY <2>1, <2>2, <3>1 DEF Gives
  <2> QED
    BY <2>1, <2>2, <2>4, <2>5, LimpGap DEF Pausing
<1>12. CASE EnableOff(t)
  <2>1. /\ TakesPeer(t, "en.window", enabled[Peer(m)]) /\ enabled' = [n \in Motor |-> FALSE]
        /\ UNCHANGED <<hold, moving, limp, crossed>> /\ th[t].sub = "en.off"
    BY <1>12 DEF EnableOff, TakesPeer
  <2>2. Alone(t) /\ th'[t].sub = "en.window" /\ th'[t].m = m /\ th'[t].peer = enabled[Peer(m)]
    <3>1. enabled[Peer(m)] \in BOOLEAN
      BY <1>0 DEF Facts
    <3> QED
      BY <1>0, <1>a, <2>1, <3>1, PeerEffect DEF Facts
  <2>3. "en.window" \in Pausing \ {"en.on"} /\ "en.off" \in Pausing
    BY DEF Pausing
  <2> QED
    BY <2>1, <2>2, <2>3, BothGap
<1>13. CASE CalBegin(t) \/ LrBegin(t)
  <2>1. PICK x \in {"cal.seek", "lr.seek"} :
          /\ TakesBoth(t, x, enabled[m], enabled[Peer(m)]) /\ enabled' = [n \in Motor |-> FALSE]
          /\ UNCHANGED <<hold, moving, limp, crossed>> /\ th[t].sub \in {"cal.begin", "lr.begin"}
    <3>1. /\ CalBegin(t) => m = M1
          /\ LrBegin(t) => m = M2
      BY <1>0 DEF CalBegin, LrBegin, Facts, ThreadOK
    <3> QED
      BY <1>13, <3>1 DEF CalBegin, LrBegin, TakeBoth, TakesBoth
  <2>2. Alone(t) /\ th'[t].sub = x /\ th'[t].m = m /\ th'[t].peer = enabled[Peer(m)]
    <3>1. enabled[m] \in BOOLEAN /\ enabled[Peer(m)] \in BOOLEAN
      BY <1>0 DEF Facts
    <3> QED
      BY <1>0, <1>a, <2>1, <3>1, TakeBothEffect DEF Facts
  <2>3. {"cal.seek", "lr.seek"} \subseteq Pausing \ {"en.on"} /\ {"cal.begin", "lr.begin"} \subseteq Pausing
    BY DEF Pausing
  <2> QED
    BY <2>1, <2>2, <2>3, BothGap
<1>14. CASE EnableArm(t) \/ EnableOn(t)
  BY <1>14, ArmGap
<1>15. CASE HomeEnd(t) \/ CalEnd(t) \/ LrDone(t) \/ LrEnd(t) \/ SlotEnd(t)
  BY <1>15, EndGap DEF HomeEnd, CalEnd, LrDone, LrEnd, SlotEnd
<1> QED
  BY <1>2, <1>3, <1>4, <1>5, <1>6, <1>7, <1>8, <1>9, <1>10, <1>11, <1>12, <1>13, <1>14, <1>15
     DEF Routine

\* The loop takes a move's end for a hold
LEMMA FeedbackGap ==
  ASSUME Inv, GapInv, Feedback
  PROVE  GapInv'
<1>0. FlagsOK
  BY TypeParts DEF Inv
<1>1. UNCHANGED <<th, enabled, limp, crossed>>
  BY DEF Feedback, Recover, MoveDone, flags, hist
<1>2. \A m \in Motor : Served(m) => Served(m)'
  BY <1>0 DEF Feedback, Recover, MoveDone, flags, Set, Served, FlagsOK
<1>3. NoGap'
  BY <1>1, <1>2 DEF GapInv, NoGap, Needs, Gives
<1>4. Exclusive'
  BY <1>1 DEF GapInv, Exclusive, Touched
<1> QED
  BY <1>3, <1>4 DEF GapInv

LEMMA GapInit ==
  ASSUME Init
  PROVE  GapInv
<1>1. /\ \A t \in Thread : th[t].sub = "-" /\ ~th[t].peer
      /\ \A m \in Motor : ~enabled[m]
  BY IdleIs DEF Init, ThreadType
<1>2. NoGap
  BY <1>1 DEF NoGap, Needs
<1>3. Exclusive
  BY <1>1 DEF Exclusive, Touched
<1> QED
  BY <1>2, <1>3 DEF GapInv

LEMMA GapNext ==
  ASSUME Inv, GapInv, [Next]_vars
  PROVE  GapInv'
<1>1. CASE UNCHANGED vars
  BY <1>1 DEF vars, flags, hist, GapInv, NoGap, Exclusive, Touched, Needs, Gives, Served
<1> QED
  BY <1>1, FeedbackGap, RoutineGap, CommandGap DEF Next

-----------------------------------------------------------------------------
(* The theorems *)

\* The variables range over the values the code gives them
THEOREM TypeCorrect == Spec => []TypeOK
<1>1. Inv => TypeOK
  BY DEF Inv
<1> QED
  BY <1>1, InvInit, InvStep, PTL DEF Spec

\* A motor that was enabled and not disabled since has its flag, or a routine in progress
\* owes it, however many connections send whatever commands (exchange(false) of "enabled"
\* in the routines); the second clearing in lr_calibrate_slot is the one way to lose it.
THEOREM FlagCorrect == Spec => []FlagNotLost
<1>1. Inv => FlagNotLost
  BY DEF Inv, ArmInv
<1> QED
  BY <1>1, InvInit, InvStep, PTL DEF Spec


\* A motor whose flag is set holds or moves, whatever the connections send, unless a client
\* asked for no hold, or two routines crossed on it, or a routine gives the hold up and takes
\* the flag in its next step (enable_slot, lr_calibrate_slot): feedback_loop sends the frame
\* without torque in no other case.
THEOREM GapCorrect == Spec => []NoPassiveGap
<1>1. Init => Inv /\ GapInv
  BY InvInit, GapInit
<1>2. Inv /\ GapInv /\ [Next]_vars => (Inv /\ GapInv)'
  BY InvStep, GapNext
<1>3. Inv /\ GapInv => NoPassiveGap
  BY DEF GapInv, NoGap, Served, Gives, NoPassiveGap
<1> QED
  BY <1>1, <1>2, <1>3, PTL DEF Spec
=============================================================================
