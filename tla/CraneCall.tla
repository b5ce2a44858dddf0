------------------------------ MODULE CraneCall ------------------------------
(***************************************************************************)
(* What crane_cmd_ promises its callers in the body application: a command *)
(* sent to the crane runs at most once, and a caller told OK may rely on   *)
(* its command having run.  A caller told nothing, or of a failure, knows  *)
(* nothing: the command may have run, and may still run later.             *)
(***************************************************************************)
EXTENDS Naturals

CONSTANT Calls     \* the calls of crane_cmd_, one line each

VARIABLES
  runs,     \* how often the crane has begun to execute the line
  result    \* what the caller has got

vars == <<runs, result>>

Init ==
  /\ runs = [c \in Calls |-> 0]
  /\ result = [c \in Calls |-> "none"]

Ask(c) ==
  /\ result[c] = "none"
  /\ result' = [result EXCEPT ![c] = "waiting"]
  /\ UNCHANGED runs

\* Also after the caller has given up
Run(c) ==
  /\ result[c] # "none"
  /\ runs[c] = 0
  /\ runs' = [runs EXCEPT ![c] = 1]
  /\ UNCHANGED result

Succeed(c) ==
  /\ result[c] = "waiting"
  /\ runs[c] = 1
  /\ result' = [result EXCEPT ![c] = "ok"]
  /\ UNCHANGED runs

Fail(c) ==
  /\ result[c] = "waiting"
  /\ result' = [result EXCEPT ![c] = "failed"]
  /\ UNCHANGED runs

Next == \E c \in Calls : Ask(c) \/ Run(c) \/ Succeed(c) \/ Fail(c)

Spec == Init /\ [][Next]_vars

\* Every caller is answered
Answered == \A c \in Calls : result[c] = "waiting" ~> result[c] # "waiting"
=============================================================================
