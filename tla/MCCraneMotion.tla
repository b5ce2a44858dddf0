---------------------------- MODULE MCCraneMotion ----------------------------
(***************************************************************************)
(* CraneMotion on small instances: two connections, two sides, and for     *)
(* each run the mixes of commands and events whose interleavings matter.   *)
(***************************************************************************)
EXTENDS CraneMotion, TLC

Mix(busy, ops, events, links) ==
  [ops |-> ops, busy |-> busy, events |-> events, outages |-> links]

\* Safety, every command: the holds against each other and the lease, the
\* links, the motions, the watchdog, roll trim and manual, holds beside motions
SafetyMixes ==
  {Mix(2, {"hold", "off"}, {}, 0),
   Mix(2, {"hold", "hold_both", "stop"}, {}, 0),
   Mix(1, {"hold", "hold_both", "off", "off_both"}, {"lease"}, 1),
   Mix(2, {"rope", "roll", "align", "side", "stop"}, {"meters", "tension"}, 1),
   Mix(2, {"rope", "hold", "renew"}, {"lease", "beat"}, 0),
   Mix(2, {"trim", "manual", "rope"}, {"tension"}, 0),
   Mix(2, {"hold", "hold_both", "off_both", "rope", "roll"}, {"lease"}, 0)}

\* Liveness: what the hold loop ends, what the watchdog ends, every return of
\* every command that takes the lock
LiveMixes ==
  {Mix(1, {"hold", "trim"}, {"lease"}, 0),
   Mix(1, {"hold_both"}, {"lease"}, 1),
   Mix(1, {"rope", "roll", "side", "hold"}, {"beat"}, 0),
   Mix(1, {"rope", "align", "stop"}, {"meters", "tension"}, 1)}

\* The sides and the connections are interchangeable
Symmetry == Permutations(Client) \cup Permutations(Side)
=============================================================================
