----------------------------- MODULE MCMonitorCycle -----------------------------
(* Values for TLC: times in units of a third of the interval, the tiers of the *)
(* retries and the other times in their order, scaled down to a few cycles.    *)
EXTENDS MonitorCycle

CONSTANT Names   \* of the environments of a run

MCTiers == <<6, 9, 12>>

\* What an interval brings: nothing, a request, an error, both in either order
\* or at the same time, a change, a bookkeeping write, a switch.
Quiet   == Nothing
Ok      == [Quiet EXCEPT !.ok = 2, !.upd = 1]
Slow    == [Quiet EXCEPT !.ok = 1, !.slow = TRUE]
Err     == [Quiet EXCEPT !.err = 1]
OkErr   == [Quiet EXCEPT !.ok = 2, !.err = 1]
ErrOk   == [Quiet EXCEPT !.err = 2, !.ok = 1]
Same    == [Quiet EXCEPT !.err = 1, !.ok = 1]
Change  == [Quiet EXCEPT !.upd = 1, !.change = TRUE]
ErrNew  == [Change EXCEPT !.err = 2]
Touch   == [Quiet EXCEPT !.upd = 1]
Switch  == [Touch EXCEPT !.switch = TRUE]

TrafficOf ==
  [incident |-> {Quiet, Err, OkErr, ErrOk},
   slow     |-> {Quiet, Slow, Same},
   source   |-> {Err, Change, ErrNew, Touch},
   switch   |-> {Quiet, Err, Ok, Switch},
   faults   |-> {Quiet, Err},
   pool     |-> {Err}]

ProbesOf ==
  [incident |-> {"operational", "failed"},
   slow     |-> {"operational", "degraded", "config"},
   source   |-> {"operational", "failed"},
   switch   |-> {"operational", "failed"},
   faults   |-> {"operational", "failed"},
   pool     |-> {"operational"}]

MCEnvironments ==
  [n \in Names |->
     [accounts |-> IF n = "pool" THEN Accounts ELSE {1},
      traffic  |-> TrafficOf[n],
      probes   |-> ProbesOf[n],
      faults   |-> IF n = "faults" THEN 1 ELSE 0,
      crashes  |-> IF n = "faults" THEN 1 ELSE 0,
      stops    |-> IF n = "pool" THEN 1 ELSE 0]]
=============================================================================
