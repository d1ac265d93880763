---------------------------- MODULE MCPriorityCycle ----------------------------
(* Values for TLC: the scale of config.go, times in units of five minutes    *)
(* scaled down, and the environments each question needs.                    *)
EXTENDS PriorityCycle

CONSTANT Names   \* of the environments of a run

MCBackoffs == <<2, 4>>
MCOneLong == <<4>>
MCOneTier == <<2>>
MCLongBackoffs == <<4, 6>>

Quiet ==
  [listed |-> "yes", hard |-> FALSE, cost |-> "none", reeval |-> FALSE, goal |-> 10,
   enough |-> FALSE, rate |-> "low", five |-> FALSE, thin |-> TRUE, new |-> {}]

\* An account known by an estimate: quiet, failing, healthy, unreliable, missing.
Idle    == [Quiet EXCEPT !.cost = "prior"]
Healthy == [Idle EXCEPT !.enough = TRUE, !.thin = FALSE, !.new = {"ok"}]
Slow    == [Healthy EXCEPT !.rate = "mid", !.new = {"ok", "fail"}]
Faulty  == [Healthy EXCEPT !.rate = "high", !.new = {"ok", "fail", "fifth"}]
Failing == [Idle EXCEPT !.five = TRUE, !.new = {"fail", "fifth"}]
\* No request since: the failures of earlier intervals are still in the window.
Worn    == [Faulty EXCEPT !.new = {}]
Stale   == [Failing EXCEPT !.new = {}]
OneFail == [Idle EXCEPT !.new = {"fail"}]
Again   == [Idle EXCEPT !.reeval = TRUE, !.goal = 90]
Warm    == [Healthy EXCEPT !.cost = "mixed", !.goal = 90]
Gone    == [Quiet EXCEPT !.listed = "gone"]
Sampled == [Quiet EXCEPT !.thin = FALSE]
Removed == [Quiet EXCEPT !.listed = "excluded"]
Off     == [Idle EXCEPT !.hard = TRUE]
Tried   == [Quiet EXCEPT !.five = TRUE, !.new = {"fail", "fifth"}]

\* An account with a mature measured cost, cheap or dear.
Cheap  == [Healthy EXCEPT !.cost = "mature"]
Dear   == [Cheap EXCEPT !.goal = 90]
Unused == [Cheap EXCEPT !.goal = 90, !.new = {}, !.enough = FALSE, !.thin = FALSE]
Fresh  == [Cheap EXCEPT !.cost = "short", !.goal = 50]
Shaky  == [Cheap EXCEPT !.rate = "high", !.new = {"ok", "fail", "fifth"}]
Broken == [Cheap EXCEPT !.enough = FALSE, !.five = TRUE, !.new = {"fail", "fifth"}]

\* What account 1 lives through, by the name of the environment; the others
\* stay quiet.
Traffic ==
  [recovery |-> {Idle, Healthy, Slow, Faulty, Failing, OneFail, Again, Warm},
   faults   |-> {Idle, Faulty, Failing, Stale},
   crash    |-> {Idle, Healthy, Failing},
   cost     |-> {Cheap, Dear, Unused, Broken, Fresh, Off},
   rate     |-> {Cheap, Shaky, Quiet},
   trial    |-> {Idle, Faulty, Gone},
   explore  |-> {Quiet, Gone, Removed, Sampled},
   tried    |-> {Quiet, Tried}]

MCEnvironments ==
  [n \in Names |->
     [kinds    |-> [a \in Accounts |-> IF a = 1 THEN Traffic[n] ELSE {Quiet}],
      outcomes |-> CASE n \in {"faults", "explore"} -> {"ok", "failed"}
                     [] n = "trial" -> {"ok", "lost"}
                     [] OTHER -> {"ok"},
      crashes  |-> IF n = "crash" THEN 1 ELSE 0,
      explores |-> n \in {"explore", "tried"}]]
=============================================================================
