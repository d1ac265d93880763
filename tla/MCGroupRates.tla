---------------------------- MODULE MCGroupRates ----------------------------
(* Values for TLC: the environments of the group worker.                     *)
EXTENDS GroupRates

CONSTANT Names   \* of the environments of a run

None == [rows |-> 0, rates |-> 0, switches |-> 0, keys |-> 0, faults |-> 0, crashes |-> 0]

\* One group with two accounts, failures and a crash.
Pair ==
  [bound |-> [g \in Groups |-> IF g = 1 THEN {1, 2} ELSE {}], image |-> 0, initial |-> {},
   start |-> 2, rates |-> {}, late |-> FALSE, clock |-> FALSE,
   budget |-> [None EXCEPT !.rows = 3, !.faults = 1, !.crashes = 1]]

\* Accounts come and go, and their rates change, beside a group with one.
Shift ==
  [Pair EXCEPT !.bound[2] = {2}, !.rates = {1, 3},
     !.budget = [None EXCEPT !.rows = 1, !.rates = 1, !.switches = 1, !.faults = 1]]

\* Two groups with the same accounts.
Both ==
  [Pair EXCEPT !.bound[2] = {1, 2}, !.budget = [None EXCEPT !.rows = 2, !.faults = 1]]

\* The group of the shared upstream, once with an account too many.
Initial ==
  [Pair EXCEPT !.bound[1] = {1, 2, 3}, !.image = 1, !.initial = {1, 2},
     !.budget = [None EXCEPT !.rows = 2, !.switches = 1, !.faults = 1]]

\* The key comes and goes, and cycles fail, as time goes by.
Clock ==
  [Pair EXCEPT !.bound[1] = {1}, !.clock = TRUE,
     !.budget = [None EXCEPT !.keys = 3, !.faults = 2, !.crashes = 1]]

\* A request is logged after its account was disabled.
Late ==
  [Pair EXCEPT !.bound[1] = {1, 2, 3}, !.late = TRUE,
     !.budget = [None EXCEPT !.rows = 2, !.switches = 1]]

\* The rate of an account is taken away.
Frozen ==
  [Pair EXCEPT !.rates = {Invalid}, !.budget = [None EXCEPT !.rows = 2, !.rates = 1]]

\* The account too many was counted before it is switched off, beside a group
\* with one account.
Stall ==
  [Initial EXCEPT !.bound[2] = {1}, !.rates = {3},
     !.budget = [None EXCEPT !.rows = 1, !.rates = 1, !.switches = 1]]

\* The same beside a group with a memory of its own.
Blocked ==
  [Initial EXCEPT !.bound[2] = {1, 2}, !.start = 3,
     !.budget = [None EXCEPT !.rows = 2, !.switches = 1, !.crashes = 1]]

MCEnvironments ==
  {CASE n = "pair" -> Pair
     [] n = "shift" -> Shift
     [] n = "both" -> Both
     [] n = "initial" -> Initial
     [] n = "clock" -> Clock
     [] n = "frozen" -> Frozen
     [] n = "late" -> Late
     [] n = "stall" -> Stall
     [] n = "blocked" -> Blocked : n \in Names}
=============================================================================
