----------------------------- MODULE PriorityScale -----------------------------
(***************************************************************************)
(* The arithmetic of priority-sync: the scale of accounts.priority (config.go), *)
(* the rank of an account's cost and the priority it stands for (scoring.go), *)
(* and how far one write may move (runner.go).  A smaller number is used    *)
(* first.                                                                   *)
(***************************************************************************)
EXTENDS Integers, FiniteSets

CONSTANTS
  Best, Explore, Neutral, Poor, Unavailable, \* 10, 20, 50, 90, 1000 (priority*)
  RampStep, RampMaxSteps,                    \* 20, 4 (priorityRamp*)
  RecoveryStep, RecoverySlowStep             \* 16, 8 (recovery*RampStep)

ASSUME ScaleAssumption ==
  /\ {Best, Explore, Neutral, Poor, Unavailable} \subseteq Nat
  /\ 0 < Best /\ Best < Explore /\ Explore < Neutral
  /\ Neutral < Poor /\ Poor < Unavailable /\ Unavailable <= 10000
  /\ RampStep \in Nat \ {0} /\ RampMaxSteps \in Nat \ {0}
  /\ RecoveryStep \in Nat \ {0} /\ RecoverySlowStep \in Nat \ {0}
  /\ RecoverySlowStep <= RecoveryStep

Larger(a, b)  == IF a >= b THEN a ELSE b
Smaller(a, b) == IF a <= b THEN a ELSE b
Distance(a, b) == IF a <= b THEN b - a ELSE a - b

\* accounts.priority: missing values are neutral, absurd ones unavailable.
NormalizedPriority(value) ==
  IF value <= 0 THEN Neutral ELSE IF value > 10000 THEN Unavailable ELSE value

\* -1 improves, 1 degrades.
Direction(current, candidate) ==
  IF candidate < current THEN -1 ELSE IF candidate > current THEN 1 ELSE 0

\* Mutant: a step that does not look where its target is.
BlindStep(from, to, step) == IF to > from THEN from + step ELSE from - step

\* One step towards `to`, of at most `step`.
Toward(from, to, step) ==
  IF to > from THEN Smaller(to, from + step) ELSE Larger(to, from - step)

\* The step of an ordinary write: larger gaps are cut into RampMaxSteps parts.
RampSize(distance) ==
  IF distance > RampStep * RampMaxSteps
  THEN (distance + RampMaxSteps - 1) \div RampMaxSteps
  ELSE RampStep

\* An ordinary write.  Leaving unavailable re-enters at neutral or worse.
RampPriority(current, target) ==
  IF current = target \/ current <= 0 \/ target <= 0 \/ target >= Unavailable
  THEN target
  ELSE IF current >= Unavailable
       THEN Larger(target, Neutral)
       ELSE Toward(current, target, RampSize(Distance(current, target)))

\* Mutant: so does a recovery.
BlindRecoveryRamp(current, target, healthy) ==
  current - IF healthy THEN RecoveryStep ELSE RecoverySlowStep

\* A write of a recovery: towards a better target in steps of its own.
RecoveryRamp(current, target, healthy) ==
  IF target >= current
  THEN RampPriority(current, target)
  ELSE Larger(target, current - IF healthy THEN RecoveryStep ELSE RecoverySlowStep)

-----------------------------------------------------------------------------
(* rankLowerBetter and priorityForScore.  cost is a function from accounts to *)
(* costs, 0 standing for no valid cost; the score of rank r among n, that is *)
(* 100 * (n - 1 - r) / (n - 1), is kept as the fraction 2r / 2(n - 1).       *)

Priced(cost) == {a \in DOMAIN cost : cost[a] > 0}

\* Mutant: those that cost as much are in front too.
NoDearer(cost, a) == {b \in Priced(cost) : cost[b] <= cost[a]}

Cheaper(cost, a) == {b \in Priced(cost) : cost[b] < cost[a]}
Equal(cost, a)   == {b \in Priced(cost) : cost[b] = cost[a]}

\* Twice the average position of the accounts that cost what a costs.
TwiceRank(cost, a) == 2 * Cardinality(Cheaper(cost, a)) + Cardinality(Equal(cost, a)) - 1

\* math.Round of n / d, for n >= 0.
RoundDiv(n, d) == (2 * n + d) \div (2 * d)

\* priorityForScoreRange, the exploration slot being left free.
OffExplore(p) == IF p = Explore THEN p + 1 ELSE p

PriorityOf(rank2, last) ==
  OffExplore(IF last = 0 THEN Best
             ELSE IF rank2 <= last
             THEN Best + RoundDiv(rank2 * (Neutral - Best), last)
             ELSE Neutral + RoundDiv((rank2 - last) * (Poor - Neutral), last))

ScoredPriority(cost, a) ==
  PriorityOf(TwiceRank(cost, a), Cardinality(Priced(cost)) - 1)

=============================================================================
