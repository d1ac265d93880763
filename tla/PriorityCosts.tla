----------------------------- MODULE PriorityCosts -----------------------------
(***************************************************************************)
(* What priority-sync makes of the metrics of its accounts (scoring.go,     *)
(* cost_estimate.go, store.go): the measured cost of an account, an         *)
(* estimate for an account with little evidence, and the recommended        *)
(* priority.                                                                *)
(*                                                                         *)
(* Costs are per Unit tokens and weights are percentages, both rounded      *)
(* down, but no measured cost to nothing.  Left out: the fields of a        *)
(* recommendation that are only reported, and everything in scoring.go that *)
(* scoreAccounts does not reach (pool aggregates, risk costs, components,   *)
(* dominance).                                                              *)
(***************************************************************************)
EXTENDS PriorityScale, PriorityMetrics, SequencesExt

CONSTANTS
  FastRequests, FastTokens,          \* fastWindowMinPriced*
  MainRequests, MainTokens,          \* mainWindowMinPriced*
  FullRequests, FullTokens,          \* evidence of full weight: 40, 2 million
  FullContinuous, SteadyRequests,    \* 20 continuous requests, or 100 in all
  HalfLife,                          \* of history: a day
  TrafficWindow,                     \* 7 days
  Unit                               \* of tokens (a million)

ASSUME CostsAssumption ==
  /\ {FastRequests, FastTokens, MainRequests, MainTokens, FullRequests, FullTokens,
      FullContinuous, SteadyRequests, HalfLife, TrafficWindow, Unit} \subseteq Nat \ {0}
  /\ 4 * MainRequests <= 3 * FullRequests /\ 4 * MainTokens <= 3 * FullTokens

Mature == 75   \* weight of evidence that needs no estimate
Solid == 50    \* weight of a peer

\* [a \in S |-> Of(a)], which TLC computes once, to compare it.
Table(S, Of(_)) == CHOOSE table \in {[a \in S |-> Of(a)]} : table = table

Percent(n, full) == Smaller(100, (100 * n) \div full)
Per(cost, tokens) == (cost * Unit) \div tokens

\* costEvidenceWeight.
Weight(s) ==
  IF s.priced = 0 \/ s.tokens = 0 THEN 0
  ELSE LET steady == Larger(Percent(s.continuous, FullContinuous), Percent(s.priced, SteadyRequests))
       IN Min({Percent(s.priced, FullRequests), Percent(s.tokens, FullTokens),
               35 + (65 * steady) \div 100})

-----------------------------------------------------------------------------
(* A cycle's view of an account: the windows of the four queries, of which   *)
(* a failed one says nothing.  day is the primary query: only pools that it *)
(* knows have a fast or main window.                                        *)

NoPool == PoolMetrics({})

\* attachWindowSnapshots.
Attached(m, day, p) == IF day.pools[p].priced > 0 THEN m.pools[p] ELSE NoPool
View(day, fast, main, week) ==
  [fast |-> Snapshot(fast), main |-> Snapshot(main),
   pools |-> [p \in Pools |-> [fast |-> Attached(fast, day, p), main |-> Attached(main, day, p),
                               day |-> day.pools[p], week |-> week.pools[p]]]]

-----------------------------------------------------------------------------
(* Measured costs.                                                          *)

NoEvidence == [valid |-> FALSE, cost |-> 0, weight |-> 0]
Measured(s) ==
  IF s.tokens > 0 /\ s.cost > 0
  THEN [valid |-> TRUE, cost |-> Larger(1, Per(s.cost, s.tokens)), weight |-> Weight(s)]
  ELSE NoEvidence
Meets(s, requests, tokens) == s.priced >= requests /\ s.tokens >= tokens
FastCost(v) == IF Meets(v.fast, FastRequests, FastTokens) THEN Measured(v.fast) ELSE NoEvidence
MainCost(v) == IF Meets(v.main, MainRequests, MainTokens) THEN Measured(v.main) ELSE NoEvidence

\* directAccountCost, and in scoreAccounts: a qualified but short sample of the
\* fast window does not hide mature costs of the main one.
FirstCost(v) == IF FastCost(v).valid THEN FastCost(v) ELSE MainCost(v)
DirectCost(v) ==
  IF FirstCost(v).weight < Mature /\ Measured(v.main).weight >= Mature
  THEN Measured(v.main) ELSE FirstCost(v)

-----------------------------------------------------------------------------
(* Estimates: what the peers of a pool pay, by the price list, for the same *)
(* mix of input and output.                                                 *)

Usable(s) == s.tokens > 0 /\ s.base > 0 /\ s.baseOut <= s.base

\* baseCostForMix, input of every total tokens being input; 0 is none.
MixedCost(s, input, total) ==
  IF ~Usable(s) \/ (input > 0 /\ s.input = 0) \/ (input < total /\ s.output = 0) THEN 0
  ELSE ((IF input > 0 THEN input * Per(s.base - s.baseOut, s.input) ELSE 0)
        + (IF input < total THEN (total - input) * Per(s.baseOut, s.output) ELSE 0)) \div total

\* recentPoolSnapshot.
PrefersFast(w) == Usable(w.fast) /\ (~Usable(w.main) \/ Weight(w.fast) > Weight(w.main))
Recent(w) == IF PrefersFast(w) THEN w.fast ELSE IF Usable(w.main) THEN w.main ELSE NoPool
Qualified(w) ==
  /\ Usable(Recent(w))
  /\ IF PrefersFast(w) THEN Meets(w.fast, FastRequests, FastTokens)
     ELSE Meets(w.main, MainRequests, MainTokens)

\* eligibleCostPool: a member of the group of the pool that has served it.
Served(w) == \E s \in {w.fast, w.main, w.day, w.week} : s.priced > 0
Eligible(views, member, a, p) == p \in member[a] /\ Served(views[a].pools[p])

\* historicalPoolCost: the day, else the week, if it is worth something.
Decayed(weight, age) ==
  LET halved[n \in 0..(age \div HalfLife)] == IF n = 0 THEN weight ELSE halved[n - 1] \div 2
  IN halved[age \div HalfLife]
Worth(s, input, total) ==
  /\ Weight(s) >= Solid /\ -s.last <= TrafficWindow
  /\ MixedCost(s, input, total) > 0
Memory(s, limit, input, total) ==
  [cost |-> MixedCost(s, input, total), weight |-> Decayed(Smaller(Weight(s), limit), -s.last)]
History(w, input, total) ==
  IF Worth(w.day, input, total) THEN Memory(w.day, 85, input, total)
  ELSE IF Worth(w.week, input, total) THEN Memory(w.week, 50, input, total)
  ELSE [cost |-> 0, weight |-> 0]

\* percentile(values, 0.5): the middle of the values in their order, the mean of
\* two if there are two.
AtPlace(of, k) ==
  CHOOSE v \in Range(of) :
    /\ Cardinality({a \in DOMAIN of : of[a] < v}) < k
    /\ k <= Cardinality({a \in DOMAIN of : of[a] <= v})
Median(of) ==
  LET n == Cardinality(DOMAIN of)
  IN (AtPlace(of, (n + 1) \div 2) + AtPlace(of, n \div 2 + 1)) \div 2

\* Peers of a pool: those with enough recent evidence, if there are solid ones
\* only these.
Fit(views, p) == {a \in DOMAIN views : Qualified(views[a].pools[p])}
Peers(fit, recent) ==
  IF \E a \in fit : Weight(recent[a]) >= Solid
  THEN {a \in fit : Weight(recent[a]) >= Solid} ELSE fit

\* Mutant: recent evidence takes nothing from the weight of history.
OnTop(weight, recent) == weight

\* The weight history keeps beside recent evidence.
Beside(weight, recent) == (weight * (100 - recent)) \div 100

\* One participant, whose evidence of weight seen says mixed (0 is nothing),
\* beside what its history says of old and the peers of reference.
Blend(rate, reference, mixed, seen, old, kept, best) ==
  [cost |-> (rate * ((100 - seen - kept) * reference + seen * mixed + kept * old.cost)) \div 100,
   weight |-> seen,
   again |-> kept >= 15 /\ best > 0 /\ 100 * old.cost * rate < 95 * best]
Estimate(rate, reference, mixed, seen, old, best) ==
  Blend(rate, reference, mixed, seen, old, Beside(old.weight, seen), best)

\* The lowest cost of those with solid evidence, 0 if there is none.
BestRecent(recent, mixed, rates) ==
  LET known == {a \in DOMAIN recent : mixed[a] > 0 /\ Weight(recent[a]) >= Solid}
  IN IF known = {} THEN 0 ELSE Min({mixed[a] * rates[a] : a \in known})

\* The participants whose cost can be estimated, by what the peers pay.
Reference(mixed, priced) == Median([a \in priced |-> mixed[a]])
Compared(views, rates, p, recent, mixed, priced, input, total, reference, best) ==
  IF priced = {} THEN <<>>
  ELSE Table(DOMAIN views,
             LAMBDA a : Joined([traffic |-> total],
                               Estimate(rates[a], reference, mixed[a],
                                        IF mixed[a] > 0 THEN Weight(recent[a]) ELSE 0,
                                        History(views[a].pools[p], input, total), best)))
AtMix(views, rates, p, recent, peers, mixed, input, total) ==
  Compared(views, rates, p, recent, mixed, {a \in peers : mixed[a] > 0}, input, total,
           Reference(mixed, {a \in peers : mixed[a] > 0}), BestRecent(recent, mixed, rates))
AtShare(views, rates, p, recent, peers, input, total) ==
  AtMix(views, rates, p, recent, peers,
        Table(DOMAIN views, LAMBDA a : MixedCost(recent[a], input, total)), input, total)
AmongPeers(views, rates, p, recent, peers) ==
  IF Cardinality(DOMAIN views) < 2 \/ peers = {} THEN <<>>
  ELSE AtShare(views, rates, p, recent, peers,
               SumOver([a \in peers |-> recent[a].input]),
               SumOver([a \in peers |-> recent[a].tokens]))

\* One pool: views of its participants, the multipliers of their accounts.
InPool(views, rates, p, recent) == AmongPeers(views, rates, p, recent, Peers(Fit(views, p), recent))
PoolEstimates(views, rates, p) ==
  InPool(views, rates, p, Table(DOMAIN views, LAMBDA a : Recent(views[a].pools[p])))

NoEstimate == [valid |-> FALSE, cost |-> 0, weight |-> 0, again |-> FALSE]

\* The mean of an account over its pools, by their traffic.
Mean(Of(_), traffic(_), pools) ==
  SumOver([p \in pools |-> traffic(p) * Of(p)]) \div SumOver([p \in pools |-> traffic(p)])
OverPools(of, a, pools) ==
  IF pools = {} THEN NoEstimate
  ELSE [valid  |-> TRUE,
        cost   |-> Mean(LAMBDA p : of[p][a].cost, LAMBDA p : of[p][a].traffic, pools),
        weight |-> Mean(LAMBDA p : of[p][a].weight, LAMBDA p : of[p][a].traffic, pools),
        again  |-> \E p \in pools : of[p][a].again]
Averaged(of, accounts) ==
  Table(accounts, LAMBDA a : OverPools(of, a, {p \in Pools : a \in DOMAIN of[p] /\ of[p][a].cost > 0}))

\* estimateAccountCosts: of the accounts that can be scheduled, in the pools of
\* the groups they are members of.
Participants(views, member, out, p) ==
  [a \in {b \in DOMAIN views \ out : Eligible(views, member, b, p)} |-> views[a]]
Estimates(views, rates, member, out) ==
  Averaged(Table(Pools, LAMBDA p : PoolEstimates(Participants(views, member, out, p), rates, p)),
           DOMAIN views)

-----------------------------------------------------------------------------
(* scoreAccounts: what is recommended for every account, and on what        *)
(* grounds.  anchor is the goal of a recovery, 0 if there is none.          *)

Guessed(direct, estimate, out) ==
  {a \in DOMAIN direct \ out :
     estimate[a].valid /\ (~direct[a].valid \/ direct[a].weight < Mature)}

\* Cheap history lifts an account although its estimate would not.
Lifted(e, score, current) ==
  e.again /\ e.weight < Mature /\ score >= current /\ current > Best
Goal(e, score, current) ==
  IF Lifted(e, score, current) THEN Larger(Best, current - RampStep) ELSE score

Advice(kind, cost, want, anchor) == [kind |-> kind, cost |-> cost, want |-> want, anchor |-> anchor]
Advise(a, valid, e, cost, score, current, guessed, out) ==
  IF a \in out THEN Advice("excluded", 0, Unavailable, 0)
  ELSE IF a \in guessed THEN Advice("estimated", cost, current, Goal(e, score, current))
  ELSE IF valid THEN Advice("measured", cost, score, score)
  ELSE Advice("unknown", 0, current, 0)

Ranked(direct, estimate, cost, current, guessed, out) ==
  Table(DOMAIN direct,
        LAMBDA a : Advise(a, direct[a].valid, estimate[a], cost[a], ScoredPriority(cost, a),
                          current[a], guessed, out))
Costed(direct, estimate, guessed, out) ==
  Table(DOMAIN direct, LAMBDA a : IF a \in out THEN 0
                                  ELSE IF a \in guessed THEN estimate[a].cost
                                  ELSE direct[a].cost)
Advised(direct, estimate, current, guessed, out) ==
  Ranked(direct, estimate, Costed(direct, estimate, guessed, out), current, guessed, out)
Scoring(direct, estimate, current, out) ==
  Advised(direct, estimate, current, Guessed(direct, estimate, out), out)
Recommendations(views, current, rates, member, out) ==
  Scoring(Table(DOMAIN views, LAMBDA a : DirectCost(views[a])),
          Estimates(views, rates, member, out), current, out)
=============================================================================
