--------------------------- MODULE PriceTemplates ---------------------------
(* What the account worker of rate-sync keeps of an account (RuleState), and *)
(* how an answer of an upstream changes it, template by template.  Rates are *)
(* whole numbers of a rounded unit; a rate of 0 is no valid rate.            *)
EXTENDS Integers

Templates == {"none", "billing", "newapi", "usage", "balance"}

Rule == [id : Int, tmpl : Templates, key : Nat, has : BOOLEAN, day : Nat, cost : Nat,
         actual : Nat, epoch : Nat, cand : Int, blind : BOOLEAN]

\* A price group is one of the price table, and a baseline has a day.
OfOneTemplate(r) == (r.key # 0 => r.tmpl = "newapi") /\ (r.has <=> r.day > 0)

\* epoch and blind are kept for the properties only: how often the counters had
\* started again when the baseline was taken, and whether the candidate goes back
\* to counters that have started again since and have come as far as they were:
\* no reader of them can tell.
newRule(id) ==
  [id |-> id, tmpl |-> "none", key |-> 0, has |-> FALSE, day |-> 0, cost |-> 0, actual |-> 0,
   epoch |-> 0, cand |-> 0, blind |-> FALSE]

\* The candidate and its count, which is 1 exactly when there is one.
resetCandidate(r) == [r EXCEPT !.cand = 0, !.blind = FALSE]
observeRate(r, price) == [r EXCEPT !.cand = price, !.blind = FALSE]

resetUsage(r) ==
  resetCandidate([r EXCEPT !.has = FALSE, !.day = 0, !.cost = 0, !.actual = 0, !.epoch = 0])
resetPriceKey(r) == resetCandidate([r EXCEPT !.key = 0])
resetTemplate(r) == [resetUsage(r) EXCEPT !.tmpl = "none", !.key = 0]

\* Mutant: a template goes on with what another one found.
KeepsKey(r, t) == r

\* A template starts from a copy; what another one found is no evidence for it.
CopyFor(r, t) == IF r.tmpl = t THEN r ELSE resetPriceKey(r)

\* A rule with the outcome of a template that matched: fine, or failed.
Matched(r) == [rule |-> r, fine |-> TRUE]
MatchedBadly(r) == [rule |-> resetCandidate(r), fine |-> FALSE]

\* applySub2APIBillingTemplate: an answer with a price, which may be invalid.
Billed(r, price) == IF price > 0 THEN Matched(observeRate(r, price)) ELSE MatchedBadly(r)

\* applyNewAPITemplate with a price table: the group is that of the latest
\* billing log, each time anew.
Priced(r, table, group) ==
  IF group \notin DOMAIN table THEN MatchedBadly(resetPriceKey(r))
  ELSE IF table[group] <= 0 THEN MatchedBadly([r EXCEPT !.key = group])
       ELSE Matched(observeRate([r EXCEPT !.key = group], table[group]))

\* The log could not be read; a key that left the table is forgotten.
PricedWithoutLog(r, table) ==
  MatchedBadly(IF r.key # 0 /\ r.key \notin DOMAIN table THEN resetPriceKey(r) ELSE r)

\* applyNewAPILogRatio: the table is for the web only, the log has the ratio.
Logged(r, group, ratio) ==
  IF ratio > 0 THEN Matched(observeRate([r EXCEPT !.key = group], ratio)) ELSE MatchedBadly(r)
-----------------------------------------------------------------------------
(* Usage: the upstream tells what the key cost today, at list price and in   *)
(* fact.                                                                     *)

\* For the properties: counters that started again since a baseline of the same
\* day and have come as far as they were.
Overtaken(r, day, today) ==
  /\ r.has /\ r.day = day /\ r.epoch # today.epoch
  /\ r.cost <= today.cost /\ r.actual <= today.actual

setBaseline(r, day, today) ==
  [r EXCEPT !.has = TRUE, !.day = day, !.cost = today.cost, !.actual = today.actual,
            !.epoch = today.epoch, !.blind = @ \/ Overtaken(r, day, today)]

cumulativeUsageRate(today) ==
  IF today.cost > 0 /\ today.actual > 0 THEN today.actual \div today.cost ELSE 0

\* observeCumulativeUsage, or what is left when there is no such rate.
Cumulative(r, today, otherwise) ==
  IF cumulativeUsageRate(today) > 0 THEN observeRate(r, cumulativeUsageRate(today)) ELSE otherwise

\* Mutant: counters that went down are not noticed.
NeverRegresses(r, today) == FALSE

usageCounterRegressed(r, today) == today.cost < r.cost \/ today.actual < r.actual

StartsOver(r, day, today) == ~r.has \/ r.day # day \/ usageCounterRegressed(r, today)

observeUsage(r, day, today) ==
  LET cost == today.cost - r.cost
      actual == today.actual - r.actual
      kept == setBaseline(r, day, today)
      fresh == resetCandidate(kept)
  IN IF StartsOver(r, day, today) THEN Cumulative(fresh, today, fresh)
     ELSE IF cost <= 0 THEN Cumulative(kept, today, kept)
     ELSE IF actual <= 0 THEN Cumulative(kept, today, fresh)
     ELSE IF actual \div cost <= 0 THEN fresh
     ELSE [observeRate(kept, actual \div cost) EXCEPT !.blind = Overtaken(r, day, today)]

\* tryUsageAccountTemplate: a template that was another one starts afresh.
Used(r, day, today) ==
  [observeUsage(CopyFor(r, "usage"), day, today) EXCEPT !.tmpl = "usage", !.key = 0]

\* An answer with invalid numbers.
UsedBadly(r) == resetUsage(CopyFor(r, "usage"))
-----------------------------------------------------------------------------
(* The direct templates did not give a price in this cycle.                  *)

NoRule == [newRule(0) EXCEPT !.id = -1]

\* An old direct candidate does not outlive a cycle in which the templates
\* failed; the baseline and the candidate of usage do.
DirectFailed(r, failed) ==
  IF r.tmpl = "usage" THEN r
  ELSE resetCandidate(IF failed = NoRule THEN r ELSE failed)
=============================================================================
