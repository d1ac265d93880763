---------------------------- MODULE MCAccountRates ----------------------------
(* Environments for TLC: one account and its templates, several accounts and  *)
(* slots, a balance that two accounts share.                                  *)
EXTENDS AccountRates

CONSTANT Names   \* of the environments of a run

NoBudget ==
  [requests |-> 0, gap |-> 0, others |-> 0, recharges |-> 0, prices |-> 0, offers |-> 0,
   days |-> 0, midnights |-> 0, proxies |-> 0, keys |-> 0,
   faults |-> 0, crashes |-> 0, stops |-> 0]

One == CHOOSE a \in Accounts : \A b \in Accounts : a <= b

\* The state file of an older version, after some days of work.
OldState(v) ==
  [newState EXCEPT !.version = v,
     !.rules[One] = [newRule(1) EXCEPT !.tmpl = "newapi", !.key = 1, !.cand = 12]]

Plain ==
  [channels |-> <<One>>, manual |-> {}, full |-> {}, broken |-> {}, shared |-> {}, proxy |-> [a \in Accounts |-> 0],
   global |-> 0, fallback |-> <<>>, proxies |-> {}, prices |-> {6}, group |-> 1,
   initial |-> {"billing"}, offers |-> {{}}, balance |-> 0, disks |-> {newState},
   budget |-> NoBudget]

\* Two accounts, one of them bound to two groups, and their balance.
Pair ==
  [Plain EXCEPT !.channels = <<1, 2, 1>>, !.shared = {1, 2}, !.initial = {"balance"},
                !.balance = 50]

MCByName ==
  [n \in Names |->
   CASE n = "templates" ->
     [Plain EXCEPT !.initial = {"table"},
        !.offers = {{"billing"}, {"refused"}, {"table", "usage"}},
        !.disks = {newState, OldState(2)},
        !.budget = [NoBudget EXCEPT !.requests = 1, !.prices = 1, !.offers = 2, !.faults = 1]]
   [] n = "usage" ->
     [Plain EXCEPT !.initial = {"usage"}, !.prices = {0, 12},
        !.budget = [NoBudget EXCEPT !.requests = 3, !.prices = 1, !.days = 1, !.keys = 1]]
   [] n = "midnight" ->
     [Plain EXCEPT !.initial = {"usage"}, !.prices = {6},
        !.budget = [NoBudget EXCEPT !.requests = 3, !.midnights = 1, !.prices = 1,
                                    !.faults = 1, !.crashes = 1]]
   [] n = "slots" ->
     [Plain EXCEPT !.channels = <<1, 2, 1, 3>>,
        !.budget = [NoBudget EXCEPT !.faults = 1, !.stops = 1]]
   [] n = "proxies" ->
     [Plain EXCEPT !.channels = <<1, 2, 3>>, !.manual = {2}, !.full = {1}, !.broken = {3},
        !.proxy = [a \in Accounts |-> 1], !.global = 2, !.fallback = <<3>>, !.proxies = {1, 2},
        !.budget = [NoBudget EXCEPT !.prices = 1, !.proxies = 2, !.stops = 1]]
   [] n = "shared" ->
     [Pair EXCEPT !.budget = [NoBudget EXCEPT !.requests = 2, !.others = 1, !.faults = 1]]
   [] n = "recharge" ->
     [Pair EXCEPT !.disks = {OldState(5)},
        !.budget = [NoBudget EXCEPT !.requests = 1, !.recharges = 1, !.offers = 2, !.crashes = 1]]
   [] n = "gap" ->
     [Pair EXCEPT !.budget = [NoBudget EXCEPT !.requests = 1, !.gap = 1, !.midnights = 1]]
   [] n = "mixed" ->
     [Pair EXCEPT !.budget = [NoBudget EXCEPT !.gap = 1, !.others = 1]]]

MCEnvs == {MCByName[n] : n \in Names}
=============================================================================
