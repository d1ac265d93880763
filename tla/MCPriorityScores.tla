---------------------------- MODULE MCPriorityScores ----------------------------
(* Environments of PriorityScores for TLC. *)
EXTENDS PriorityScores

\* Request number n of a story, billed to account a by a row.
Row(n, a, ids, back, price, list, final) ==
  [of |-> n, account |-> a, ids |-> ids, back |-> back, pool |-> "p", input |-> 1, output |-> 1,
   inCost |-> IF list THEN price ELSE 0, outCost |-> IF list THEN 2 * price ELSE 0,
   actual |-> price, final |-> final]
Error(n, a, ids, back, kind) ==
  [of |-> n, account |-> a, ids |-> ids, back |-> back, kind |-> kind]

One(a, price, back) ==
  [requests |-> 1, rows |-> <<Row(1, a, "server", back, price, TRUE, TRUE)>>, errors |-> <<>>]
Two(a, price, back) ==
  [requests |-> 2, errors |-> <<>>,
   rows |-> <<Row(1, a, "server", back, price, TRUE, TRUE),
              Row(2, a, "client", back, price, TRUE, TRUE)>>]
Free(a) ==
  [requests |-> 1, rows |-> <<Row(1, a, "none", 1, 0, FALSE, TRUE)>>, errors |-> <<>>]
Twice(a) ==
  [requests |-> 1, errors |-> <<>>,
   rows |-> <<Row(1, a, "server", 2, 1, TRUE, FALSE), Row(1, a, "prefixed", 1, 2, FALSE, TRUE)>>]
Retried(a) ==
  [requests |-> 1, rows |-> <<Row(1, a, "prefixed", 1, 1, TRUE, TRUE)>>,
   errors |-> <<Error(1, a, "client", 2, "limited"), Error(1, a, "server", 1, "upstream")>>]
Passed(a, b) ==
  [requests |-> 1, rows |-> <<Row(1, b, "prefixed", 1, 1, TRUE, TRUE)>>,
   errors |-> <<Error(1, a, "client", 2, "upstream")>>]
Broken(a) ==
  [requests |-> 1, rows |-> <<Row(1, a, "client", 2, 1, TRUE, TRUE)>>,
   errors |-> <<Error(1, a, "client", 1, "upstream")>>]
Failed(a, kind) ==
  [requests |-> 1, rows |-> <<>>, errors |-> <<Error(1, a, "none", 1, kind)>>]

None == [start |-> [a \in Accounts |-> Neutral], rates |-> [a \in Accounts |-> 1],
         member |-> [a \in Accounts |-> Pools], stories |-> {}, late |-> {},
         logs |-> 0, busy |-> 0, faults |-> 0, limits |-> 0]

MCEnvironments ==
  [costs   |-> [None EXCEPT !.start = (1 :> 95 @@ 2 :> 1000 @@ 3 :> 10), !.logs = 3, !.busy = 3,
                            !.stories = {Two(1, 1, 1), Two(1, 2, 1), Two(2, 1, 1), Two(3, 2, 1)}],
   limits  |-> [None EXCEPT !.start = (1 :> 95 @@ 2 :> 10 @@ 3 :> 10), !.logs = 2, !.busy = 2,
                            !.stories = {Two(1, 1, 1), Two(2, 2, 1)}, !.limits = 2],
   retries |-> [None EXCEPT !.logs = 2, !.busy = 2,
                            !.stories = {Free(1), Twice(1), Retried(1), Passed(1, 2), Passed(2, 1),
                                         Broken(1), Failed(1, "upstream"), Failed(1, "rejected"),
                                         Failed(2, "business"), One(1, 1, 1)}],
   reads   |-> [None EXCEPT !.logs = 2, !.busy = 2, !.faults = 1,
                            !.stories = {Two(1, 2, 1), Two(2, 1, 1)},
                            !.late = {One(1, 1, 1), Failed(2, "upstream"), One(3, 3, 2)}],
   pools   |-> [None EXCEPT !.rates = (1 :> 1 @@ 2 :> 2 @@ 3 :> 1), !.logs = 3, !.busy = 3,
                            !.member = [a \in Accounts |-> IF a = 3 THEN {} ELSE Pools],
                            !.stories = {Two(1, 1, 1), Two(2, 2, 1), One(2, 2, 1), One(1, 3, 1)}]]

=============================================================================
