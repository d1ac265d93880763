------------------------------ MODULE MCCostAlert ------------------------------
(* Environments for TLC: two rules that share a mail and only warn, or one     *)
(* that may turn critical (budget burn) beside a quiet one.                    *)
EXTENDS CostAlert

CONSTANTS Budget, Names

Both == [k \in Rules |-> {"normal", "warning"}]
One  == [k \in Rules |-> IF k = Budget THEN Costs ELSE {"normal"}]

MCEnvironments ==
  [n \in Names |->
     CASE n = "pair"   -> [costs |-> Both, mail |-> {"ok", "failed"}, crashes |-> 0]
       [] n = "crash"  -> [costs |-> One, mail |-> {"ok", "failed"}, crashes |-> 1]
       [] OTHER        -> [costs |-> One, mail |-> MailOutcomes, crashes |-> 0]]
=============================================================================
