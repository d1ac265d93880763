---------------------------- MODULE SharedBalance ----------------------------
(* The reconciliation of an upstream whose keys share one balance with the   *)
(* requests the gateway logged (imagecreater.go): what is kept of the host,  *)
(* and what a window between two looks proves.                               *)
EXTENDS Integers, Sequences, FiniteSets

NoHost == [init |-> FALSE, id |-> <<>>, day |-> 0, bal |-> 0, cost |-> 0, reqs |-> 0, mark |-> 0]

setImageCreaterBaseline(id, now, mark, day) ==
  [init |-> TRUE, id |-> id, day |-> day,
   bal |-> now.bal, cost |-> now.cost, reqs |-> now.reqs, mark |-> mark]

imageCreaterCountersRegressed(host, now) == now.cost < host.cost \/ now.reqs < host.reqs

\* The first look, other credentials, another day, counters or a watermark
\* that went back: nothing is compared.
Rebased(host, id, now, mark, day) ==
  \/ ~host.init \/ host.id # id
  \/ host.day # day \/ mark < host.mark \/ imageCreaterCountersRegressed(host, now)

\* The requests of the window that were logged, by id, and whose they are.
Local(rows, host, mark, shared) == {k \in (host.mark + 1)..mark : rows[k] \in shared}
Payers(rows, local) == {rows[k] : k \in local}

\* A window is quiet, or proves the price of one account, or nothing.
Quiet(host, now, local) ==
  /\ host.bal - now.bal = now.cost - host.cost
  /\ now.reqs = host.reqs /\ local = {} /\ now.cost = host.cost

Proves(rows, host, now, local) ==
  /\ host.bal - now.bal = now.cost - host.cost
  /\ now.reqs - host.reqs = Cardinality(local)
  /\ now.cost > host.cost
  /\ Cardinality(Payers(rows, local)) = 1

\* Every request costs 1 at list price.
ProvenRate(host, now, local) == (now.cost - host.cost) \div Cardinality(local)
=============================================================================
