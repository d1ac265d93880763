---------------------------- MODULE PriorityMetrics ----------------------------
(***************************************************************************)
(* What priority-sync reads from the tables of Sub2API (store.go): the      *)
(* metrics of an account in a time window, from the rows of usage_logs and  *)
(* ops_error_logs that were created in it.                                  *)
(*                                                                         *)
(* The present is 0 and a row was created `at` < 0.  A row of usage_logs is *)
(* a record with id, account, client and request (the ids it carries), at,  *)
(* pool (group, tier, models and endpoint), input and output (tokens),      *)
(* inCost and outCost (costs by the price list), rate (the multiplier of    *)
(* the account at the time) and actual (the cost charged).  A row of        *)
(* ops_error_logs has id, account, client, request, at and kind.            *)
(*                                                                         *)
(* A row carries one id at most: of one with two, the query of the accounts *)
(* takes the client's and the query of their pools the server's.            *)
(* Left out: cache tokens, which are input, latencies, percentiles, and     *)
(* tables of older versions, which lack columns.                            *)
(***************************************************************************)
EXTENDS Integers, FiniteSetsExt

CONSTANTS
  Pools,     \* groups and models accounts are compared in
  Pause      \* requests no further apart are continuous (2 minutes)

ASSUME MetricsAssumption == IsFiniteSet(Pools) /\ Pause \in Nat

Never == -1000     \* NULL, longer ago than any row

\* The ids of a request: a name, under the prefix "client:" or not.
Named(n, prefixed) == [name |-> <<"request", n>>, prefixed |-> prefixed]
NoId == [name |-> <<>>, prefixed |-> FALSE]
\* Mutant: the prefix is part of the name.
WholeName(id) == <<id.name, id.prefixed>>

NameOf(id) == id.name   \* in lower case, without the prefix

ErrorKinds == {"upstream", "limited", "rejected", "business"}

\* The request a row belongs to, as far as the tables tell.
RequestKey(table, row) ==
  CASE row.client # NoId -> NameOf(row.client)
    [] row.client = NoId /\ row.request # NoId -> NameOf(row.request)
    [] OTHER -> <<table, row.id>>
UsageKey(r) == RequestKey("usage", r)
ErrorKey(e) == RequestKey("error", e)

Between(rows, start) == {r \in rows : start <= r.at /\ r.at < 0}
Latest(stamps) == Max(stamps \cup {Never})

-----------------------------------------------------------------------------
(* Usage.                                                                   *)

Tokens(r) == r.input + r.output
ListCost(r) == r.inCost + r.outCost
CostOf(r) ==
  IF Tokens(r) = 0 THEN 0
  ELSE IF ListCost(r) > 0 THEN ListCost(r) * r.rate ELSE r.actual
IsPriced(r) == CostOf(r) > 0

\* usage_rows: the last row of every request of an account.
Before(s, r) == s.at < r.at \/ (s.at = r.at /\ s.id <= r.id)
LastRows(rows) ==
  {r \in rows : \A s \in rows :
                  s.account = r.account /\ UsageKey(s) = UsageKey(r) => Before(s, r)}
UsageRows(usage, start) == LastRows(Between(usage, start))

\* One record of the fields of two.
Joined(f, g) == [x \in DOMAIN f \cup DOMAIN g |-> IF x \in DOMAIN f THEN f[x] ELSE g[x]]

SumOver(f) == MapThenSumSet(LAMBDA x : f[x], DOMAIN f)
Total(Of(_), rows) == SumOver([r \in rows |-> Of(r)])

\* A pool of an account: only rows with a cost by the price list.
PoolRows(rows, p) == {r \in rows : r.pool = p /\ IsPriced(r) /\ ListCost(r) > 0}
Continuous(rows) ==
  {r \in rows : \E s \in rows \ {r} : Before(s, r) /\ r.at - s.at <= Pause}
InputOf(r) == r.input
OutputOf(r) == r.output
OutCostOf(r) == r.outCost
PoolMetrics(rows) ==
  [priced     |-> Cardinality(rows),
   continuous |-> Cardinality(Continuous(rows)),
   last       |-> Latest({r.at : r \in rows}),
   tokens     |-> Total(Tokens, rows),
   input      |-> Total(InputOf, rows),
   output     |-> Total(OutputOf, rows),
   base       |-> Total(ListCost, rows),
   baseOut    |-> Total(OutCostOf, rows)]

PoolsOf(mine) == [p \in Pools |-> PoolMetrics(PoolRows(mine, p))]

\* usage: what an account was charged.
UsageOf(mine) ==
  LET priced == {r \in mine : IsPriced(r)}
  IN [successes |-> Cardinality(mine),
      priced    |-> Cardinality(priced),
      tokens    |-> Total(Tokens, priced),
      cost      |-> Total(CostOf, mine),
      last      |-> Latest({r.at : r \in priced})]

-----------------------------------------------------------------------------
(* Errors.                                                                  *)

\* Errors of the upstream count; those of the client or the platform, refused
\* requests and limits of the business do not.
Blamed(e) == e.kind \in {"upstream", "limited"}

\* error_requests: one record for each request of an account that failed there.
ErrorRequests(errors, start) ==
  LET blamed == {e \in Between(errors, start) : Blamed(e)}
      Alike(e) == {f \in blamed : f.account = e.account /\ ErrorKey(f) = ErrorKey(e)}
  IN {[account |-> e.account, key |-> ErrorKey(e),
       at |-> Latest({f.at : f \in Alike(e)}),
       limited |-> \E f \in Alike(e) : f.kind = "limited"] : e \in blamed}

\* The request succeeded after its last error, here or on another account.
Answers(s, e) == UsageKey(s) = e.key /\ s.at >= e.at
Recovered(rows, e) == \E s \in rows : s.account = e.account /\ Answers(s, e)
TakenOver(rows, e) == \E s \in rows : s.account # e.account /\ Answers(s, e)

\* errors: a failure counts unless the account itself answered the request.
ErrorsOf(failed, final, rows, lastOk) ==
  [failures   |-> Cardinality(final),
   lastFailed |-> Latest({e.at : e \in final}),
   trailing   |-> Cardinality({e \in final : e.at > lastOk}),
   recovered  |-> Cardinality(failed \ final),
   limited    |-> Cardinality({e \in failed : e.limited}),
   takenOver  |-> Cardinality({e \in final : TakenOver(rows, e)})]

\* LoadAccountMetrics for the window that began at start.
Metrics(usage, errors, a, start) ==
  LET rows   == UsageRows(usage, start)
      mine   == {r \in rows : r.account = a}
      failed == {e \in ErrorRequests(errors, start) : e.account = a}
      final  == {e \in failed : ~Recovered(rows, e)}
  IN Joined(UsageOf(mine),
            Joined(ErrorsOf(failed, final, rows, Latest({r.at : r \in mine})),
                   [pools |-> PoolsOf(mine)]))

\* accountMetricSnapshot: continuous requests are those of the pools.
PoolContinuous(m) == SumOver([p \in Pools |-> m.pools[p].continuous])
Snapshot(m) ==
  [priced |-> m.priced, tokens |-> m.tokens, cost |-> m.cost, last |-> m.last,
   continuous |-> Min({PoolContinuous(m), m.priced})]
=============================================================================
