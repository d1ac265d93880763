----------------------------- MODULE PriorityScores -----------------------------
(***************************************************************************)
(* From the logs of Sub2API to accounts.priority (store.go, scoring.go,     *)
(* runner.go): the gateway logs requests; every cycle reads four windows of *)
(* the logs by four queries, scores all accounts and moves each towards its *)
(* score.  Implements PriorityWalk.                                         *)
(*                                                                         *)
(* The present is 0; what is logged between two cycles was created at -1,   *)
(* or before if it is logged late, and gets older by 1 with every cycle.    *)
(***************************************************************************)
EXTENDS PriorityWalk, PriorityCosts

CONSTANTS
  FastWindow, MainWindow, ReportWindow,   \* 30 minutes, 2 hours, 24 hours
  Environments                            \* what a behaviour may meet, by name

\* A story is what the logs of one or more requests say in the end.  rows and
\* errors are what is logged, in order: `of` tells the request, ids how the row
\* names it (by the client's id, the server's, or none), back how long ago it
\* was created, and final the row that bills the request to its account: the
\* last one.  A request with a row that names it not has no other row.
Forms == {"client", "prefixed", "server", "none"}
IsList(s) == Len(s) \in Nat /\ DOMAIN s = 1..Len(s)
LastOf(rows, i) ==
  \A j \in DOMAIN rows :
    rows[j].of = rows[i].of /\ rows[j].account = rows[i].account =>
      rows[j].back > rows[i].back \/ (rows[j].back = rows[i].back /\ j <= i)
Alone(list, i, other) ==
  /\ \A j \in DOMAIN list : list[j].of = list[i].of => j = i
  /\ \A j \in DOMAIN other : other[j].of # list[i].of
Story(s) ==
  /\ DOMAIN s = {"requests", "rows", "errors"}
  /\ s.requests \in Nat \ {0} /\ IsList(s.rows) /\ IsList(s.errors)
  /\ \A i \in DOMAIN s.rows :
       /\ s.rows[i].of \in 1..s.requests /\ s.rows[i].ids \in Forms
       /\ s.rows[i].back \in 1..TrafficWindow /\ s.rows[i].pool \in Pools
       /\ s.rows[i].account \in Accounts
       /\ {s.rows[i].input, s.rows[i].output} \subseteq Nat
       /\ {s.rows[i].inCost, s.rows[i].outCost, s.rows[i].actual} \subseteq Nat
       /\ s.rows[i].final \in BOOLEAN /\ (s.rows[i].final <=> LastOf(s.rows, i))
       /\ s.rows[i].ids = "none" => Alone(s.rows, i, s.errors)
  /\ \A i \in DOMAIN s.errors :
       /\ s.errors[i].of \in 1..s.requests /\ s.errors[i].ids \in Forms
       /\ s.errors[i].back \in 1..TrafficWindow /\ s.errors[i].kind \in ErrorKinds
       /\ s.errors[i].account \in Accounts
       /\ s.errors[i].ids = "none" => Alone(s.errors, i, s.rows)

\* priorities to begin with, accounts.rate_multiplier, the pools of an account's
\* groups, what an interval and the reading of a cycle may log; bounds on
\* stories in all and in an interval, failed queries, and changes of limits.
Environment(e) ==
  /\ DOMAIN e = {"start", "rates", "member", "stories", "late", "logs", "busy", "faults", "limits"}
  /\ e.start \in [Accounts -> 1..Unavailable]
  /\ e.rates \in [Accounts -> Nat \ {0}]
  /\ e.member \in [Accounts -> SUBSET Pools]
  /\ IsFiniteSet(e.stories) /\ \A s \in e.stories \cup e.late : Story(s)
  /\ {e.logs, e.busy, e.faults, e.limits} \subseteq Nat

ASSUME ScoresAssumption ==
  /\ {FastWindow, MainWindow, ReportWindow} \subseteq Nat
  /\ 0 < FastWindow /\ FastWindow <= MainWindow /\ MainWindow <= ReportWindow
  /\ ReportWindow <= TrafficWindow /\ -TrafficWindow > Never
  /\ \A n \in DOMAIN Environments : Environment(Environments[n])

VARIABLES
  env,      \* the name of the environment
  usage,    \* usage_logs; req and final tell the truth about a row
  errors,   \* ops_error_logs
  limited,  \* accounts that cannot be scheduled for now
  seen,     \* what the queries of this cycle have read, in order
  phase,    \* "reading", "writing" or "failed"
  rec,      \* the recommendations of this cycle
  todo,     \* accounts this cycle has not written yet
  grounds,  \* history: accounts that had enough evidence when they were scored
  count     \* requests and stories logged, queries failed, limits changed

logs == <<usage, errors>>
vars == <<env, prio, hard, want, usage, errors, limited, seen, phase, rec, todo, grounds, count>>

E == Environments[env]

\* Mutant: history is read as the main window.
Swapped == <<ReportWindow, FastWindow, TrafficWindow, MainWindow>>

\* The queries of LoadAccountMetricsWindows, the first being the primary one.
Windows == <<ReportWindow, FastWindow, MainWindow, TrafficWindow>>
NoMetrics == [a \in Accounts |-> Metrics({}, {}, a, 0)]
ReadNow(w) == [a \in Accounts |-> Metrics(usage, errors, a, -w)]

-----------------------------------------------------------------------------
(* The gateway.                                                             *)

Ids(form, n) ==
  [client  |-> IF form = "client" THEN Named(n, FALSE)
               ELSE IF form = "prefixed" THEN Named(n, TRUE) ELSE NoId,
   request |-> IF form = "server" THEN Named(n, FALSE) ELSE NoId]
UsageRow(t, n, id) ==
  [id |-> id, req |-> n, account |-> t.account, at |-> -t.back, pool |-> t.pool,
   input |-> t.input, output |-> t.output, inCost |-> t.inCost, outCost |-> t.outCost,
   rate |-> E.rates[t.account], actual |-> t.actual, final |-> t.final,
   client |-> Ids(t.ids, n).client, request |-> Ids(t.ids, n).request]
ErrorRow(t, n, id) ==
  [id |-> id, req |-> n, account |-> t.account, at |-> -t.back, kind |-> t.kind,
   client |-> Ids(t.ids, n).client, request |-> Ids(t.ids, n).request]

\* The logs after a story, given those before and the last request and row.
Told(before, s) ==
  [usage  |-> before.usage \cup {UsageRow(s.rows[i], before.req + s.rows[i].of, before.id + i)
                                   : i \in DOMAIN s.rows},
   errors |-> before.errors \cup {ErrorRow(s.errors[i], before.req + s.errors[i].of, before.id + i)
                                    : i \in DOMAIN s.errors},
   req |-> before.req + s.requests,
   id |-> before.id + Len(s.rows) + Len(s.errors)]

Log(stories, old) ==
  LET after == FoldLeft(Told, [usage |-> old.usage, errors |-> old.errors,
                               req |-> count.req, id |-> count.id], SetToSeq(stories))
  IN /\ count.stories + Cardinality(stories) <= E.logs
     /\ usage' = after.usage /\ errors' = after.errors
     /\ count' = [count EXCEPT !.req = after.req, !.id = after.id,
                               !.stories = @ + Cardinality(stories)]

NothingYet == [a \in Accounts |-> [kind |-> "unknown", cost |-> 0, want |-> prio[a], anchor |-> 0]]

\* An interval between two cycles.  Rows that are too old to be read are left out.
Older(rows) == {[r EXCEPT !.at = @ - 1] : r \in {x \in rows : x.at > -TrafficWindow}}
Tick ==
  /\ phase \in {"writing", "failed"} /\ todo = {}
  /\ \E stories \in {S \in SUBSET E.stories : Cardinality(S) <= E.busy} :
       Log(stories, [usage |-> Older(usage), errors |-> Older(errors)])
  /\ phase' = "reading" /\ seen' = <<>>
  /\ rec' = NothingYet /\ want' = prio /\ hard' = {} /\ grounds' = {}
  /\ UNCHANGED <<env, prio, limited, todo>>

\* Rows that were created before the cycle may become visible while it reads.
LogLate ==
  /\ phase = "reading" /\ seen # <<>>
  /\ \E s \in E.late : Log({s}, [usage |-> usage, errors |-> errors])
  /\ UNCHANGED <<env, walk, limited, seen, phase, rec, todo, grounds>>

\* An account is limited, overloaded or inactive, or usable again.
Limit(a) ==
  /\ phase = "reading" /\ seen = <<>> /\ count.limits < E.limits
  /\ limited' = (limited \ {a}) \cup ({a} \ limited)
  /\ count' = [count EXCEPT !.limits = @ + 1]
  /\ UNCHANGED <<env, walk, usage, errors, seen, phase, rec, todo, grounds>>

-----------------------------------------------------------------------------
(* The cycle.                                                               *)

\* The primary query also reads the rows of the accounts.
Query ==
  /\ phase = "reading" /\ Len(seen) < Len(Windows)
  /\ seen' = Append(seen, [metrics |-> ReadNow(Windows[Len(seen) + 1]), out |-> limited])
  /\ UNCHANGED <<env, walk, logs, limited, phase, rec, todo, grounds, count>>

Fault ==
  /\ count.faults < E.faults
  /\ count' = [count EXCEPT !.faults = @ + 1]

\* Without the primary query there is no cycle, without another no such window.
QueryFails ==
  /\ phase = "reading" /\ Len(seen) < Len(Windows) /\ Fault
  /\ IF seen = <<>> THEN phase' = "failed" /\ UNCHANGED seen
     ELSE /\ seen' = Append(seen, [metrics |-> NoMetrics, out |-> limited])
          /\ UNCHANGED phase
  /\ UNCHANGED <<env, walk, logs, limited, rec, todo, grounds>>

Views ==
  Table(Accounts, LAMBDA a : View(seen[1].metrics[a], seen[2].metrics[a],
                                  seen[3].metrics[a], seen[4].metrics[a]))

\* The requests that were billed to an account in the last w, once each.
Billed(a, w) == {r \in Between(usage, -w) : r.account = a /\ r.final /\ IsPriced(r)}
Enough(a, w, requests, tokens) ==
  Cardinality(Billed(a, w)) >= requests /\ Total(Tokens, Billed(a, w)) >= tokens
Grounded ==
  {a \in Accounts : \/ Enough(a, FastWindow, FastRequests, FastTokens)
                    \/ Enough(a, MainWindow, MainRequests, MainTokens)}

Current == [a \in Accounts |-> NormalizedPriority(prio[a])]
Score ==
  /\ phase = "reading" /\ Len(seen) = Len(Windows)
  /\ rec' = Recommendations(Views, Current, E.rates, E.member, seen[1].out)
  /\ want' = [a \in Accounts |-> rec'[a].want]
  /\ hard' = seen[1].out
  /\ grounds' = Grounded
  /\ phase' = "writing" /\ seen' = <<>>
  /\ todo' = {a \in Accounts : want'[a] # prio[a]}
  /\ UNCHANGED <<env, prio, logs, limited, count>>

\* Mutant: a write goes straight to the score.
AdjustAtOnce(a) ==
  /\ a \in todo /\ \A b \in todo : a <= b
  /\ prio' = [prio EXCEPT ![a] = want[a]] \/ UNCHANGED prio
  /\ todo' = todo \ {a}
  /\ UNCHANGED <<env, hard, want, logs, limited, seen, phase, rec, grounds, count>>

\* One write at most for every account, in a fixed order.  Confirmations,
\* cool-down and failures may keep it back (PriorityCycle).
Adjust(a) ==
  /\ a \in todo /\ \A b \in todo : a <= b
  /\ Write(a) \/ UNCHANGED walk
  /\ todo' = todo \ {a}
  /\ UNCHANGED <<env, logs, limited, seen, phase, rec, grounds, count>>

Init ==
  /\ env \in DOMAIN Environments
  /\ prio = E.start /\ want = E.start
  /\ hard = {} /\ usage = {} /\ errors = {} /\ limited = {} /\ seen = <<>>
  /\ phase = "failed"
  /\ rec = NothingYet /\ todo = {} /\ grounds = {}
  /\ count = [req |-> 0, id |-> 0, stories |-> 0, faults |-> 0, limits |-> 0]

Next ==
  \/ Tick \/ LogLate \/ Query \/ QueryFails \/ Score
  \/ \E a \in Accounts : Limit(a) \/ Adjust(a)

Spec == Init /\ [][Next]_vars

-----------------------------------------------------------------------------
(* Properties.                                                              *)

TypeOK ==
  /\ WalkTypeOK
  /\ env \in DOMAIN Environments
  /\ \A r \in usage \cup errors : r.account \in Accounts /\ r.at \in -TrafficWindow..-1
  /\ limited \subseteq Accounts /\ grounds \subseteq Accounts /\ todo \subseteq Accounts
  /\ Len(seen) \in 0..Len(Windows)
  /\ phase \in {"reading", "writing", "failed"}
  /\ \A a \in Accounts :
       /\ rec[a].kind \in {"excluded", "measured", "estimated", "unknown"}
       /\ rec[a].cost \in Nat /\ rec[a].anchor \in 0..Unavailable

\* The requests that failed on an account for good: they did not succeed there
\* after their last failure.
FailedRequests(a, w) == {e.req : e \in {x \in Between(errors, -w) : x.account = a /\ Blamed(x)}}
LastFailure(a, w, q) ==
  Latest({e.at : e \in {x \in Between(errors, -w) : x.account = a /\ Blamed(x) /\ x.req = q}})
SucceededOn(a, w, q) == \E r \in Between(usage, -w) : r.account = a /\ r.req = q /\ r.at >= LastFailure(a, w, q)
LostRequests(a, w) == {q \in FailedRequests(a, w) : ~SucceededOn(a, w, q)}
LastAnswer(a, w) == Latest({r.at : r \in {x \in Between(usage, -w) : x.account = a}})
SavedElsewhere(a, w) ==
  {q \in LostRequests(a, w) : \E b \in Accounts \ {a} : \E r \in Between(usage, -w) :
                                 r.account = b /\ r.req = q /\ r.at >= LastFailure(a, w, q)}

\* Every request is billed once and fails at most once, however often it was
\* tried and logged, under whichever id, and in whatever order: what a query
\* says of an account is true of its requests (README of priority-sync, "deduplicated
\* by request id"; comment of priorityMetricsQuery).
MetricsAreTrue ==
  phase = "reading" /\ Len(seen) < Len(Windows) =>
    LET w == Windows[Len(seen) + 1]
        now == ReadNow(w)
    IN \A a \in Accounts :
         /\ now[a].priced = Cardinality(Billed(a, w))
         /\ now[a].tokens = Total(Tokens, Billed(a, w))
         /\ now[a].cost = Total(CostOf, Billed(a, w))
         /\ now[a].failures = Cardinality(LostRequests(a, w))
         /\ now[a].recovered = Cardinality(FailedRequests(a, w)) - now[a].failures
         /\ now[a].takenOver = Cardinality(SavedElsewhere(a, w))
         /\ now[a].trailing = Cardinality({q \in LostRequests(a, w) :
                                             LastFailure(a, w, q) > LastAnswer(a, w)})

\* A priority only moves on requests of the last 30 minutes or 2 hours that were
\* billed and are enough, or because the account cannot be used: neither history
\* nor an estimate, nor a query that failed, moves one (README: "accounts without
\* valid cost evidence keep their priority").
MovesAreMeasured ==
  [][\A a \in Accounts : prio'[a] # prio[a] => a \in hard \cup grounds]_vars

\* Measured costs are ranked strictly in their order, whatever is estimated of
\* others, and mature costs of the main window are measured costs, unless a
\* query failed: no estimate and no short sample stands before them.
TrulyMature(a) ==
  LET billed == Billed(a, MainWindow)
      of(p) == {r \in billed : r.pool = p /\ ListCost(r) > 0}
  IN Weight([priced |-> Cardinality(billed), tokens |-> Total(Tokens, billed),
             continuous |-> SumOver([p \in Pools |-> Cardinality(Continuous(of(p)))])])
     >= Mature
Usual(a) == rec[a].kind = "measured"
ScoresFollowCosts ==
  phase = "writing" =>
    /\ \A a, b \in Accounts :
         Usual(a) /\ Usual(b) =>
           /\ want[a] \in (Best..Poor) \ {Explore}
           /\ want[a] < want[b] <=> rec[a].cost < rec[b].cost
    /\ \A a \in Accounts \ hard :
         TrulyMature(a) /\ count.faults = 0 /\ E.late = {} => Usual(a)

\* What a request of a pool would cost per Unit tokens, by the price list, at
\* the lowest and at the highest prices of the week for input and for output.
Listed(p) == {r \in Between(usage, -TrafficWindow) : r.pool = p /\ r.final /\ ListCost(r) > 0}
InPrices(p) == {Per(r.inCost, r.input) : r \in {x \in Listed(p) : x.input > 0}} \cup {0}
OutPrices(p) == {Per(r.outCost, r.output) : r \in {x \in Listed(p) : x.output > 0}} \cup {0}
Lowest(S) == IF S = {0} THEN 0 ELSE Min(S \ {0})
At(r, in, out) == (r.input * in + r.output * out) \div Tokens(r)
Prices(p) ==
  {At(r, Lowest(InPrices(p)), Lowest(OutPrices(p))) : r \in Listed(p)}
  \cup {At(r, Max(InPrices(p)), Max(OutPrices(p))) : r \in Listed(p)}
ServedBy(a, p, w) == \E r \in Billed(a, w) : r.pool = p
Backing(a) ==
  {p \in E.member[a] :
     /\ ServedBy(a, p, TrafficWindow)
     /\ \E b \in Accounts \ (hard \cup {a}) : p \in E.member[b] /\ ServedBy(b, p, TrafficWindow)
     /\ \E b \in Accounts \ hard : p \in E.member[b] /\ ServedBy(b, p, MainWindow)}

\* An estimate is made of what was really paid, at the multiplier of the account:
\* the account has served a pool that another one serves, at least one account
\* (recoveryMinimumPeers, config.go:67) of late, and the estimate is between the
\* prices there were (estimateAccountCosts).
EstimatesAreBacked ==
  phase = "writing" =>
    \A a \in Accounts :
      rec[a].kind = "estimated" =>
        LET prices == UNION {Prices(p) : p \in Backing(a)}
        IN /\ Backing(a) # {}
           /\ rec[a].cost >= E.rates[a] * Min(prices) - 3
           /\ rec[a].cost <= E.rates[a] * Max(prices)

\* What README.md:45 says of the reference of a recovery: an account without valid
\* costs of 30 minutes or 2 hours is to be led to a better priority only by the
\* estimate of at least two accounts that have them (estimateAccountCosts is content
\* with one, cost_estimate.go:68).
TwoPeersBehindRecoveries ==
  phase = "writing" =>
    \A a \in Accounts \ grounds :
      rec[a].kind = "estimated" /\ rec[a].anchor < prio[a]
        => Cardinality(grounds \ (hard \cup {a})) >= 2
=============================================================================
