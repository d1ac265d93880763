# Verification of Sub2ApiExt

TLA+ models of the services of Sub2ApiExt, the TLC runs that check them on small
instances and proofs for every value of the constants. The code is the reference;
`PROJECT.json` maps every definition that models code to its lines.

## 1. The system

Sub2ApiExt extends a Sub2API installation (an API gateway that spreads requests over
*accounts*, collected in *groups*). Four Go services run beside it, each in a
container of its own (`restart: unless-stopped`), next to deployment scripts and
tools. They share no state but the one of Sub2API: all read its PostgreSQL tables,
and three call its Admin API.

| Part | State it keeps | Operations | Talks to |
|---|---|---|---|
| **account-eval**: engine and run store (`runner.go`, `store.go`, run handlers of `server.go`) | SQLite: `runs`, `results`; `Engine.current`, wake channel | loop: pick, claim, run a batch with a pool, finalise; submit, cancel, retry, delete; repair at start | accounts' upstreams (questions), its own HTTP handlers |
| account-eval: suites, settings, pages (`server.go`, `menu.go`) | SQLite: `suites`, `settings` | rows created, changed, deleted | browser |
| account-eval: requests and verdicts (`request.go`, `response.go`, `source.go`, `model.go`) | none | build a request, read a stream, judge an answer | upstreams, PostgreSQL (read) |
| **priority-sync**: cycle (`runner.go`, `reliability.go`, `state.go`, `main.go`) | state file: per account candidate, confirmations, grace, cool-down, back-off, recovery origin; one exploration lease; cursor | every interval: load, score, trial, hold or roll back, write, save | Admin API (`PUT` of a priority), state file |
| priority-sync: scoring (`scoring.go`, `cost_estimate.go`) | none | cost and its weight, rank, priority, estimate for accounts without evidence | - |
| priority-sync: metrics (`store.go`) | none | requests, errors and pools of an account in four windows | PostgreSQL |
| priority-sync: client, report, configuration (`admin_api.go`, `presentation.go`, `config.go`) | none | HTTP, tables | Admin API |
| **monitoring**: probe pool and cycle lease (`monitor/workers.go`, `service.go`) | `running` flag, PostgreSQL advisory lock | one cycle at a time; feeder, workers, collector, cancellation | probes |
| monitoring: cycle (`monitor/cycle.go`, `store/targets.go`, `checks.go`, `snapshot.go`) | PostgreSQL: targets, checks, watermarks | evidence of an account, recovery probes and their retry intervals, aggregation of groups, pruning | PostgreSQL |
| monitoring: alert hysteresis (`store/alerts.go`) | PostgreSQL: streaks and last alert per target | one failure alert per incident, one recovery | cycle |
| monitoring: cost alerts (`monitor/cost.go`, `store/cost_alert*.go`) | PostgreSQL: incident per rule, cool-down, pending recovery | observe, persist, send, discard or finalise | SMTP |
| monitoring: probes, mail, dashboard, usage, web | none, or read-only queries | requests, one mail, pages | upstreams, SMTP, browser |
| **rate-sync**: dynamic groups (`dynamic*.go`) | state file: usage watermark, fast and slow cost memory, pending target | consume usage, propose a rate, publish it, retry a pending one | Admin API (group rates), PostgreSQL |
| rate-sync: channel checks (`channel_runner.go`, `template_sync.go`, `usage_observer.go`, `syncer*.go`) | state file: template, candidates, usage baseline per rule | checks bounded by a semaphore; direct price or measured cost; update of an account's rate | upstreams, Admin API |
| rate-sync: shared balance (`imagecreater*.go`) | state file: balance and usage watermark per host | attribute a balance difference to accounts | upstream, PostgreSQL |
| rate-sync: group history, single groups (`group_*.go`, `history.go`) | none | compare a rate with the one of a window | Admin API |
| rate-sync: state and health files (`state.go`, `health.go`, `main.go`) | the files | atomic save, migration, health phase of a cycle | container health check |
| Windows deployment, policy gateway, account tools | external (docker, firewall, files) | scripts run by hand; a stateless filter | - |

### What is hard, and what makes each part correct

* **account-eval engine.** HTTP handlers and the loop share rows and one mutex; a
  worker acts on a list read earlier; saves fail, the service is stopped or dies in
  the middle of a batch, and two repair statements put the tables right. Correct when:
  batches run one at a time and in order, every submitted batch ends, cancelled
  cells are never sent, no question is sent (and paid) twice, the final status agrees
  with the cells, a retry holds only what is unfinished, history is not rewritten.
* **priority-sync cycle.** Priorities are written one by one while the state that
  explains them is saved once, after all of them; answers are lost; evidence stays in
  rolling windows for longer than a cycle; a recovery spans many leases, cycles and
  restarts. Correct when: every recovery step is observed, the same failure does not
  roll back twice, a rollback undoes one step, nothing promotes an account inside
  its back-off, ordinary changes are confirmed, the one trial slot is given
  back and comes round.
* **priority-sync metrics and scoring.** A request may be tried on several accounts and
  logged in two tables, under different ids, late, and in any order; four queries read
  overlapping windows one after the other while the gateway goes on writing; what is
  measured, estimated or unknown is ranked together on an integer scale and written in
  steps. Correct when: a request is billed once and fails at most once, measured costs
  are ranked strictly in their order, an estimate lies between prices that were paid,
  only billed evidence moves a priority, no step overshoots.
* **monitoring cost alerts.** The state of an incident is committed before its mail is
  sent and corrected by a third transaction after it; each of the three can fail alone
  and the process can die in between. Correct when: no incident stays open untold, a
  recovery means a calm time, mails keep the cool-down, and the reader of the mails
  ends up knowing what is the case.
* **monitoring cycle.** An error lives in five places at once: the log of the gateway,
  the stored error, the watermark of what was resolved, the watermark of what was
  observed, and the streak of the alerts. They are written by three transactions of a
  cycle, any of which may fail, and a change of the account's configuration invalidates
  some of them. Correct when: an account is probed only while an error is open and at
  its retry interval, an error counts once, failures and recoveries are announced in
  turns and truly, errors do not stay open, and a cancelled cycle leaves no goroutine
  behind and loses no result otherwise.
* **rate-sync group worker.** A target is saved, sent to the gateway and forgotten in
  three steps, each of which may fail; usage is read by a watermark that is saved with
  the memory it fills; accounts and their rates change beside it. Correct when: every
  request is counted once, a rate is written only after its target is on disk and only
  for a reason, a target on disk arrives, the health file tells the truth.
* **rate-sync account worker.** Checks run a few at a time over one rule per account; a
  chain of templates hands candidates and baselines on; counters of the upstream restart
  at a midnight of their own; a balance is shared with strangers. Correct when: a rate
  that is written has a price or a payment of this very cycle behind it, checks never
  share a rule, a cancelled cycle collects exactly what it started, prices that can be
  read arrive.

`PROJECT.json` lists every one of these hazards at the line where it bites.

## 2. Modules

| Module | Models | Used by |
|---|---|---|
| `EvalEngine` | account-eval engine, run store, run handlers | `MCEvalEngine` (symmetry), the proofs |
| `EvalEngineProofs` | proofs about `EvalEngine` | - |
| `PriorityScale` | arithmetic of priorities: ranks, scale, ramps | `PriorityWalk`, `PriorityCosts`, `PriorityCycle` |
| `PriorityWalk` | abstract: what ordinary writes may do to priorities, whatever the scores | `PriorityScores` implements it |
| `PriorityMetrics` | the queries: what the logs say of an account in a window | `PriorityCosts` |
| `PriorityCosts` | measured costs, estimates, recommendations | `PriorityScores` |
| `PriorityScores` | logs, queries, scoring and writes, cycle after cycle | `MCPriorityScores` (environments), the proofs |
| `PriorityScoresProofs` | proofs about `PriorityScale`, `PriorityWalk` and `PriorityScores` | - |
| `PriorityCycle` | one cycle after another of priority-sync, with its state file | `MCPriorityCycle` (kinds of traffic), the proofs |
| `PriorityCycleProofs` | proofs about `PriorityCycle` | - |
| `CostAlert` | cost incidents of monitoring, their mails and transactions | `MCCostAlert` (environments) |
| `CostAlertProofs` | proofs about `CostAlert` | - |
| `ProbePool` | the goroutines and channels of `runProbes` | `MonitorCycle` |
| `AccountHealth` | what monitoring concludes about one account: evidence, probes due, alert streaks | `MonitorCycle` |
| `MonitorCycle` | the cycles of monitoring over the tables of the gateway and its own | `MCMonitorCycle` (environments) |
| `MonitorProofs` | proofs about `MonitorCycle`: its rows, its pool and its steps | - |
| `RateLedger` | abstract: requests counted once, rates changed only to a saved target | `GroupRates` implements it |
| `RateLedgerProofs` | proofs about `RateLedger` | - |
| `SyncHealth` | the health file of rate-sync and its check | `GroupRates` |
| `GroupRates` | the group worker of rate-sync | `MCGroupRates` (environments) |
| `GroupRatesProofs` | proofs about `GroupRates`, its ledger, its health file and its rates at rest | - |
| `PriceTemplates` | the rule of an account and what each price template makes of an answer | `AccountRates` |
| `SharedBalance` | what a window between two looks at a shared balance proves | `AccountRates` |
| `AccountRates` | the account worker of rate-sync | `MCAccountRates` (environments) |
| `AccountRatesProofs` | proofs about `AccountRates` | - |

### EvalEngine

`run` and `cell` are the status columns of `runs` and `results`; a cell is one
question put to one account in one run. `nextRun` is the AUTOINCREMENT of
`runs.seq`. The tables survive a crash, all other variables are lost.

| Actions | Code |
|---|---|
| `CreateRun`, `DeleteRuns` | submission and deletion in one transaction each |
| `CancelLoad`, `CancelCommit`, `CancelAbort`, `CancelSignal` | `cancelRun` under `Engine.mu`: read the status, write it (with the cells, if the run is not current), call `e.cancel`; the request may end between the statements |
| `RetryRead`, `RetryCreate` | the retry handler reads the original, then inserts |
| `LoopPick`, `LoopWait`, `LoopClaim`, `BatchStart`, `Finalize`, `LoopClear` | `Engine.loop` and the two ends of `runBatch` |
| `TakeList`, `StartCell`, `LeaveList`, `Answer`, `SaveAnswer` | one worker: take an account from the channel, mark a cell, ask, save |
| `Stop`, `Exit`, `Crash` | SIGTERM, the end of a stopped process, a crash at any point |
| `RepairCells`, `RepairRuns` | the two statements of `openStore`; a crash may fall between them |

One SQLite statement or transaction is one step, because the store opens a single
connection. Any database operation of the engine may fail (`MaxFaults` of them), which
ends the loop as in the code. `"failed"` stands for every verdict but "completed".
The question of an account is the only thing sent; `asked` counts it.

### PriorityScale, PriorityWalk, PriorityMetrics, PriorityCosts, PriorityScores

`ScoredPriority` is `rankLowerBetter` followed by `priorityForScore`. The score
100(n-1-r)/(n-1) is kept as an exact fraction of half ranks, so that rounding is
integer rounding; the floating point of the code agrees on these small fractions.
`RampPriority` and `RecoveryRamp` are the two step functions. `PriorityWalk` is the
abstract specification: each cycle asks for any priorities and writes each account at
most one step of the way. Its properties are proved; `PriorityScores` implements it
(`WalkSpec`), which is proved too.

`PriorityMetrics` is `priorityMetricsQuery` and `priorityPoolMetricsQuery` over sets of
rows, one operator per common table expression. `PriorityCosts` is `scoreAccounts` and
`estimateAccountCosts`: costs per `Unit` tokens and weights in percent, as integers.
`PriorityScores` runs them. Rows carry what the tables do, and beside that (`req`,
`final`) the truth, which only the properties read; a *story* is what the logs say in the end of one
or two requests, so that retries, refusals and answers under another id are each a story.
`Story` says what any set of stories must be: rows name the requests of the story, the
last row of a request on an account is the one marked final, rows lie within the longest
window, and a request with a row that has no id at all has no other row (the code cannot
match those; observation 15).

| Actions | Code |
|---|---|
| `Tick`, `LogLate`, `Limit` | the interval passes and stories are logged; a row appears between two queries of a cycle; an account becomes limited or usable |
| `Query`, `QueryFails` | `LoadAccountMetricsWindows`: the primary window and three others, one after the other; without the first there is no cycle, without another no such window |
| `Score` | `attachWindowSnapshots` and `scoreAccounts` |
| `Adjust` | the write of one account in `applyRecommendations`, or its delay (which `PriorityCycle` details) |

### PriorityCycle

Time is relative: `Now` is a constant and every stamp ages by `Interval` when time
passes, down to 0, "longer ago than anything compared with it". This keeps the state
finite with unbounded time. The five-minute decision windows, the 30-minute grace and
so on keep their order and their ratios to the interval, scaled down.

`ev` is what the tables of Sub2API say about an account, abstracted to what the code
tells apart: listed or not, kind of cost, the priority of its score, failure rate,
trailing failures, and the stamps of the last failure and success (`Evidence`). `Left`
and `Consistent` give the evidence an interval of traffic can leave. `st`, `lease` and
`cursor` are the state file in memory, `disk` the file. `rec` holds the
recommendations of a cycle and `left` those not applied yet.

| Actions | Code |
|---|---|
| `Load` | snapshot, recovery evidence, scoring, `Held`, the end of a lease, the start of a recovery or an exploration: everything up to `applyRecommendations` |
| `LoadFails` | a read fails; the cycle ends, with what it had already changed |
| `ApplyStart`, `ApplySame`, `ApplyAtOnce`, `ApplyStep` | the branches of `applyRecommendations` for one account: start of a trial, nothing to write, an immediate write (rollback, unavailable, recovery), an ordinary confirmed step; each with the outcome of its `PUT` |
| `Save` | prune and write the file, or fail |
| `Crash` | at any point; the file is read again and a cycle starts at once |
| `Tick` | the interval passes and accounts get traffic |

A `PUT` is *ok*, *failed* (not applied) or *lost* (applied, an error returned).
`hist` is a history variable, read by the properties only and kept of the accounts in
`Watched`: the last rollback and the failure it answered, the last step of a recovery, since
when a failure rate is high, and since when every cycle wants the same direction.
`Undisturbed` says that no process died and no answer was lost so far; the properties that
need it name it. `env` names the
environment of a behaviour (its kinds of traffic, the outcomes of calls, crashes, and
whether exploration is configured), chosen once: one run then covers several, each
with the faults its question turns on.

### CostAlert

`row` is the table `monitoring_cost_alert_states`, one row per rule (of a user, an API
key, a model or a budget). `cost` is what the queries of a rule would find: normal,
warning or critical. A cycle goes through the phases *idle* (due), *mail* (committed,
with notifications to send), *accepted* or *refused* (what the sender reported) and
*rest*.

| Actions | Code |
|---|---|
| `Analyze` | `AnalyzeCostAlerts`: the whole transaction, every rule observed or calmed |
| `AnalyzeFails` | a query or the transaction fails |
| `SendMail` | one mail with all notifications: accepted, refused, or accepted although the end of the SMTP session fails (`lost`) |
| `Finalize`, `Discard` | the transaction after the mail; a failure of it is only logged |
| `Crash`, `Tick` | the process dies and starts with a cycle; the interval passes |

`told`, `opened`, `said` and `high` are history variables.

### ProbePool, AccountHealth and MonitorCycle

`ProbePool` has the state of one `runProbes`: what the feeder still holds, whether the
channel of jobs is closed, what each worker does, the channel of results and what has
been collected. A worker that meets both a job and the cancellation may take either,
as `select` does; `Return` is also the exit of a worker that drops its result.
`AccountHealth` has no state: it is the arithmetic of stamps and streaks of one
account, one operator per function of the code.

`MonitorCycle` composes them. `log` is what the gateway records of an account (last
billed request, last channel error, last write of its row, the identity behind its
fingerprint, whether it can be scheduled). `tgt`, `chk` and `alert` are the rows of
`monitoring_targets`, of the last probe in `monitoring_checks`, and of
`monitoring_alert_states`. `due` and `obs` are the accounts a cycle probes and the
observations it has not evaluated yet.

| Actions | Code |
|---|---|
| `Load` | lease, `LoadSnapshot`, `SyncTargets`, `newCycleBatch`, the start of `runProbes`: one step, for nothing else writes these tables and the rows of an interval lie between cycles |
| `LoadFails` | the lease is held elsewhere, a query or the transaction fails |
| `PoolRuns`, `ProbesEnd` | the steps of the pool; the results are collected, or the context was cancelled |
| `Insert`, `InsertFails` | `InsertResults`, one transaction: checks, watermarks, resolved errors |
| `Evaluate`, `EvaluateFails`, `CycleEnds` | `EvaluateAlert` for one observation after the other, a transaction each; a failure is only logged |
| `Stop`, `Crash`, `Restart`, `Tick` | SIGTERM, the death of the process, a start with a cycle at once; the interval passes and the gateway records traffic |

Time is relative as in `PriorityCycle`, but here stamps are compared with each other as
well as with the present. `Age` therefore keeps the order of stamps older than 0, and
the gaps between them as far as the two minutes of grace tell them apart: an old gap is
shortened to the grace plus one. An account has 13 stamps, so none falls to `Never`,
which lies 14 such gaps below 0. `hist` is a history variable: last change of
configuration, failing probes in a row, last alert, distinct failures in a row.

### RateLedger, SyncHealth and GroupRates

`log` is `usage_logs` in the order of ids; `acct`, `on` and `rate` are what the gateway
has of accounts and groups. The memory of a group is abstracted to what it counted
(`seen`), the account rates it knows and the pending target: the decayed sums are
determined by those, and the rate they give is any (`ProposeChange`), bounded by the
step. A window to start a memory from begins anywhere, but requests only ever leave the
longest one as time goes by (`oldest`). `disk` is the state file, `mem` the process.
`events`, `from` and `writes` are history variables; `writes` counts apart how often a group
took the rate of its one account and a target of its memory, for one reason may do both:
a changed rate is followed at once by a group of one account, and is new to its memory when
the others are back.

| Actions | Code |
|---|---|
| `WaitForKey`, `List`, `ListFails` | the head of a cycle: the key, bindings and rates |
| `Initialize` | `initializeImageCreaterRates`, saved or undone |
| `syncSingleAccountGroup` | a group with one account |
| `prepareDynamicStates`, `loadDynamicBootstrap`, `Seed`, `BootstrapWaits` | memories that cannot go on are started anew from the first window that suffices |
| `BeginRetry`, `Retry` | pending targets first; their groups keep their usage |
| `ListGroupUsageSince`, `consumeDynamicGroup` | usage since the mark, and `publishDynamicGroup` |
| `UsageFails`, `UpdateSucceeds`, `UpdateFails` | a failing read; the answer to a `PUT`, which may be lost |
| `SaveState`, `SaveFails`, `Crash`, `Start` | the end of a cycle; a crash at any point, with a `PUT` under way that may still arrive |
| `Request`, `ChangeAccountRate`, `Switch`, `SetKey`, `Tick` | the gateway, the administrator and time |

`RateLedger` says what this promises about file and rates. `GroupRates` implements it by
the mapping in `Ledger`: the ledger is the file, not the process. `SyncHealth` is the
health file, with stamps as ages.

### PriceTemplates, SharedBalance and AccountRates

Every request costs 1 at list price; a price is what the upstream charges for it, and a
rate is price times recharge discount. `up` is the upstream of an account (what it
offers, its price groups, its counters of today, its last log entry), `shared` a balance
that several keys have in common, `rows` the gateway's log of the accounts that share
it. `PriceTemplates` has the rule of an account and what billing, price table and usage
make of it; `SharedBalance` the window between two looks at a balance.

| Actions | Code |
|---|---|
| `List`, `ListFails` | discovery of channels, the filter of manual accounts |
| `ProbeAnswers`, `ProbeFindsNothing`, `ProbeFails` | one key of `probeImageCreaterGroup` after the other |
| `resetImageCreaterGroup`, `SharedFails`, `Reconcile`, `ApplyShared` | the branches of `syncImageCreaterGroup` |
| `admitAccountHost`, `admitUniqueAccount`, `Admit`, `AdmitEnds` | `runChannelChecks`: skipped, admitted under the semaphore, cancelled |
| `BillingAnswers`/`BillingMissed`, `PricingAnswers`/`PricingMissed`, `LogAnswers`/`LogFails`, `UsageAnswers`/`UsageMissed`/`UsageInvalid` | the requests of one check in the order of its templates |
| `applyCandidate`, `collectCheckResults` | the write of an account's rate; the end of the checks |
| `Save`, `SaveFails`, `Terminate`, `Exit`, `Crash`, `Start` | the end of a cycle and of the process |
| `Request` to `NewCredentials` | requests, strangers, recharges, prices, days, midnights, proxies, keys |

The keys of a shared balance are asked and written in the order of the channels in the
code (`imagecreater.go:245`, `194`); here the order is any, since they answer for one
balance. `queue` is the set of the positions that still wait for admission, and
`Turn` gives them theirs in the order of the list.

`proof` and `up[a].seen` are history variables: what this cycle saw of an account's
price, and what the account really paid. The `epoch` of counters and of a baseline is
one, too: it says whether they are of the same day of the upstream; and `blind`: that a
candidate was computed over counters of two of them, which no reader can tell.

## 3. Runs

TLC explores all behaviours of these instances. `eval_orphan`, `cycle_restart`
and `monitor_retry` end in a counterexample; the others pass.

| Run (`.cfg`) | Instance | Question and answer |
|---|---|---|
| `eval_pool` (`EvalPool`) | 1 run, 2 accounts, 2 questions, 2 workers, 1 failing operation, 1 stop or crash | No question is sent twice or after its cell was cancelled, the final status agrees with the cells, and unless a save failed an ended run keeps no cell under way. |
| `eval_queue` (`EvalQueue`) | 2 runs, 1 account, 1 question, 1 worker, 1 failure, 1 restart, fairness | One batch at a time, none left behind; history kept; a retry holds only unfinished cells; every queued batch ends. |
| `eval_orphan` (`EvalOrphan`) | 1 run, 1 cell, 1 failure, 1 restart | After a failed save and a cancel during shutdown, a cell stays "running" for good (finding 1). |
| `score_priorities` (`PriorityScores`) | 3 accounts starting at 10, 50, 95 or 1000, one pool; *costs* (measured costs that change), *limits* (accounts limited and usable again), *retries* (ten kinds of retried, failed and free requests), *reads* (rows that appear while a cycle reads, 1 query that fails), *pools* (an account outside the pool, estimates from peers) | Every window tells the truth about the requests of an account; measured costs are ranked strictly in their order and mature ones are measured; estimates lie between prices that were paid in a pool the account serves and another one (one is enough: observation 17) has served lately; a priority moves only on billed evidence or as unavailable, never past its target; every step is one of `PriorityWalk`. |
| `cycle_steps` (`CycleSteps`) | 1 account, in one of four environments: *recovery* (known by an estimate, 8 kinds of traffic, writes succeed), *faults* (idle, unreliable or failing, also with old failures only; reads, writes and saves may fail), *crash* (1 crash anywhere), *cost* (a measured cost, 6 kinds of traffic) | In a process that neither dies nor loses answers every step is observed before the next; after a rollback nothing promotes the account before the first tier of the back-off is over or the failures it answered are a window old; a rollback needs a failure that is new since the last one, and a failure rate rolls back again only after another observation; a rollback out of a recovery undoes one step; an ordinary write was wanted in its direction by every cycle of the confirmation and, downwards, of the grace period. |
| `cycle_turns` (`CycleTurns`) | fairness; *trial* (1 account, lost answers) and *explore* (2 accounts without evidence, writes that fail) | A recovery trial ends, whatever lasts; exploration comes round to each account that stays without evidence. |
| `cycle_restart` (`CycleRestart`) | 1 account, 1 crash | A crash between a write and the save lets a step go unobserved (finding 2). |
| `cost_mails` (`CostMails`) | 2 rules, fairness; *pair* (both may warn), *crash* (one may become critical, 1 crash), *lost* (the same, mails accepted but reported as failed); mails and transactions may fail | No start stays untold when a cycle is over, unless the process died or could not take it back; a recovery follows two windows without an abnormal cycle; reminders and recoveries keep the cool-down from every mail tried; the reader learns of lasting cost and of its end. |
| `monitor_cycle` (`MonitorCycle`) | fairness; one account in *incident* (errors and requests in either order, probes that fail), *slow* (slow requests and probes, failures of configuration), *source* (a new configuration, bookkeeping writes), *switch* (switched off and on), *faults* (1 failing operation, 1 crash); *pool* (3 accounts, 2 workers, 1 stop) | A probe needs an open error and keeps the retry interval; no result is lost; failures and recoveries are told in turns, a failure after two distinct failures, a recovery on a success that is the last word; `runProbes` returns; an error does not stay open; the end of a failure that was told is told. |
| `monitor_retry` (`MonitorRetry`) | *incident* only | The retry after the first failing probe comes an hour later, not 15 minutes (finding 3). |
| `group_rates` (`GroupRates`) | fairness; up to 2 groups, 3 accounts, 3 rates; *pair* (3 requests, 1 failure, 1 crash), *shift* (bindings and rates change, beside a group with one account), *both* (two groups with the same accounts), *initial* (the group that is rebased once), *stall* and *blocked* (that group after a fourth account was counted and switched off, beside a group with one account, or with a memory), *clock* (the key comes and goes, cycles fail, time passes) | The file counts every request once and rates follow saved targets (`LedgerSpec`); neither as a group of one account nor as one of many has a group its rate changed more often than there are reasons; saved targets and the rates of single accounts arrive, unless cycles end at the one-off start (`StartStuck`, observation 18); the health check passes only on a cycle that was of use or waited. |
| `account_rates` (`AccountRates`) | fairness; *templates* (offers that change, a state file of version 2), *usage* (3 requests, prices, a day, keys that are replaced), *midnight* (3 requests, prices, the counters restart, 1 failure, 1 crash), *slots* (4 channels of 3 accounts, 2 slots, a stop), *proxies* (a chain of 3, two that go down), *shared* (2 accounts and a stranger on one balance), *recharge* (a recharge, a file of version 5, a crash), *gap* (a request during the look at the balance) | A rate that is written has evidence of this cycle behind it; checks do not share a rule and end before the save; cycles end; a price that can be read arrives. |

### Bounds, and why they are enough

* Two runs suffice for the queue: every property relates one batch to one other
  (older and newer, original and retry, repaired and waiting). Two workers with two
  accounts and two questions is the smallest pool in which a list is long and shared
  work is possible. One failure and one restart can fall at every point, in each
  order, also one during the repair of a crash; a second failure needs a second loop,
  which a restart has to bring first. The proofs have none of these bounds.
* `Now`, `Window` and the other times of the cycle are scaled so that each of the
  code's comparisons can be true and false, and so that a stamp can be older than the
  longest of them. Two confirmations and two observation cycles are the code's values.
  The runs for liveness use 100 instead of 1000 for the unavailable priority (and 20
  instead of 16 for the recovery step) so that a recovery takes few steps.
* One account is enough where a property is about its own history: in the code
  accounts share only the trial slot, the cursor and their rank. The slot and the
  cursor are the subject of the environment *explore*, the rank that of `score_priorities`.
* Cost rules share only the mail. Two of them give notifications of different kinds in
  one mail. Window, cool-down and `Now` are 1, 3 and 5 intervals: a recovery can fall
  before and after the cool-down, and a stamp can be older than both.
* Monitoring: accounts share only the pool, which has an environment of its own with
  three accounts for two workers; everything else is about one account. Interval, the
  three retry intervals, idle time and error window are 3, 6, 9, 12, 9 and 12, the present
  is 13: each a few cycles long and, but for some that are made equal, in the order of
  the code's values. With two cycles
  to the shortest retry an error can be new, observed, probed, out of its window
  or forgotten. Failures are told at the second, recoveries at the first observation (the
  defaults of `config.go`). At most one change of
  configuration falls between two synchronisations: of several only the last leaves a
  trace in the rows.
* Scoring: windows of 30 minutes, 2 hours, 24 hours and 7 days are 1, 2, 3 and 4
  intervals, so that a row is in each set of windows it can be in; evidence is enough at
  1 or 2 requests and full at 2 (of 4 tokens), so that an account can be without
  evidence, short of it, mature or full with the 2 or 3 stories of an environment. Ties,
  a new order, an estimate with and without a solid peer all occur. `Unit` has the
  divisors the small token counts need.
* Group rates: the environment *blocked* starts at the highest rate and has a crash rather
  than a failure, which leaves a target on disk with the fewest states. 3 rates, a step and a dead band of 1 allow a change that is too small,
  one that is cut off at the step, and one that takes two publications. Three requests
  are one for the start of a memory and one before and after a crash. Three intervals of age are the code's value.
* Account rates: two prices and a discount of 2 suffice to tell a price from a rate and
  from the quotient across a restart. Three requests let counters that restarted stay
  below their baseline, reach it and pass it. A stranger and a recharge once each is
  enough, for a window is compared by three sums.
* The kinds of traffic of each environment are those its question turns on. All kinds
  together exceed what TLC finishes in minutes.

### Fairness

* `EvalEngine`: goroutines are scheduled; every question ends, by its timeout
  (`Settings.Timeout`); a handler that holds `Engine.mu` goes on or its request ends;
  the container restarts (`compose.runtime.yml`). The three steps of the loop that wait
  for `Engine.mu` are strongly fair since `sync.Mutex` hands itself to a goroutine that
  has waited for a millisecond. Nobody is obliged to submit, cancel or retry.
* `PriorityCycle`: the ticker runs a cycle every interval; reads, saves and the writes
  of one account do not fail for ever (strong fairness of the successful outcome).
  Without the last, exploration does not come round: see observation 4.
* `CostAlert`: the ticker goes on; the database and the mail server do not refuse for
  ever. A mail holds the notifications of all rules, so the server is assumed to accept,
  again and again, mails about each rule, not merely mails.
* `MonitorCycle`: the system, which can always do something, does (goroutines are
  scheduled, a probe ends by its timeout, the ticker goes on, the container restarts);
  which of several possible steps comes next is left open. And a probe that is repeated
  for ever succeeds some time, without which no error need ever end.
* `GroupRates` and `AccountRates`: a process that is up goes on (the ticker, the timeout
  of every call) and is started again (`restart: unless-stopped`). An account worker that
  waits for a result nobody will send is exempt: it could not be scheduled either. Which
  of several possible steps is next, and which outcome a call has, is left open: faults
  are bounded instead.

## 4. Findings

1. `eval_orphan`: after a failed save the loop gives the run up but leaves it
   "running"; a cancel still served during shutdown then writes "cancelled" and the
   repair at start, which looks at running and cancelling runs only, leaves its cell
   running.
2. `cycle_restart`: the README of priority-sync says a restart does not skip the
   observation time; a crash between a written step and the save does.
3. `monitor_retry`: the README of monitoring says failing probes back off by 15 minutes,
   1 hour, 6 hours, 24 hours; the streak that chooses the interval also counts the
   channel error that called for the probe, so the first retry waits an hour already.

Observations that are not findings:

1. The size of a ramp step is a quarter of what is left, computed anew at every write.
   From a priority set by hand (500 to 50) it takes more than the "four writes" of the
   comment at `runner.go:1026`, and from 95 to 10 a first write moves 22 points.
2. A cycle that wants the opposite direction at once, and whose write fails, does not
   reset the confirmations of the other direction (`runner.go:738`). In
   `OrdinaryWritesAreEarned` cycles that want a change at once therefore count neither for
   nor against a direction. After a crash between the `PUT` of a rollback and the save, or
   an answer that is lost, the same failure rolls back a second time, and after one between
   a step and the save a rollback undoes two: `RollbacksAreSound` speaks of behaviours
   without either (`Undisturbed`).
3. An account at 1000 that is known only by an estimate recovers by steps of 16.
4. A write that fails for ever for one account keeps the trial slot from the others:
   the cursor moves only on success. The lease is also kept while the snapshot is
   empty.
5. The branch of `applyRecommendations` that defers a trial is unreachable: the
   recommendations it would defer have been settled before.
6. A start mail that the server accepts while the end of the session (`QUIT`) fails is
   taken back: the next cycle sends it again, and if the cost is normal by then, no
   recovery follows. `ReaderLearnsOfCost` leaves this environment out.
7. An account that is switched off and on again keeps its fingerprint, for rows that are
   not active are not synchronised: its old error counts again, and since the snapshot
   joins active rows only (`snapshot.go:75`) its watermarks are not read in that cycle,
   so that a request or an error already observed is observed a second time.
   The properties about earned failures (in `AlertsAreReal`) and back-off (in
   `ProbesAreEarned`) therefore start anew at a switch.
8. A cycle that dies or fails between its probes and `InsertResults` forgets the probes
   and repeats them at once; one that dies between `InsertResults` and `EvaluateAlert`
   has consumed the request whose recovery is then never told. The part of
   `ProbesAreEarned` about failing probes and that of `IncidentsEnd` about recoveries speak
   of systems without such faults.
9. An error that is ended by slow answers only is never announced as recovered: degraded
   is no clean recovery (`alerts.go:139`), and no probe follows without a new error.
10. The README of priority-sync (line 51) lets a failure rate roll back only when it has
   lasted two cycles. The mark of the first high cycle survives a healthy cycle whose
   adjustment is pending, in cool-down or failed to be written (`runner.go:791`), so that
   two high cycles with a healthy one between them roll back too: `OnlyLastingRateRollsBack`
   does not hold (environment *rate* of `MCPriorityCycle`).
11. A comment in the store of cost alerts (`cost_alert_notifications.go:83`) says a failed
   start mail must not turn the first observation into a silent incident. When the
   transaction that takes the incident back fails as well (`cost.go:23`), it does, until a
   reminder is due: `StartsAreTold` does not hold. `NoSilentIncident` therefore excepts it.
12. Group rates: an account whose rate is missing or zero never joins the set a memory is
   compared with (`dynamic.go:96`), so that the memory is started anew in every cycle and
   each start is a reason to change the rate, where the README promises rates that are
   frozen (environment *frozen*). A request logged after its account was disabled also
   restarts the memory (*late*). And a `PUT` of a group's rate carries the limits as they
   were listed at the start of the cycle (`admin_api.go:39`).
13. Account rates: where the upstream's day begins at another time than the local one,
   counters that restarted can be past the baseline when they are read next, and the
   difference is taken for usage (`usage_observer.go:47`, `101`). `OwnRatesAreTrue` excepts
   a candidate of such a reading (`blind`), and only it. Requests
   that come between the look at a shared balance and the reading of the log, together
   with one of a stranger, can prove a rate nobody paid (`imagecreater.go:107` to `132`;
   environment *mixed*). One account with a proxy the code does not support fails the
   list of all (`discovery_channels.go:77`).
14. Scoring: the README of priority-sync (line 24) and `config.go:22` keep the windows of
   24 hours and 7 days out of the formal ranking. Estimates, which use them, are ranked
   together with measured costs and so shift the priority of those.
15. Metrics: rows without any id cannot be matched with their retries. Of a row with two
   ids the query of accounts prefers the client's and that of pools the server's
   (`store.go:946`), so that they may count it differently; rows of the model have one.
16. The README of priority-sync (lines 55, 57) says five failures in a row begin a round of
   back-off, whether exploration is switched on or not. A rollback that ends an ordinary
   exploration begins none (`runner.go:874` records the outcome of recoveries only):
   `RollbackBacksOff` does not hold (environment *tried* of `MCPriorityCycle`).
   `RollbackUndoesOneStep` and `QuietAfterRollback` therefore speak of systems without
   exploration.
17. The README of priority-sync (lines 45 to 49) says the reference of a recovery is the
   median over at least two valid accounts of the platform, of their recent costs by their
   multipliers. `recoveryMinimumPeers` is 1 (`config.go:67`, used at
   `cost_estimate.go:68` and `78`; a test expects one peer, `cost_estimate_test.go:214`), peers
   must serve the same pool (model, endpoint, group and tier), their price is the one of the
   price list for a common mix of tokens, and the account's own history is blended in
   (`cost_estimate.go:99`). `EstimatesAreBacked` says what the code does, with one peer;
   `TwoPeersBehindRecoveries`, what the README says of their number, does not hold: with it
   as the invariant of `PriorityScores.cfg` TLC shows an account without recent costs, at 70,
   whose recovery gets the goal 50 by the costs of one other account.
18. The one-off start of the group of the shared upstream comes before all groups
   (`syncer.go:64`), and it is an error of the cycle when the memory of that group counts an
   account that is not one of the three bound now, whose rate it lacks
   (`imagecreater_initial.go:49` to `53`). Nothing else gets to that memory, which a cycle would
   otherwise start anew (`dynamic.go:94`), so every cycle fails until the group is bound to
   other accounts: groups with one account no longer follow its rate, against lines 3 and 100 of the
   README of rate-sync, and targets on disk do not arrive. `GroupsFollow` excepts this
   state (`StartStuck`), and only it, in the environments *stall* and *blocked*;
   `SinglesInherit`, without the exception, does not hold in *stall*.

## 5. Proofs

Checked by TLAPS from the named assumptions of the constants alone (`EvalAssumption`,
`ScaleAssumption`, `WalkAssumption`, `MetricsAssumption`, `CostsAssumption` and
`ScoresAssumption` of `PriorityScores`, `CycleAssumption` of `PriorityCycle`, `PoolAssumption`,
`HealthAssumption` of `AccountHealth`, `CycleAssumption` of `MonitorCycle`, `CostAssumption`,
`GroupAssumption` and `EnvironmentAssumption` of `GroupRates`, those of `AccountRates`): the
constants are of their sorts, the scale is in its order, the accounts are finitely many, an
environment is a record of bindings, rates and budgets (any number of them).
`EnvironmentAssumption` of `GroupRates` says also that the group that is rebased once has
several accounts (three, listed in `imagecreater_initial.go`).
`HealthAssumption` says of the clock of monitoring that the intervals of retries grow and
that an interval, the idle floor and the window of errors are shorter than `Now`, how far
back the model looks without shortening gaps; the configuration's defaults and every
instance have them so (a window of hours, intervals of seconds to minutes).
`CycleAssumption` says of the clock of priority-sync that an observation of a recovery is
no longer than the window of decisions and that no longer than the retention of the state
(10 minutes, 2 hours and 24 hours in `config.go`), and that the window with the grace, and the
confirmations, fit into `Now`; and that no tier of the back-off is shorter than the first
(10 minutes to 5 hours in `recoveryBackoff`).

* `EvalEngineProofs!TypeCorrect`, for any number of runs, accounts, questions, workers,
  failures and restarts: `TypeOK` is inductive; one lemma per group of
  actions.
* `OneBatch`, `NoneLeftBehind`: `OneBatchAtATime` is not inductive: a
  claim keeps it only because the loop picks when nothing executes. `LoopInv` ties
  `current` and the position of the loop to the executing run, says that a handler
  holding the lock has read a status that still is active, and that a process that is
  not up has an idle loop.
* `EndedLeavesNoneWaiting`: `Finalize` may end a run only if no cell waits. `QueueInv`
  says where every waiting cell of the executing batch is (in the channel or in the
  list of a worker), so that when all workers are done none is left; and that between
  the two statements of the repair only queued runs have waiting cells.
* `NeverAskedTwice`: `AskInv`, a cell that waits has not been asked, and rows of runs
  not yet created are untouched. It rests on `StepMovesCells`: no step puts a cell back
  to "queued" except the insertion of a new run.
* `RetriesOnlyUnfinished`: `RetryInv`, the original of a retry, also of one that has
  only been read, has ended; `SettledStays` shows that cells of an ended run do not
  become completed.
* `StatusAgrees`: `StatusMatchesCells` for any number of workers, cancels, stops and
  crashes. `HoldInv` says which worker holds a cell that is under way, so that an ended
  batch has none unless a write failed; `CleanInv`, that no cell of a batch is given up
  before the batch is; `FaultInv`, that the mark of a failed operation stays, which is
  why a status may trail its cells after one.
* `HistoryIsKept`: `HistoryKept` as a step property: `CellMoves` says of each action what
  it may do to a cell, and none leaves a settled cell for another status.
* `PriorityScoresProofs!WritesNeverOvershoot`, `ReturnsBehindNeutral`,
  `WalkTypeCorrect`: the step properties of `PriorityWalk` for every scale (not only
  10..1000), any number of accounts, costs, starting priorities and changes. They rest
  on what one write does (`RampSizePositive`, `TowardBetween`, `RampPriorityMoves`) and
  on `WalkInv`: scores are priorities, and an account that cannot be used wants
  "unavailable".
* `QueriesTellTheTruth`: `MetricsAreTrue`, for any stories, any number of them, and any
  environment. The query never sees requests, only keys it computes from ids; the property
  speaks of requests. `LogsOK` says of the two logs what makes the two agree: ids name one
  request (`RowKeys`, `Keys`), one row of a request and account is the last, and rows
  without ids stand alone. Every story keeps it (`ToldKeeps`), and so do a set of stories in
  whatever order (`LogKeeps`), rows that appear late, and time (`OlderKeeps`). From it, the
  rows the query keeps are those that were billed (`BillsTrue`), and its records of
  failures are in bijection with the requests that failed (`RecordsPair`, `Paired`), so
  that the four counts of failures agree (`RecordsTrue`).
* `MovesRestOnEvidence`: `MovesAreMeasured`. `ScoresInv` carries the argument from the
  query to the write: what was read of an account is never more than was billed to it in
  that window (`Readings`: also when a query fails, when rows appear after it, and until the
  cycle ends); an account whose measured cost counts has met the minimum of the window the
  cost is of, also where mature costs of the main window replace a short sample
  (`DirectGrounds`, `WeightIs`); all others are left at their priority (`Advises`), and stay
  there until the last write (`Reasons`).
* `ScoresWalk`, `ScoresNeverOvershoot`: `PriorityScores` implements `PriorityWalk`, and so
  `NeverOvershoots` holds of it.
  Sums over rows and the log of a set of stories are folds of the community modules. The
  induction they need is by hand: a smallest counterexample in the finite subsets, by the
  well-foundedness of the naturals (`SmallestSubset`, `FoldExists`, `FoldUnique`).
* `ScoresKeepOrder`: for any number of accounts a dearer one is never scored in front of
  a cheaper one, and no score takes the slot of the exploration. This is the part of
  the scale of
  `ScoresFollowCosts` that is true without a bound: with more than about eighty
  accounts the 81 priorities do not suffice for strict order. The proof goes from
  cardinalities of the cheaper and the equal accounts to ranks and from ranks,
  through rounding, to priorities.
* `ScoresStrictlyByCost`: `ScoresFollowCosts` where each of the two segments of the scale,
  10 to 50 and 50 to 90, has a priority more than there are accounts less one: up to 41
  accounts, for any costs, traffic and environment. Accounts whose costs differ are at
  least one rank apart (`RankFollowsCost`), a segment with room keeps a gap of ranks
  through rounding (`RoundDivGap`), also next to the slot of the exploration
  (`PriorityOfStrict`). `RecsInv` carries it from one scoring to the next: one cost for each
  account explains every recommendation (`Ranks`, `RanksAre`), and where no query failed and
  nothing is logged late, what was read is what there is to read (`Exact`). The other half,
  that mature costs are measured whatever stands beside them, needs that the snapshot of
  the main window weighs as much as the logs: runs of requests are counted per pool and
  are no more than the requests (`RunsFit`, `MatureIsRead`, `MatureIsDirect`).
* `ScoresTypes`: `TypeOK` of `PriorityScores`. What there is to prove is that the arithmetic
  of estimates stays in the natural numbers, since it divides and subtracts: peers have
  tokens to divide by (`RecentIs`), a list price has the kind of tokens it is of
  (`MixedIs`), evidence and history together weigh no more than a hundred (`EstimateIs`), a
  median is a value of its table (`MedianIs`), a mean of costs is at least one
  (`OverPoolsIs`), and the goal of a recovery is a priority (`RanksAre`).
* `RecoveryRampStep`: a step of a recovery stays short of its target or reaches it, and
  moves by at most the step of a healthy recovery.
* `PriorityCycleProofs!CycleTypes`: `TypeOK` of `PriorityCycle` for any accounts, scale, times,
  back-off tiers and environments. `Typed` adds that a recovery trial has a priority, in
  memory and on disk.
* `RecommendationsStand`: when the turn of an account comes, its recommendation still is
  what evidence and state call for (`Standing`), whatever became of the others before it.
  A cycle computes all recommendations from one snapshot and writes them one by one, and
  the writes share the lease and the cursor; everything said of a write below needs this
  link back to what the cycle saw.
* `RollbacksEarned`, `StepsObserved`, `OrdinaryWritesEarned`: `RollbacksAreEarned`,
  `StepsObservedWhileUp` and `OrdinaryWritesAreEarned`, each a property of a step and of
  what happened cycles ago, from one invariant, `CycleInv`. Its first half, `Grounded`, holds
  of every behaviour: types, `EvidenceInWindow` and `Standing`. Its second, `Followed`, relates
  state and history while `Undisturbed`. `BlameBehind`: the failure a rollback answered is behind
  the watermark or out of the window, so that what is shown after it is new, also where
  the entry of the account expires or is pruned. `ObservedSinceFall`: the observation after
  a rollback begins with it. `StepKnown`: a step not yet observed is known to the state, and
  a trial of the account, if there is one, began with it; three paths (promotion, a new
  lease, the lease under way) take the next step, and each looks at another stamp.
  `CountOK`: what the counter of confirmations stands for, which differs before a cycle
  has counted (`Before`), after (`Counted`) and in between (`Counting`). One lemma for each branch
  of `applyRecommendations`, the load, the save, the restart and the tick.
* `RollbacksSound`: all of `RollbacksAreSound`, that is, also that a rollback out of a
  recovery undoes one step, and that nothing promotes the account in the back-off. A
  recovery goes through many leases, and which priority is to be restored is kept twice,
  in the state and in the lease; a promotion can be a start, a step, a graduation or an
  ordinary score. `RollbackInv` adds to `CycleInv`, for a process that is undisturbed and
  does not explore: `TrialsAreRecoveries`; `OneStepUp`, that either origin is no more than
  one `RecoveryStep` behind the priority in force; and `Resting`, that an account that has
  not rested since its fall has no trial and a back-off that lasts at least the first tier
  from there. `StepFacts` says what a recommendation can be at all, `ObservedRetry` that no
  observation clears the back-off while the failure it answered is in the window. That an
  entry of the state expires does not harm it: the retention is no shorter than the window,
  so the failures are out of the window by then.
* `MonitorProofs!NoProbeIsLost`: `EveryProbeCounts` for any finite number of accounts,
  any concurrency, traffic, interleaving and cancellation. `Accounted`, in `CycleInv`,
  says where each account of a pool that is not cancelled is (waiting, held by a worker,
  in a result or collected) and that a worker returns only when the feeder is done;
  `DrainedHasAll` concludes that a drained pool has all results. It also needs that an
  observation of a snapshot is no probe (`ObservedIsNoProbe`), and that the sequence the
  cycle makes of a finite set of results lists that set (`SetToSeqLists`).
* `RecoveriesFollow`: `RecoveryFollowsFailure`, a part of `AlertsAreReal`, for all
  constants. `ToldInv`: what an alert state remembers is nothing or the last thing told,
  through resets, lost evaluations and intervals.
* `MonitorTypes`, `ProbesEarned`, `AlertsReal`: the three invariants of `MonitorCycle`, for
  any accounts, environments, intervals, thresholds and grace. What makes them hard is that
  what is said now was read from stamps of five rows that were written in different
  steps, by two processes, and that grow old. The argument has three parts.
  Stamps: `AgeIsFaithful` shows of any thirteen stamps that ageing keeps their order and
  which gaps are within the grace, and that none falls to `Never`, so a relation between
  stamps survives an interval.
  Rows: `AccountInv` is what the rows of one account say of each other:
  which stamp is never younger than which (`Dated`), that an error is settled only by a
  later success (`Settled`), that the last probe is the one of the history (`Remembered`),
  that an alert state counts no more failures than there were and a counted error is
  marked (`Counted`), that the failing probes in a row are of the
  present configuration (`Backing`), and that the alert counts all of them (`Streaks`: but
  for the last one while a cycle is under way, and only where no operation or process
  failed). `IntervalKeeps`, `SyncKeeps` and the lemmas on
  `Recount` show that one interval, one synchronisation, one observation keeps it.
  Steps: `WatchInv` adds what holds in the middle of a cycle: an account that
  is probed has an open error and has rested (`Chosen`), an observation that waits for its
  evaluation was true when it was made and still is the newest of its source
  (`Observing`), and one batch has no two observations of the same account and source
  (`Apart`), without which one failure would count twice.

* `RateLedgerProofs!EachCountedOnce`: `CountedOnce` for any groups, any length of the log
  and any order of requests, saves, restarts and crashes. It is inductive together with
  the types: a memory that goes on adds the requests between its old and its new mark,
  which the old counted never; one that is started takes requests up to its start once
  and those after it once.
* `GroupRatesProofs!RatesAreALedger`: `GroupRates` implements the ledger (property
  `LedgerSpec`), for any groups, accounts, bindings, log and environment. The mapping is the
  state file, but a step writes what is in the memory of the process, so the proof needs a
  relation between the two: `Memories` says of each group that both count what their marks
  say (`Sound`) and that the memory goes on from the file or was started anew at or after
  the mark of the file (`Linked`); `Duties`, that only groups with a memory are consumed;
  `Calls`, that the request under way asks for the target that is on disk. From these a
  save is a step of the ledger (`SavedIsLedgerStep`) and an arriving `PUT` a change
  of rate it allows. `DiskCountsOnce` carries `CountedOnce` over to the file.
* `GroupTypes`, `HealthTells`: `TypeOK` with the same invariant; and `HealthIsTrue`, because
  the stamps of the file are never younger than what they stand for (`HealthInv`).
* `RatesRest`: `NoRestlessRates` for any groups, accounts, bindings, log, budgets of failures
  and crashes, wherever no account loses its rate and no request is logged late (`Calm`; so are
  all environments of the run `group_rates`, and observation 12 shows that it is no property
  of the others). A request, a new rate or a switched account may be followed by a change of
  the group's rate many steps later, through a target that was computed, saved, refused,
  sent again or found on disk after a crash, so that the count of changes alone is not
  inductive. `RestInv` counts what is still owed: for the state file and for the memory of the
  process, how many more changes they can bring about though nothing further happens
  (`FileDebt`, `MemoryDebt`), and that changes and debt together are no more than the
  reasons (`ManyInv`). The debt of a memory at rest (`Targets`) is one target for what it
  does not know yet and one for a successor it will need, since other accounts are bound or
  have answered; a pending target that is not the rate is another; and in a cycle
  (`CycleTargets`) each part is told apart by what was listed and what came since. The same
  with `OneInv` and `Lag` for a group of one account. That neither debt grows is shown for
  each step (`PrepareKeepsDebts`, `PublishKeepsDebts`, `AnswersKeepDebts`, ...), that a reason
  pays for what it gives rise to in `AroundKeepsDebts`; that windows only lose requests
  (`LoadKeepsDebts`) and that a save takes over a debt the memory already had are the cases
  that need the model's details. `Grounds` is what the lemmas need of a cycle: rates are
  there, memories know those of all they counted, and the groups still to come fit.
* `CostAlertProofs!CostTypes`, `IncidentsAreTold`, `MailsEarned`: the three invariants of
  `CostAlert` for any rules, intervals, cool-down and environment. `IncidentsAreTold` follows a
  start from the transaction that opens it over the notification to the mail, its discard
  or its loss (`StartsPending`). `MailsEarned` orders the stamps of a row with the history,
  which ages with them: what counts as normal is later than the last high window.
* `AccountRatesProofs!ChecksAreApart`: `ChecksDontShare` for any accounts, channels,
  bound on concurrent checks, environments and faults. It assumes that the bound is at
  least one (the code has 6) and that the gateway lists a sequence of
  bindings. Two facts carry it: an account with a check, under way or done, is not
  admitted again; and the checks that are under way or done are no more than were counted
  (`ChecksInv`), so that a collection that has as many results as were counted waits
  for no other one. Nothing is assumed of the queue. That collection ends (the opposite
  mistake, counting one too many) is `CyclesEnd`, and stays with TLC.
* `RulesAreOfOneTemplate` and `RatesAreExplained`: `TypeOK` of `AccountRates`, and
  `OwnRatesAreTrue`, the first half of `RatesFromEvidence`, for any accounts, channels, price
  groups, prices, budgets and faults. A rate is computed from a rule of the state file,
  several cycles after its baseline was read, and the upstream has moved on; a rule may
  also be one of other credentials, of another template, or of a copy that a failed
  template left. `RatesInv` adds to `ChecksInv` what makes the quotient true:
  `Fits` says of a rule, in memory and on disk, that it is of one template, not of
  credentials or a day to come, and, where account, credentials and counters are still
  those of its baseline, `TrueTo`: the counters only grew, by requests each of which cost
  a price the upstream has shown (`Within`), and a candidate of usage is one of these
  prices. `CheckFits` says of each check that its rule is of the credentials it asks with,
  that the copy of a failed template has the baseline of the rule (`Follows`), and that a
  candidate about to be applied has its evidence (`Ready`). The lemmas come in the order of
  the code: quotients (`Quotient`, `WithinGrows`), what each template makes of a rule
  (`DirectRules`, `FailedRule`, `UsedRule`), what a move of the upstream leaves true
  (`MovesFit`), and one lemma for each action. A recovery from the file
  needs that the file fits, too: nothing on disk is trusted more than the memory.
  Assumed of the constants (`AccountAssumption`, `EnvironmentAssumption`): finitely many
  accounts, prices in `Nat`, a discount and a bound on checks above zero, an environment of
  the right types, and state files from before whose rules are of one template, have no
  baseline (there are no counters they could be of) and no credentials to come.

Only model-checked: all liveness (`SlotIsShared` of `PriorityCycle` among it); of
`PriorityScores` `EstimatesAreBacked` (its margin for rounding is one of the
instances: it grows with the multiplier of an account), and `ScoresFollowCosts` beyond the
accounts the scale has room for; of `AccountRates` `SharedRatesArePaid`, the other half of
`RatesFromEvidence`, which is no property of every environment (observation 13: requests in
the gap together with a stranger's prove a rate nobody paid). Of the assumptions of
these modules TLC evaluates the instances of the runs.

## 6. What is not modelled, and why

* SQL, HTTP, parsing, rendering, reports, mail bodies: I/O and strings. What they
  return is an input of the modules.
* priority-sync: dry runs and the exploration switch (fixed by the configuration),
  state files of older strategies, leases of a fixed slot that are started no more.
  `PriorityCycle` takes costs and estimates as input (`cost`, `goal`), `PriorityScores`
  takes the delay of a write as a choice: together they exceed what TLC finishes in
  minutes. Of the metrics: the queries for tables of older versions (`store.go` 274-436),
  percentiles, latency and speed (only reported), tokens of the cache; the statements of
  one window count as one step. Of `scoring.go`: what no path from `scoreAccounts` reaches
  (`aggregatePools`, `accountRiskCost`, `comparisonComponents`, `enforceCostDominance`,
  `promotionSafetyOutcomes` and their helpers).
* account-eval: suites and settings. Sequential changes of rows that a run copies when
  it is submitted.
* Windows deployment: PowerShell around external programs. Policy gateway: a filter
  without state. Account tools: run by hand over files.
* cost alerts: the queries of the rules (what they find is an input), rules of older
  versions, the texts of mails, pruning.
* monitoring: groups (their aggregates follow from those of their accounts and raise no
  alert), pruning (it keeps the latest probe), fingerprints of older versions, accounts
  whose protocol cannot be probed, the jitter of the intervals.
* rate-sync group worker: dry runs, a memory seeded from history when no state is given,
  failing writes of the health file, rounding, the decay of the memory (the rate it gives
  is any), rows without cost. Account worker: dry runs, tolerances, rows without cost, the
  deviation report. The history of groups (`group_history.go`) is unreachable: the source
  of the program has the incremental interface (`group_history_sync.go:17`). Reports and
  configuration are text.

## 7. Plan

1. **priority-sync**: `EstimatesAreBacked` proved, with a margin that is one of the
   multipliers; what remains of the quiet after a rollback where exploration is on.
2. **rate-sync**: `SharedRatesArePaid` proved for environments without requests in the gap;
   both workers over one table of rates.
3. **account-eval**: an abstract ledger of cells (waiting, asked, settled) that
   `EvalEngine` implements, with the step simulation proved.
4. **monitoring**: an abstract incident (open, told, closed) that `CostAlert` and
   `MonitorCycle` implement; the aggregation of groups.
