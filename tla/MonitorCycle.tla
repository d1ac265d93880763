------------------------------ MODULE MonitorCycle ------------------------------
(***************************************************************************)
(* The cycles of monitoring (monitor/service.go, monitor/cycle.go,         *)
(* store/snapshot.go, targets.go, checks.go, alerts.go): read the tables   *)
(* of the gateway, synchronise the monitored targets, probe the accounts   *)
(* whose errors call for it, store the results, evaluate the alerts.       *)
(*                                                                         *)
(* Time is relative: the present is Now.  Requests, errors and changes of  *)
(* an interval lie between two cycles.  Stamps older than 0 only keep      *)
(* their order and whether they are within Grace of each other (Age).      *)
(*                                                                         *)
(* Left out: groups, whose aggregates follow from those of their accounts  *)
(* and raise no alert; pruning, which keeps the latest probe; legacy       *)
(* fingerprints; accounts whose protocol cannot be probed.  The lease of   *)
(* another instance, when held, is a cycle that fails to load.             *)
(***************************************************************************)
EXTENDS ProbePool, AccountHealth, FiniteSetsExt, SequencesExt

CONSTANT Environments   \* what a behaviour may meet, by name

\* What the gateway records of an account in one interval: how long before the
\* cycle the last billed request, channel error and write of the account row
\* were (0: none), whether the request was slow, and whether the account was
\* configured anew or switched on or off.
Traffic ==
  [ok : 0..Interval - 1, err : 0..Interval - 1, upd : 0..Interval - 1,
   slow : BOOLEAN, change : BOOLEAN, switch : BOOLEAN]

\* accounts: those there are; traffic: what an interval may bring to each;
\* probes: how probes may end; faults, crashes, stops: how often the database
\* may fail and the process die or be stopped (bounds).
Environment(e) ==
  /\ DOMAIN e = {"accounts", "traffic", "probes", "faults", "crashes", "stops"}
  /\ e.accounts \subseteq Accounts
  /\ e.traffic \subseteq Traffic
  /\ \A k \in e.traffic : k.change \/ k.switch => k.upd > 0
  /\ e.probes \subseteq ProbeStatus
  /\ {e.faults, e.crashes, e.stops} \subseteq Nat

ASSUME CycleAssumption ==
  \A n \in DOMAIN Environments : Environment(Environments[n])

VARIABLES
  env,      \* the name of the environment
  log,      \* the gateway: accounts, usage_logs and ops_error_logs, the latest
  tgt,      \* monitoring_targets
  chk,      \* monitoring_checks: the last probe
  alert,    \* monitoring_alert_states
  due,      \* accounts this cycle probes
  obs,      \* observations of this cycle not evaluated yet
  phase,    \* "idle" (due), "probing", "insert", "alerts", "rest" or "down"
  hist,     \* history, read by properties only
  ended     \* how often the database failed, the process died, it was stopped

vars == <<env, log, tgt, chk, alert, due, obs, phase, hist, ended, pool, canceled>>

Present == Environments[env].accounts
Sources == {"history", "request_error", "probe"}
NoCheck == [at |-> Never, status |-> "none"]
NoTarget == [here |-> FALSE, active |-> FALSE, act |-> Never, err |-> Never,
             resolved |-> Never, obsAct |-> Never, obsErr |-> Never,
             identity |-> 1, src |-> Never]

\* changed: last change of configuration; bad: failing probes in a row; told:
\* the last alert, and whether the configuration has changed since; fails:
\* distinct failures evaluated in a row, and the last error among them.
NoHistory == [changed |-> Never, bad |-> 0, told |-> "none", stale |-> FALSE,
              fails |-> 0, counted |-> Never]

TypeOK ==
  /\ PoolTypeOK
  /\ env \in DOMAIN Environments
  /\ \A a \in Accounts :
       /\ {log[a].act, log[a].err, log[a].upd, tgt[a].act, tgt[a].err, tgt[a].resolved,
           tgt[a].obsAct, tgt[a].obsErr, tgt[a].src, chk[a].at, alert[a].at}
            \subseteq Never..Now
       /\ log[a].identity \in 1..2 /\ tgt[a].identity \in 1..2
       /\ {log[a].slow, log[a].on, tgt[a].here, tgt[a].active} \subseteq BOOLEAN
       /\ chk[a].status \in ProbeStatus \cup {"none"}
       /\ alert[a].alerted \in {"none", "failed", "operational"}
       /\ alert[a].failures \in 0..MostFailures
       /\ alert[a].recoveries \in 0..RecoveryThreshold
       /\ hist[a].bad \in 0..Len(Tiers) /\ hist[a].fails \in 0..FailureThreshold
  /\ due \subseteq Present
  /\ \A i \in DOMAIN obs : obs[i].job \in Present /\ obs[i].source \in Sources
  /\ phase \in {"idle", "probing", "insert", "alerts", "rest", "down"}
  /\ ended.faults \in 0..Environments[env].faults
  /\ ended.crashes \in 0..Environments[env].crashes
  /\ ended.stops \in 0..Environments[env].stops

-----------------------------------------------------------------------------
(* The snapshot of an account: l, t, c and s are its rows in log, tgt, chk   *)
(* and alert.                                                               *)

Known(t) == t.here /\ t.active
Candidate(l) == Effective(l.upd, l.act)

\* A row of the error log, or the stored error, that has not been resolved.
Unresolved(t, err) == Known(t) => Valid(err, t.src) /\ err > t.resolved
Logged(l, t) == IF Now - l.err <= ErrorWindow /\ Unresolved(t, l.err) THEN l.err ELSE Never
Stored(t) == IF Known(t) /\ Unresolved(t, t.err) THEN t.err ELSE Never

\* channelErrorResolved.
Answered(err, l, c) == l.act > err \/ (c.at > err /\ Successful(c.status))
LastError(err, l, c) == IF Answered(err, l, c) THEN Never ELSE err

\* The streak counts if the alert state is not older than the source.
Streak(s, src, act) == IF Current(s, src, act) THEN s.failures ELSE 0

\* snapshotQuery and snapshotRow.account, with the watermark that SyncTargets
\* puts into it afterwards.
Snapshot(l, t, c, s) ==
  [act |-> l.act, slow |-> l.slow, err |-> LastError(Larger(Logged(l, t), Stored(t)), l, c),
   probe |-> c,
   obsAct |-> IF Known(t) THEN t.obsAct ELSE Never,
   obsErr |-> IF Known(t) THEN t.obsErr ELSE Never,
   src |-> SourceAt(t.here, t, l.identity, Candidate(l)),
   streak |-> Streak(s, SourceAt(Known(t), t, l.identity, Candidate(l)), l.act)]

-----------------------------------------------------------------------------
(* SyncTargets, for an account that can be scheduled.                        *)

IfLater(t, err) == IF t > err THEN t ELSE Never

\* accountChannelErrorResolvedAt.
ResolvedAt(v) ==
  Max({IfLater(v.act, v.err),
       IF Successful(v.probe.status) THEN IfLater(v.probe.at, v.err) ELSE Never,
       IF v.src - v.err > Grace THEN v.src ELSE Never})

\* syncTargetsUpsert: the incoming error, else the stored one, else none.
Incoming(v, t) == v.err > ResolvedAt(v) /\ Valid(v.err, v.src) /\ v.err >= t.err
Kept(v, t) == t.err > Larger(t.resolved, ResolvedAt(v)) /\ Valid(t.err, v.src)
ErrorOf(v, t) ==
  CASE ~t.here \/ Incoming(v, t) -> v.err
    [] t.here /\ ~Incoming(v, t) /\ Kept(v, t) -> t.err
    [] OTHER -> Never

Upsert(l, t, v) ==
  [here |-> TRUE, active |-> TRUE, act |-> Larger(t.act, v.act), err |-> ErrorOf(v, t),
   resolved |-> Larger(t.resolved, ResolvedAt(v)), obsAct |-> t.obsAct, obsErr |-> t.obsErr,
   identity |-> l.identity, src |-> v.src]
Synced(l, t, v) == IF l.on THEN Upsert(l, t, v) ELSE [t EXCEPT !.active = FALSE]

-----------------------------------------------------------------------------
(* The cycle (runCycle).                                                    *)

Fault ==
  /\ ended.faults < Environments[env].faults
  /\ ended' = [ended EXCEPT !.faults = @ + 1]

\* What this cycle knows of account a, and what it does about it.
View(a) == Snapshot(log[a], tgt[a], chk[a], alert[a])
Probed(views) == {a \in DOMAIN views : log[a].on /\ ToProbe(views[a])}
Observation(a, e) == [job |-> a, source |-> e.source, status |-> e.status, at |-> e.at]
ObservedIn(views) ==
  {Observation(a, Evidence(views[a])) : a \in {b \in DOMAIN views : log[b].on /\ ToObserve(views[b])}}

\* LoadSnapshot, SyncTargets and newCycleBatch; runProbes starts its pool.
LoadFrom(views) ==
  /\ tgt' = [a \in Accounts |-> IF a \in Present THEN Synced(log[a], tgt[a], views[a]) ELSE tgt[a]]
  /\ due' = Probed(views)
  /\ obs' = SetToSeq(ObservedIn(views))
  /\ StartPool(Probed(views))
Load ==
  /\ phase = "idle"
  /\ LoadFrom([a \in Present |-> View(a)])
  /\ phase' = "probing"
  /\ UNCHANGED <<env, log, chk, alert, hist, ended, canceled>>

\* The lease is held by another instance, or a query or the transaction fails.
LoadFails ==
  /\ phase = "idle" /\ Fault
  /\ phase' = "rest"
  /\ UNCHANGED <<env, log, tgt, chk, alert, due, obs, hist, pool, canceled>>

PoolRuns ==
  /\ phase = "probing"
  /\ PoolStep(WorkerCount(due), Environments[env].probes)
  /\ UNCHANGED <<env, log, tgt, chk, alert, due, obs, phase, hist, ended, canceled>>

\* runProbes returns: the results, or nothing if the context is cancelled.
ResultOfNext(r) == [job |-> r.job, source |-> "probe", status |-> r.found, at |-> Now + Interval]
ProbeResult(r) == [job |-> r.job, source |-> "probe", status |-> r.found, at |-> Now]
ProbesEnd ==
  /\ phase = "probing" /\ Drained
  /\ IF canceled
     THEN obs' = <<>> /\ due' = {} /\ phase' = "down"
     ELSE /\ obs' = obs \o SetToSeq({ProbeResult(r) : r \in answers})
          /\ phase' = "insert"
          /\ UNCHANGED due
  /\ NoPool
  /\ UNCHANGED <<env, log, tgt, chk, alert, hist, ended, canceled>>

\* What was observed of an account, of each source once at most.
Of(a, source) == {o \in ToSet(obs) : o.job = a /\ o.source = source}
One(seen) == CHOOSE o \in seen : TRUE

\* markObservedAccountEvidence and clearResolvedChannelErrorQuery.
MarkOf(seen, mark) == IF seen = {} THEN mark ELSE Larger(mark, One(seen).at)
ClearError(t, at) ==
  [t EXCEPT !.resolved = IF t.err >= at THEN @ ELSE Larger(@, at),
            !.err      = IF @ < at THEN Never ELSE @]
Cleared(t, probes) ==
  IF \E o \in probes : Successful(o.status) THEN ClearError(t, One(probes).at) ELSE t
Marked(t, a) ==
  [Cleared(t, Of(a, "probe")) EXCEPT
     !.obsAct = MarkOf(Of(a, "history"), @), !.obsErr = MarkOf(Of(a, "request_error"), @)]

\* InsertResults, one transaction.
Checked(c, probes) ==
  IF probes = {} THEN c ELSE [at |-> One(probes).at, status |-> One(probes).status]
FailingProbes(a) ==
  CASE Of(a, "probe") = {} -> hist[a].bad
    [] \E o \in Of(a, "probe") : Failing(o.status) -> Smaller(hist[a].bad + 1, Len(Tiers))
    [] \E o \in Of(a, "probe") : ~Failing(o.status) -> 0
Insert ==
  /\ phase = "insert"
  /\ tgt' = [a \in Accounts |-> Marked(tgt[a], a)]
  /\ chk' = [a \in Accounts |-> Checked(chk[a], Of(a, "probe"))]
  /\ hist' = [a \in Accounts |-> [hist[a] EXCEPT !.bad = FailingProbes(a)]]
  /\ phase' = "alerts"
  /\ UNCHANGED <<env, log, alert, due, obs, ended, pool, canceled>>

\* The cycle ends without results or alerts.
InsertFails ==
  /\ phase = "insert" /\ Fault
  /\ obs' = <<>> /\ due' = {}
  /\ phase' = "rest"
  /\ UNCHANGED <<env, log, tgt, chk, alert, hist, pool, canceled>>

\* EvaluateAlert: the state it starts from, and what it tells.
Basis(a) ==
  IF Current(alert[a], tgt[a].src, tgt[a].act) THEN alert[a] ELSE NoAlert
Tells(o) == Event(Basis(o.job), o.status)

\* A failure counts once: a probe, or an error that is newer than the last.
Counts(h, o) == Failing(o.status) /\ (o.source = "probe" \/ o.at > h.counted)
Recount(h, o) ==
  [h EXCEPT !.fails = IF ~Failing(o.status) THEN 0
                      ELSE IF Counts(h, o) THEN Smaller(@ + 1, FailureThreshold) ELSE @,
            !.counted = IF o.source = "request_error" THEN Larger(@, o.at) ELSE @,
            !.bad = IF o.source = "history" THEN 0 ELSE @,
            !.told = IF Tells(o) = "none" THEN @ ELSE Tells(o),
            !.stale = @ /\ Tells(o) = "none"]

EvaluateFirst(o) ==
  /\ alert' = [alert EXCEPT ![o.job] = Observe(Basis(o.job), o.status)]
  /\ hist' = [hist EXCEPT ![o.job] = Recount(@, o)]
Evaluate ==
  /\ phase = "alerts" /\ obs # <<>>
  /\ EvaluateFirst(Head(obs))
  /\ obs' = Tail(obs)
  /\ UNCHANGED <<env, log, tgt, chk, due, phase, ended, pool, canceled>>
EvaluateFails ==
  /\ phase = "alerts" /\ obs # <<>> /\ Fault
  /\ obs' = Tail(obs)
  /\ UNCHANGED <<env, log, tgt, chk, alert, due, phase, hist, pool, canceled>>

CycleEnds ==
  /\ phase = "alerts" /\ obs = <<>>
  /\ due' = {}
  /\ phase' = "rest"
  /\ UNCHANGED <<env, log, tgt, chk, alert, obs, hist, ended, pool, canceled>>

-----------------------------------------------------------------------------
(* The process and the gateway.                                             *)

\* SIGTERM cancels the context.  Probes under way see it; a transaction fails.
Stop ==
  /\ ended.stops < Environments[env].stops
  /\ phase # "down" /\ ~canceled
  /\ ended' = [ended EXCEPT !.stops = @ + 1]
  /\ canceled' = TRUE
  /\ IF phase = "probing" THEN UNCHANGED <<obs, due, phase>>
     ELSE obs' = <<>> /\ due' = {} /\ phase' = "down"
  /\ UNCHANGED <<env, log, tgt, chk, alert, hist, pool>>

Crash ==
  /\ ended.crashes < Environments[env].crashes
  /\ phase # "down"
  /\ ended' = [ended EXCEPT !.crashes = @ + 1]
  /\ obs' = <<>> /\ due' = {} /\ phase' = "down"
  /\ NoPool
  /\ UNCHANGED <<env, log, tgt, chk, alert, hist, canceled>>

\* Run starts with a cycle.
Restart ==
  /\ phase = "down"
  /\ canceled' = FALSE
  /\ phase' = "idle"
  /\ NoPool
  /\ UNCHANGED <<env, log, tgt, chk, alert, due, obs, hist, ended>>

\* What becomes of the stamps S of an account in an interval.  Those that are
\* now before 0 keep their order and their gaps, as far as Grace tells them
\* apart: between them and 0 counts only what is within Grace after one of them.
Covered(S, t) == {x \in t..Interval - 1 : \E u \in S \ {Never} : x - u \in 0..Grace}
Age(S) ==
  [t \in S |-> CASE t = Never     -> Never
                 [] t >= Interval -> t - Interval
                 [] OTHER         -> -Cardinality(Covered(S, t))]

StampsOf(a) ==
  {log[a].act, log[a].err, log[a].upd, tgt[a].act, tgt[a].err, tgt[a].resolved,
   tgt[a].obsAct, tgt[a].obsErr, tgt[a].src, chk[a].at, alert[a].at,
   hist[a].changed, hist[a].counted}

\* The gateway uses an account that is on; it is configured anew at most once
\* between two synchronisations (bound).
Possible(a, k) ==
  /\ log[a].on \/ (k.ok = 0 /\ k.err = 0 /\ ~k.change)
  /\ k.change => ~tgt[a].here \/ tgt[a].identity = log[a].identity

When(ago, age, t) == IF ago = 0 THEN age[t] ELSE Now - ago
LogAfter(l, age, k) ==
  [act |-> When(k.ok, age, l.act), err |-> When(k.err, age, l.err),
   upd |-> When(k.upd, age, l.upd), slow |-> IF k.ok = 0 THEN l.slow ELSE k.slow,
   identity |-> IF k.change THEN 3 - l.identity ELSE l.identity, on |-> l.on # k.switch]
TargetAfter(t, age) ==
  [t EXCEPT !.act = age[@], !.err = age[@], !.resolved = age[@], !.obsAct = age[@],
            !.obsErr = age[@], !.src = age[@]]
HistoryAfter(h, age, k) ==
  [h EXCEPT !.changed = IF k.change THEN Now - k.upd ELSE age[@],
            !.counted = IF k.switch THEN Never ELSE age[@],
            !.bad = IF k.change \/ k.switch THEN 0 ELSE @,
            !.stale = @ \/ k.change]

Pass(kinds, ages) ==
  /\ log' = [a \in Accounts |-> LogAfter(log[a], ages[a], kinds[a])]
  /\ tgt' = [a \in Accounts |-> TargetAfter(tgt[a], ages[a])]
  /\ chk' = [a \in Accounts |-> [chk[a] EXCEPT !.at = ages[a][@]]]
  /\ alert' = [a \in Accounts |-> [alert[a] EXCEPT !.at = ages[a][@]]]
  /\ hist' = [a \in Accounts |-> HistoryAfter(hist[a], ages[a], kinds[a])]

Nothing == [ok |-> 0, err |-> 0, upd |-> 0, slow |-> FALSE, change |-> FALSE, switch |-> FALSE]
Kinds(a) ==
  IF a \in Present THEN {k \in Environments[env].traffic : Possible(a, k)} ELSE {Nothing}

Tick ==
  /\ phase = "rest"
  /\ \E kinds \in [Accounts -> Environments[env].traffic \cup {Nothing}] :
       /\ \A a \in Accounts : kinds[a] \in Kinds(a)
       /\ Pass(kinds, [a \in Accounts |-> Age(StampsOf(a))])
  /\ phase' = "idle"
  /\ UNCHANGED <<env, due, obs, ended, pool, canceled>>

Init ==
  /\ env \in DOMAIN Environments
  /\ log = [a \in Accounts |-> [act |-> Never, err |-> Never, upd |-> Now - 1, slow |-> FALSE,
                                identity |-> 1, on |-> TRUE]]
  /\ tgt = [a \in Accounts |-> NoTarget]
  /\ chk = [a \in Accounts |-> NoCheck]
  /\ alert = [a \in Accounts |-> NoAlert]
  /\ hist = [a \in Accounts |-> NoHistory]
  /\ due = {} /\ obs = <<>> /\ phase = "idle"
  /\ ended = [faults |-> 0, crashes |-> 0, stops |-> 0]
  /\ PoolInit

Next ==
  \/ Load \/ PoolRuns \/ ProbesEnd \/ Insert \/ Evaluate \/ CycleEnds
  \/ LoadFails \/ InsertFails \/ EvaluateFails
  \/ Stop \/ Crash \/ Restart \/ Tick

Spec == Init /\ [][Next]_vars

Answers(found) ==
  /\ phase = "probing"
  /\ \E w \in Workers : Probe(w, found)
  /\ UNCHANGED <<env, log, tgt, chk, alert, due, obs, phase, hist, ended, canceled>>

\* Goroutines are scheduled and a probe ends, by its timeout at the latest; the
\* ticker goes on and the container restarts: the system, which can always do
\* something, does (WF_vars(Next), in a form that costs TLC less).  A probe that
\* is repeated for ever succeeds some time.
FairSpec ==
  /\ Spec
  /\ []<><<TRUE>>_vars
  /\ SF_vars(Answers("operational"))

-----------------------------------------------------------------------------
(* Properties.                                                              *)

\* The last channel error of an account is neither followed by a success nor
\* older than its configuration.
Open(a) ==
  /\ log[a].err # Never /\ log[a].err >= log[a].act
  /\ Successful(chk[a].status) => log[a].err > chk[a].at
  /\ Valid(log[a].err, hist[a].changed)

\* An account is probed only while a channel error is open, whatever was
\* forgotten or stored twice on the way from the error log to the watermarks
\* (README of monitoring, "probe policy"; probeEligible).
ProbesNeedError == phase = "probing" => \A a \in due : Open(a)

Undisturbed == ended = [faults |-> 0, crashes |-> 0, stops |-> 0]

\* The probes of an account keep the shortest retry interval even when errors
\* stream in, unless it is configured anew; failing ones back off with every
\* failure, unless the process or the database failed in between
\* (recoveryProbeImmediate, probeRetryInterval).
ProbesBackOff ==
  phase = "probing" =>
    \A a \in due :
      chk[a].at # Never =>
        /\ Now - chk[a].at >= Tiers[1] \/ hist[a].changed > chk[a].at
        /\ Undisturbed /\ hist[a].bad > 0 => Now - chk[a].at >= Tier(hist[a].bad)

\* A probe is earned by an open error and by the interval that has gone by.
ProbesAreEarned == ProbesNeedError /\ ProbesBackOff

\* The first retry of a failing probe is due after the shortest interval
\* ("15 minutes, 1 hour, 6 hours, 24 hours", README of monitoring), if there
\* has been traffic of late.
FirstRetryInTime ==
  phase = "probing" =>
    \A a \in Present :
      /\ Undisturbed /\ log[a].on /\ Open(a) /\ ~Idle(log[a])
      /\ hist[a].bad = 1 /\ chk[a].status = "failed" /\ Now - chk[a].at >= Tiers[1]
      => a \in due

\* A cycle that stores results has one of every account it set out to probe,
\* whatever the order of feeder, workers, closer and collector (runProbes).
EveryProbeCounts ==
  phase = "insert" => {o.job : o \in {x \in ToSet(obs) : x.source = "probe"}} = due

Telling(a, status) ==
  phase = "alerts" /\ obs # <<>> /\ Head(obs).job = a /\ Tells(Head(obs)) = status

\* A failure that was told is not told again before its recovery, or a new
\* configuration, which starts over (alertState.observe and reset).
FailureToldOnce ==
  \A a \in Present : Telling(a, "failed") => hist[a].told # "failed" \/ hist[a].stale

\* A recovery is told only after a failure.
RecoveryFollowsFailure ==
  \A a \in Present : Telling(a, "operational") => hist[a].told = "failed"

\* Failures and recoveries are told in turns.
AlertsAlternate == FailureToldOnce /\ RecoveryFollowsFailure

\* A failure is told after as many distinct failures as the threshold says:
\* an error that stays in the log, or a cycle that is repeated, counts once.
FailureIsEarned ==
  \A a \in Present :
    Telling(a, "failed") => Recount(hist[a], Head(obs)).fails >= FailureThreshold

\* A recovery is told when the last word on the account is a success that was
\* not slow, under its present configuration.
LastSuccess(a) ==
  Larger(IF log[a].slow THEN Never ELSE log[a].act,
         IF chk[a].status = "operational" THEN chk[a].at ELSE Never)
RecoveryIsReal ==
  \A a \in Present :
    Telling(a, "operational") =>
      /\ Valid(LastSuccess(a), hist[a].changed)
      /\ Now - log[a].err <= ErrorWindow => log[a].err < LastSuccess(a)

\* What is told is new, earned and true.
AlertsAreReal == AlertsAlternate /\ FailureIsEarned /\ RecoveryIsReal

\* runProbes returns, cancelled or not.
PoolsEnd == phase = "probing" ~> phase # "probing"

\* An error does not stay open: its account is probed again and again until a
\* probe succeeds.
ErrorsAreSettled ==
  \A a \in Accounts : []<>(a \in Present => ~log[a].on \/ ~Open(a))

\* The error was ended by answers that were slow, which are no recovery.
EndedSlowly(a) == ~Open(a) /\ LastSuccess(a) <= log[a].err

\* The end of a failure that was told is told, when nothing is lost, the
\* account stays on and as it is, and the answers are not all slow.
RecoveryIsTold ==
  \A a \in Accounts :
    Undisturbed /\ hist[a].told = "failed" /\ ~hist[a].stale
      ~> \/ ~Undisturbed \/ hist[a].told # "failed" \/ hist[a].stale
         \/ ~log[a].on \/ EndedSlowly(a)

\* Probes, errors and failures come to their ends.
IncidentsEnd == PoolsEnd /\ ErrorsAreSettled /\ RecoveryIsTold
=============================================================================
