----------------------------- MODULE PriorityCycle -----------------------------
(***************************************************************************)
(* The cycle of priority-sync (priority-sync/runner.go, reliability.go,    *)
(* state.go, main.go): read the evidence of every account, score it, give  *)
(* one account at a time a recovery or exploration trial, hold or roll     *)
(* back unreliable accounts, write what may be written to the Admin API    *)
(* and save the state.  Writes may fail, answers may be lost, the process  *)
(* may die between a write and the save.                                   *)
(*                                                                         *)
(* Time is relative: the present is always the constant Now, and when time *)
(* passes every time stamp gets smaller, down to 0, which means "longer    *)
(* ago than anything compared with it".  Never (-1) is Go's nil.  The ids  *)
(* of accounts are positive integers.                                      *)
(*                                                                         *)
(* Left out: dry runs and the exploration switch (both fixed by the        *)
(* configuration), state files of older strategies, and with them trials   *)
(* at a fixed slot (RecoveryProgressive = false), which are started no     *)
(* more.                                                                   *)
(***************************************************************************)
EXTENDS PriorityScale, Sequences, TLC

CONSTANTS
  Accounts,       \* account ids
  Start,          \* priorities the accounts begin with
  Now,            \* the present
  Interval,       \* between two cycles (PRIORITY_SYNC_INTERVAL)
  RecoveryTime,   \* recoveryDuration
  ExploreTime,    \* explorationDuration
  Window,         \* decisionWindow
  Grace,          \* costDegradationGrace
  Cooldown,       \* ChangeCooldown
  NoResultBackoff,\* recoveryNoResultBackoff
  ResetAfter,     \* recoveryFailureResetAfter
  Retention,      \* stateRetentionDuration
  Backoffs,       \* the tiers of recoveryBackoff
  Confirmations,  \* Config.Confirmations
  Cycles,         \* recoveryUnreliableObservationCycles
  ReliabilityStep,\* reliabilitySlowRampStep
  Environments,   \* what a behaviour may meet, by name (see Environment)
  Watched         \* accounts whose history is kept (see hist)

Never == -1
Stamps == Never..Now
Later == Never..(2 * Now)
None == 0   \* no account

WriteOutcome == {"ok", "failed", "lost"}
Costs == {"none", "short", "mature", "prior", "warm", "mixed"}

\* What a cycle can learn about an account.  listed: the snapshot has it, or
\* not, or the rules exclude it; cost: no cost, a measured cost of little or
\* mature weight, an estimate of little or much weight, or one of much weight
\* beside a measured cost; reeval: its history is
\* cheap; goal: the priority of its score; enough: recoveryMinimumSamples in the
\* window that counts; rate: low, mid (3%-8%) or high; five: that many trailing
\* failures; thin: fewer than MinSamples; fail, fifth, ok: the last failure, the
\* fifth last, the last priced success.
Evidence ==
  [listed : {"yes", "gone", "excluded"}, hard : BOOLEAN, cost : Costs,
   reeval : BOOLEAN, goal : Best..Poor, enough : BOOLEAN,
   rate : {"low", "mid", "high"}, five : BOOLEAN, thin : BOOLEAN,
   fail : Stamps, fifth : Stamps, ok : Stamps]

\* What an interval of traffic leaves of it; new: which of fail, fifth and ok
\* happened in that interval.
Kind ==
  [listed : {"yes", "gone", "excluded"}, hard : BOOLEAN, cost : Costs,
   reeval : BOOLEAN, goal : Best..Poor, enough : BOOLEAN,
   rate : {"low", "mid", "high"}, five : BOOLEAN, thin : BOOLEAN,
   new : SUBSET {"fail", "fifth", "ok"}]

\* The circumstances of a behaviour (bounds).  kinds: for each account, what an
\* interval of traffic may leave; outcomes: what a write may end in;
\* crashes: how often the process may die; explores: Config.ExplorationEnabled.
Environment(e) ==
  /\ DOMAIN e = {"kinds", "outcomes", "crashes", "explores"}
  /\ e.kinds \in [Accounts -> SUBSET Kind]
  /\ e.outcomes \subseteq WriteOutcome /\ "ok" \in e.outcomes
  /\ e.crashes \in Nat /\ e.explores \in BOOLEAN

ASSUME CycleAssumption ==
  /\ IsFiniteSet(Accounts) /\ Accounts \subseteq Nat \ {0}
  /\ Start \subseteq 1..Unavailable
  /\ \A t \in {Interval, RecoveryTime, ExploreTime, Window, Grace, Cooldown,
               NoResultBackoff, ResetAfter, Retention} : t \in Nat \ {0} /\ t < Now
  /\ Now \in Nat /\ Window + Grace <= Now
  /\ RecoveryTime <= Window /\ Window <= Retention
  /\ (Confirmations - 1) * Interval <= Now
  /\ Backoffs \in Seq(1..Now) /\ Len(Backoffs) > 0
  /\ \A n \in DOMAIN Backoffs : Backoffs[1] <= Backoffs[n]
  /\ Confirmations \in Nat \ {0} /\ Cycles \in Nat
  /\ ReliabilityStep \in Nat \ {0}
  /\ \A n \in DOMAIN Environments : Environment(Environments[n])
  /\ Watched \subseteq Accounts

VARIABLES
  env,     \* the name of the environment, chosen at the start
  prio,    \* accounts.priority, in the database of Sub2API
  ev,      \* the evidence its tables hold at this time
  st,      \* syncState.Accounts; the zero value stands for no entry
  lease,   \* syncState.Exploration; account None: no lease
  cursor,  \* syncState.ExplorationCursor
  disk,    \* the state file
  rec,     \* recommendations of this cycle
  left,    \* those applyRecommendations has not come to
  phase,   \* "idle" (a cycle is due), "applying" or "done" (until the next tick)
  hist,    \* history of each account, read by the properties only (History)
  crashes

memory  == <<st, lease, cursor>>
cycle   == <<rec, left, phase>>
vars == <<env, prio, ev, memory, disk, cycle, hist, crashes>>

Kinds       == Environments[env].kinds
Outcomes    == Environments[env].outcomes
MaxCrashes  == Environments[env].crashes
Exploration == Environments[env].explores

\* risen: the last write, if it was a step of a recovery that goes on; fell: the
\* last rollback; blamed: the failure it answered; dir, since: where every cycle
\* since then that proposed an ordinary adjustment, or none, has wanted the
\* account to go, up to the last write; high: since when every cycle has found
\* its failure rate high, a rollback being the start of a new observation.
History ==
  [risen : Stamps, fell : Stamps, blamed : Stamps, dir : {-1, 0, 1}, since : Stamps,
   high : Stamps]
NoHistory ==
  [risen |-> Never, fell |-> Never, blamed |-> Never, dir |-> 0, since |-> Never,
   high |-> Never]

NoState ==
  [cand |-> 0, count |-> 0, since |-> Never, seen |-> Never, applied |-> Never,
   explored |-> Never, failures |-> 0, failedAt |-> Never, original |-> 0,
   retryAt |-> Never, failSeen |-> Never, rolledAt |-> Never, highSince |-> Never]

AccountState ==
  [cand : 0..Unavailable, count : 0..Confirmations, since : Stamps, seen : Stamps,
   applied : Stamps, explored : Stamps, failures : 0..Len(Backoffs),
   failedAt : Stamps, original : 0..Unavailable, retryAt : Later,
   failSeen : Stamps, rolledAt : Stamps, highSince : Stamps]

NoLease ==
  [account |-> None, original |-> 0, started |-> Never, recovery |-> FALSE,
   target |-> 0, priority |-> 0, lastFail |-> Never]

Lease ==
  [account : Accounts \cup {None}, original : 0..Unavailable, started : Stamps,
   recovery : BOOLEAN, target : 0..Poor, priority : 0..Unavailable, lastFail : Stamps]

\* cur, want: the priority and the one recommended; anchor: that of the score, 0
\* without one; needed: a recovery is; atOnce: without confirmation.
Recommendation ==
  [cur : 1..Unavailable, want : 1..Unavailable, anchor : 0..Poor, reeval : BOOLEAN,
   needed : BOOLEAN, atOnce : BOOLEAN, start : BOOLEAN, end : BOOLEAN, done : BOOLEAN,
   outcome : {"", "success", "progress", "no-result", "failure", "unreliable"},
   trial : BOOLEAN, recovery : BOOLEAN, rollback : BOOLEAN]

TypeOK ==
  /\ env \in DOMAIN Environments
  /\ prio \in [Accounts -> 1..Unavailable]
  /\ ev \in [Accounts -> Evidence]
  /\ st \in [Accounts -> AccountState]
  /\ lease \in Lease
  /\ cursor \in Accounts \cup {None}
  /\ disk \in [st : [Accounts -> AccountState], lease : Lease, cursor : Accounts \cup {None}]
  /\ left \subseteq DOMAIN rec /\ DOMAIN rec \subseteq Accounts
  /\ \A a \in DOMAIN rec : rec[a] \in Recommendation
  /\ phase \in {"idle", "applying", "done"}
  /\ hist \in [Accounts -> History]
  /\ crashes \in 0..MaxCrashes

-----------------------------------------------------------------------------
(* Time and costs.                                                          *)

Since(t) == Now - t
Set(t) == t # Never
Latest(s, t) == Larger(s, t)
Blocked(t) == Set(t) /\ Now < t

Measured(e)  == e.cost \in {"short", "mature"}
Billed(e)    == Measured(e) \/ e.cost = "mixed"
Estimated(e) == e.cost \in {"prior", "warm", "mixed"}
Reliable(e)  == e.cost \in {"short", "mature", "warm", "mixed"}

Backoff(n) == Backoffs[Smaller(Larger(n, 1), Len(Backoffs))]

Holds(a) == lease.account = a
RecoveryOf(a) == Holds(a) /\ lease.recovery
Started == Set(lease.started)
Expired == ~Set(lease.started)
           \/ Since(lease.started) >= IF lease.recovery THEN RecoveryTime ELSE ExploreTime

-----------------------------------------------------------------------------
(* The evidence a cycle works with.                                         *)

\* An account the snapshot misses is known only by its recovery trial, which
\* then runs out without evidence (includeExpiredMissingRecovery).
Blank ==
  [listed |-> "gone", hard |-> FALSE, cost |-> "none", reeval |-> FALSE,
   goal |-> Neutral, enough |-> FALSE, rate |-> "low", five |-> FALSE,
   thin |-> TRUE, fail |-> Never, fifth |-> Never, ok |-> Never]

Shown(a) == IF ev[a].listed = "yes" THEN ev[a] ELSE Blank

Placeholder(a) == ev[a].listed = "gone" /\ RecoveryOf(a) /\ Expired
Listed == {a \in Accounts : ev[a].listed = "yes" \/ Placeholder(a)}
Excluded == {a \in Accounts : ev[a].listed = "excluded"}

-----------------------------------------------------------------------------
(* Reliability of an account (reliability.go).                              *)

RollbackBase(s) ==
  IF ~Set(s.rolledAt) /\ (~Set(s.failSeen) \/ s.failures > 0)
  THEN s.applied ELSE s.rolledAt

FailureBase(s) == IF Set(s.rolledAt) THEN s.rolledAt ELSE s.applied

HighSince(a) ==
  IF Shown(a).enough /\ Shown(a).rate = "high"
  THEN IF Set(st[a].highSince) THEN st[a].highSince ELSE Now
  ELSE Never

\* What the evidence calls for.  Only failures after the last rollback, and
\* after the start of the trial (base), count towards another rollback; only
\* failures not dealt with yet (handled) towards a pause.
HandledUpTo(a) ==
  IF Holds(a) THEN Latest(st[a].failSeen, Latest(lease.lastFail, lease.started))
  ELSE st[a].failSeen
CountedFrom(a) ==
  IF Holds(a) THEN Latest(RollbackBase(st[a]), lease.started) ELSE RollbackBase(st[a])

Verdict(a, e, s, base, handled) ==
  CASE e.five /\ e.fail > base /\ (e.fifth > base \/ ~Set(base)) -> "rollback"
    [] e.enough /\ e.rate = "high" ->
         IF /\ e.fail > base /\ (e.fifth > base \/ ~Set(s.rolledAt))
            /\ Since(HighSince(a)) >= Cycles * Interval
         THEN "rollback" ELSE "observe"
    [] e.enough /\ e.rate = "mid" -> "slow"
    [] ~e.enough /\ e.fail > handled -> "pause"
    [] OTHER -> "cost"
Assessment(a) == Verdict(a, Shown(a), st[a], CountedFrom(a), HandledUpTo(a))

CostMature(e, s) ==
  /\ e.cost = "mature"
  /\ ~Blocked(s.retryAt)
  /\ s.failures = 0 \/ (Set(FailureBase(s)) /\ Since(FailureBase(s)) >= Window)

-----------------------------------------------------------------------------
(* The recommendation of one account, in the order RunOnce makes it.        *)

\* scoreAccounts.
Current(a) == IF Placeholder(a) THEN lease.priority ELSE NormalizedPriority(prio[a])
Reevaluated(e, cur) == e.reeval /\ e.cost = "prior" /\ e.goal >= cur /\ cur > Best
Anchor(e, cur) ==
  IF e.hard \/ e.cost = "none" THEN 0
  ELSE IF Reevaluated(e, cur) THEN Larger(Best, cur - RampStep) ELSE e.goal
ScoreOf(e, cur) ==
  [cur |-> cur,
   want |-> IF e.hard THEN Unavailable ELSE IF Measured(e) THEN e.goal ELSE cur,
   anchor |-> Anchor(e, cur), reeval |-> Reevaluated(e, cur),
   needed |-> Estimated(e) /\ Anchor(e, cur) \in 1..(cur - 1),
   atOnce |-> e.hard, start |-> FALSE, end |-> FALSE, done |-> FALSE,
   outcome |-> "", trial |-> FALSE, recovery |-> FALSE, rollback |-> FALSE]
Scored(a) == ScoreOf(Shown(a), Current(a))

\* The first loop of prepareExploration: an account on its way back from a
\* recovery is not promoted by its score, nor during a back-off.
Graduated(a) ==
  /\ ~Holds(a) /\ st[a].original > 0
  /\ CostMature(Shown(a), st[a])
  /\ Set(st[a].applied) /\ Since(st[a].applied) >= Window
  /\ Assessment(a) = "cost" /\ Shown(a).enough /\ Shown(a).ok > st[a].applied

OnItsWay(s, r, done) == ~done /\ s.original > 0 /\ r.anchor \in 1..(r.cur - 1)
HeldBack(s, r, done) ==
  [r EXCEPT !.done = done, !.needed = @ \/ OnItsWay(s, r, done),
            !.want = IF OnItsWay(s, r, done) \/ (Blocked(s.retryAt) /\ @ < r.cur)
                     THEN r.cur ELSE @]
Held(a) ==
  IF Shown(a).hard THEN Scored(a) ELSE HeldBack(st[a], Scored(a), Graduated(a))

\* prepareActiveRecovery and prepareProgressiveRecovery.
RecoveryNext(a, r, over, fresh) ==
  LET e == Shown(a)
      better == r.anchor \in 1..(r.cur - 1) /\ ~Placeholder(a)
      next == IF Estimated(e) \/ Reliable(e)
              THEN RecoveryRamp(r.cur, r.anchor, e.rate = "low") ELSE r.cur
  IN CASE e.hard -> [over EXCEPT !.want = Unavailable, !.outcome = "failure"]
       [] ~e.hard /\ ~Expired -> [r EXCEPT !.want = r.cur]
       [] ~e.hard /\ Expired /\ e.enough /\ e.rate = "high" -> [over EXCEPT !.end = FALSE]
       [] ~e.hard /\ Expired /\ ~fresh /\ ~(e.enough /\ e.rate = "high") ->
            [over EXCEPT !.outcome = IF better THEN "progress" ELSE "no-result",
                         !.want = IF better THEN RecoveryRamp(r.cur, r.anchor, FALSE) ELSE @]
       [] ~e.hard /\ Expired /\ fresh /\ e.rate # "high" ->
            IF e.rate = "low" /\ CostMature(e, st[a])
            THEN [over EXCEPT !.want = r.anchor, !.done = TRUE, !.needed = FALSE,
                              !.outcome = "success", !.atOnce = FALSE]
            ELSE [over EXCEPT !.want = next, !.atOnce = next <= r.cur,
                              !.outcome = IF e.rate = "low" THEN "success" ELSE "progress"]
Over(r) == [r EXCEPT !.want = r.cur, !.atOnce = TRUE, !.end = TRUE]
OnTrial(h) ==
  [h EXCEPT !.trial = TRUE, !.recovery = TRUE, !.anchor = IF @ > 0 THEN @ ELSE lease.target]
RecoveryTrial(a, r) ==
  RecoveryNext(a, r, Over(r), Shown(a).enough /\ Shown(a).ok > lease.started)

\* The trial of an account without evidence at the exploration slot.
ExploreTrial(a, r) ==
  LET e == Shown(a)
      back == IF r.anchor > 0 THEN r.anchor ELSE NormalizedPriority(lease.original)
      there(to) == RampPriority(r.cur, to) = to
  IN CASE e.hard -> [r EXCEPT !.trial = TRUE, !.end = TRUE]
       [] ~e.hard /\ (Reliable(e) \/ ~e.thin) ->
            [r EXCEPT !.trial = TRUE, !.end = there(r.want)]
       [] ~e.hard /\ ~Reliable(e) /\ e.thin /\ Expired ->
            [r EXCEPT !.trial = TRUE, !.want = back, !.end = there(back)]
       [] OTHER -> [r EXCEPT !.trial = TRUE, !.want = Explore]

\* The start of a trial.
StartRecovery(a, r) ==
  [r EXCEPT !.want = IF st[a].original > r.cur THEN r.cur
                     ELSE RecoveryRamp(r.cur, r.anchor, Assessment(a) # "slow"),
            !.trial = TRUE, !.recovery = TRUE, !.start = TRUE, !.atOnce = TRUE]
StartExploring(r) ==
  [r EXCEPT !.want = Explore, !.trial = TRUE, !.start = TRUE, !.atOnce = TRUE]

\* prepareReliability, the last word on every recommendation.
RollbackTo(a, r) ==
  IF RecoveryOf(a) THEN Larger(r.cur, lease.original)
  ELSE Larger(IF st[a].original > r.cur THEN st[a].original
              ELSE Larger(r.cur, Smaller(Poor, r.cur + RampStep)),
              IF Holds(a) THEN lease.original ELSE 0)
SlowStep(r) ==
  IF r.recovery THEN RecoverySlowStep
  ELSE IF r.cur > Poor THEN RampStep ELSE ReliabilityStep

Answered(a, r, action) ==
  CASE action = "rollback" ->
         [r EXCEPT !.want = RollbackTo(a, r), !.recovery = TRUE, !.rollback = TRUE,
                   !.atOnce = TRUE, !.start = FALSE, !.end = Holds(a),
                   !.outcome = "unreliable", !.done = FALSE]
    [] action \in {"pause", "observe"} ->
         [r EXCEPT !.needed = FALSE, !.start = FALSE, !.want = Larger(@, r.cur), !.done = FALSE,
                   !.outcome = IF r.end /\ @ # "failure" THEN "no-result" ELSE @]
    [] action = "slow" ->
         [r EXCEPT !.want = IF @ < r.cur THEN Larger(@, r.cur - SlowStep(r)) ELSE @,
                   !.done = FALSE]
    [] OTHER -> r
BackedOff(s, r) ==
  IF Blocked(s.retryAt) /\ r.want < r.cur
  THEN [r EXCEPT !.want = r.cur, !.start = FALSE, !.needed = FALSE] ELSE r
\* A success counts as such only after a whole window without failures.
NotSoon(e, s, r) ==
  IF /\ r.outcome = "success" /\ s.failures > 0
     /\ \/ ~e.enough \/ e.rate # "low"
        \/ Set(FailureBase(s)) /\ Since(FailureBase(s)) < Window
  THEN [r EXCEPT !.outcome = "progress"] ELSE r
Reviewed(a, r) ==
  IF Shown(a).hard THEN [r EXCEPT !.done = FALSE]
  ELSE NotSoon(Shown(a), st[a], BackedOff(st[a], Answered(a, r, Assessment(a))))

\* selectRecoveryCandidate: the one explored longest ago, never first.  Among
\* equals the lower reference cost wins, which is any of them here.
Suspicious == {"pause", "observe", "rollback"}
Recoverable(a, r) ==
  /\ r.needed /\ r.anchor < r.cur /\ ~Shown(a).hard
  /\ Assessment(a) \notin Suspicious
  /\ ~Blocked(st[a].retryAt)
  /\ ~(/\ st[a].original = 0 /\ r.reeval
       /\ Set(st[a].explored) /\ Since(st[a].explored) < NoResultBackoff)
LongestAgo(wanted) == {a \in wanted : \A b \in wanted : st[a].explored <= st[b].explored}
RecoveryCandidates == LongestAgo({a \in Listed : Recoverable(a, Held(a))})

\* selectExplorationCandidate: the next id after the cursor, round robin.
Cold(a) ==
  /\ ~(Set(st[a].explored) /\ Since(st[a].explored) < ExploreTime)
  /\ Assessment(a) \notin Suspicious
  /\ ~Billed(Shown(a)) /\ Shown(a).thin /\ ~Shown(a).hard
  /\ Current(a) \in Neutral..(Unavailable - 1)
FromFirst(cold) == cold
AfterCursor(cold) ==
  LET after == {a \in cold : a > cursor}
  IN IF after # {} THEN after ELSE cold
First(ids) == {a \in ids : \A b \in ids : a <= b}
ExploreCandidates ==
  IF Exploration THEN First(AfterCursor({a \in Listed : Cold(a)})) ELSE {}

Free == lease.account = None \/ lease.account \in Excluded

Judged(a) ==
  IF ~Holds(a) THEN Held(a)
  ELSE IF lease.recovery THEN RecoveryTrial(a, OnTrial(Held(a)))
  ELSE ExploreTrial(a, Held(a))

-----------------------------------------------------------------------------
(* The cycle.                                                               *)

\* What a cycle adds to the history of an account.
Witnessed(a, r) ==
  LET dir  == Direction(r.cur, r.want)
      same == r.atOnce \/ hist[a].dir = dir
  IN [hist[a] EXCEPT !.dir = IF r.atOnce THEN @ ELSE dir,
                     !.since = IF same THEN @ ELSE Now,
                     !.high = IF Shown(a).enough /\ Shown(a).rate = "high"
                              THEN IF Set(@) THEN @ ELSE Now ELSE Never]

\* filterExcludedAccounts forgets what it leaves out.
Kept == [a \in Accounts |-> IF a \in Excluded THEN NoState ELSE st[a]]
Remembered == [a \in Accounts |-> IF a \in Excluded THEN NoHistory ELSE hist[a]]

\* RunOnce up to applyRecommendations.
Prepare(starts) ==
  /\ rec' = [a \in Listed |-> Reviewed(a, IF a \in DOMAIN starts THEN starts[a] ELSE Judged(a))]
  /\ left' = Listed
  /\ phase' = "applying"
  /\ st' = Kept
  /\ lease' = IF \/ lease.account \in Excluded
                 \/ /\ lease.account # None /\ lease.account \notin Listed
                    /\ Listed # {} /\ ~lease.recovery /\ Expired
              THEN NoLease ELSE lease
  /\ hist' = [a \in Accounts |-> IF a \in Listed \cap Watched THEN Witnessed(a, rec'[a])
                                 ELSE Remembered[a]]
  /\ UNCHANGED <<env, prio, ev, cursor, disk, crashes>>

\* The trial slot is given to a recovery, else to an exploration, else to none.
Starts(recoveries, explorations) ==
  IF recoveries # {} THEN {[b \in {a} |-> StartRecovery(b, Held(b))] : a \in recoveries}
  ELSE IF explorations # {}
  THEN {[b \in {a} |-> StartExploring(Held(b))] : a \in explorations}
  ELSE {<<>>}

Load ==
  /\ phase = "idle"
  /\ \E starts \in IF Free THEN Starts(RecoveryCandidates, ExploreCandidates) ELSE {<<>>} :
       Prepare(starts)

\* The database cannot be read, or not the evidence of the running trial: the
\* cycle ends at once.
LoadFails ==
  /\ phase = "idle" /\ "failed" \in Outcomes
  /\ phase' = "done"
  /\ \/ UNCHANGED <<st, hist>>
     \/ /\ lease.recovery /\ lease.account \notin Excluded
        /\ st' = Kept /\ hist' = Remembered
  /\ UNCHANGED <<env, prio, ev, lease, cursor, disk, rec, left, crashes>>

-----------------------------------------------------------------------------
(* What applyRecommendations does to the state of an account.               *)

\* A rollback answers the failures up to now and starts a new observation.
RolledBlind(s, e) == [s EXCEPT !.highSince = Now]
Rolled(s, e) ==
  [s EXCEPT !.rolledAt = IF Set(e.fail) THEN e.fail ELSE Now, !.highSince = Now]

\* recordReliabilityObservation: what this cycle saw has been dealt with, and
\* a whole window without failures clears the back-off.
Noticed(s, e) ==
  [s EXCEPT !.rolledAt = RollbackBase(s), !.failSeen = Latest(@, e.fail),
            !.highSince = IF e.enough /\ e.rate = "high"
                          THEN IF Set(@) THEN @ ELSE Now ELSE Never]
Clean(s) == [s EXCEPT !.failures = 0, !.failedAt = Never, !.retryAt = Never]
Proven(s, e, base) ==
  /\ s.failures > 0 \/ Set(s.retryAt)
  /\ Set(base) /\ Since(base) >= Window
  /\ e.enough /\ e.rate = "low" /\ e.ok > base
Settled(s, e, r) ==
  IF r.rollback THEN Rolled(s, e)
  ELSE IF Proven(s, e, FailureBase(s)) THEN Clean(s) ELSE s
Observed(s, a, r) ==
  LET seen == Settled(Noticed(s, Shown(a)), Shown(a), r)
  IN IF r.done THEN [Clean(seen) EXCEPT !.original = 0] ELSE seen

Forget(s) == [s EXCEPT !.cand = 0, !.count = 0, !.since = Never]

\* A committed write.
Committed(s, a, r) == [Forget(Observed(s, a, r)) EXCEPT !.applied = Now]

\* recordRecoveryOutcome, with the tier of the back-off.
Judgement(s, outcome) ==
  LET n == IF Set(s.failedAt) /\ Since(s.failedAt) >= ResetAfter
           THEN 1 ELSE Smaller(s.failures + 1, Len(Backoffs))
  IN CASE outcome \in {"unreliable", "failure"} ->
            [s EXCEPT !.failures = n, !.failedAt = Now, !.retryAt = Now + Backoff(n)]
       [] outcome = "progress" -> [s EXCEPT !.retryAt = Never]
       [] outcome = "success" ->
            [s EXCEPT !.failures = 0, !.failedAt = Never, !.retryAt = Never]
       [] outcome = "no-result" -> [s EXCEPT !.retryAt = Now + RecoveryTime]
       [] outcome = "" -> s

\* Mutant: the origin stays where the recovery began.
FinishedWhole(s, r) ==
  IF lease.recovery /\ ~r.done THEN Judgement(s, r.outcome) ELSE s

\* finishExploration.
Finished(s, r) ==
  IF lease.recovery /\ ~r.done
  THEN Judgement(IF r.want < r.cur THEN [s EXCEPT !.original = r.cur] ELSE s, r.outcome)
  ELSE s

Ends(a, r) == r.trial /\ Holds(a) /\ r.end

\* The candidate bookkeeping of an ordinary adjustment.
NotedAnyWay(s, r) ==
  [s EXCEPT !.cand = r.want, !.count = Smaller(@ + 1, Confirmations),
            !.since = IF Set(@) THEN @ ELSE Now]
Noted(s, r) ==
  LET same == s.count > 0 /\ Direction(r.cur, s.cand) = Direction(r.cur, r.want)
  IN [s EXCEPT !.cand = r.want, !.count = IF same THEN Smaller(@ + 1, Confirmations) ELSE 1,
               !.since = IF same /\ Set(@) THEN @ ELSE Now]

\* A dearer account is lowered only when it stayed so for the grace period and
\* was used again after it.
InGrace(s, a, r) ==
  LET e == Shown(a)
      used == IF Billed(e) THEN e.ok ELSE Never
  IN /\ Direction(r.cur, r.want) > 0 /\ Reliable(e)
     /\ Since(s.since) < Grace \/ ~Set(used) \/ used < s.since + Grace

CoolingDown(s, a, r) ==
  /\ ~(r.trial /\ Holds(a)) \/ r.done
  /\ Set(s.applied) /\ Since(s.applied) < Cooldown

-----------------------------------------------------------------------------
(* applyRecommendations, account by account in the order of their priority, *)
(* with the outcome of the write if there is one.  Its deferral of promotions *)
(* without a reliable cost never applies: scoreAccounts proposes none.      *)

Turn(a) ==
  /\ phase = "applying" /\ a \in left
  /\ \A b \in left : rec[a].want <= rec[b].want
  /\ left' = left \ {a}
  /\ UNCHANGED <<env, ev, disk, rec, phase, crashes>>

SeenNow(a) == [st[a] EXCEPT !.seen = Now]
Becomes(a, s) == st' = [st EXCEPT ![a] = s]

\* What a write adds to it.
Recorded(a, r, priority) ==
  [hist[a] EXCEPT !.dir = 0, !.since = Now,
                  !.risen = IF r.trial /\ r.recovery /\ ~r.done /\ priority < r.cur
                            THEN Now ELSE Never,
                  !.fell = IF r.rollback THEN Now ELSE @,
                  !.blamed = IF r.rollback THEN Shown(a).fail ELSE @,
                  !.high = IF r.rollback THEN Now ELSE @]

\* PUT /admin/accounts/:id.  A lost answer is an error although the write is in.
Put(a, priority, outcome) ==
  LET arrived == outcome # "failed"
  IN /\ outcome \in Outcomes
     /\ prio' = IF arrived THEN [prio EXCEPT ![a] = priority] ELSE prio
     /\ hist' = IF arrived /\ a \in Watched
                THEN [hist EXCEPT ![a] = Recorded(a, rec[a], priority)] ELSE hist
NoPut(outcome) == outcome = "ok" /\ UNCHANGED <<prio, hist>>

\* A trial starts: the lease is taken only when its write has succeeded.
Begun(s, r) ==
  [s EXCEPT !.explored = Now, !.original = IF r.recovery /\ r.want # r.cur THEN r.cur ELSE @]
\* A recovery that goes on from a step written before keeps its origin and time.
NewLease(a, r, s) ==
  LET resumed == r.recovery /\ s.original > r.cur
  IN [account |-> a,
      original |-> IF resumed THEN s.original ELSE r.cur,
      started |-> IF resumed /\ Set(s.applied) THEN s.applied ELSE Now,
      recovery |-> r.recovery, target |-> r.anchor, priority |-> r.want,
      lastFail |-> IF r.recovery THEN Shown(a).fail ELSE Never]

ApplyStart(a, outcome) ==
  LET r == rec[a]
  IN /\ Turn(a) /\ r.start
     /\ IF r.want # r.cur THEN Put(a, r.want, outcome) ELSE NoPut(outcome)
     /\ IF outcome = "ok"
        THEN /\ Becomes(a, Begun(IF r.want # r.cur THEN Committed(SeenNow(a), a, r)
                                 ELSE Observed(SeenNow(a), a, r), r))
             /\ lease' = NewLease(a, r, st'[a])
             /\ cursor' = a
        ELSE Becomes(a, SeenNow(a)) /\ UNCHANGED <<lease, cursor>>

\* Nothing to write: the observation is committed, a trial may end.
ApplySame(a) ==
  LET r == rec[a]
      s == Forget(Observed(SeenNow(a), a, r))
  IN /\ Turn(a) /\ ~r.start /\ r.want = r.cur
     /\ Becomes(a, IF Ends(a, r) THEN Finished(s, r)
                   ELSE IF r.rollback THEN Judgement(s, r.outcome) ELSE s)
     /\ lease' = IF Ends(a, r) THEN NoLease ELSE lease
     /\ UNCHANGED <<prio, cursor, hist>>

\* Hard exclusion, a recovery step, a rollback: written without confirmation.
ApplyAtOnce(a, outcome) ==
  LET r == rec[a]
      s == Committed(SeenNow(a), a, r)
  IN /\ Turn(a) /\ ~r.start /\ r.want # r.cur /\ r.atOnce
     /\ Put(a, r.want, outcome)
     /\ UNCHANGED cursor
     /\ IF outcome = "ok"
        THEN /\ Becomes(a, IF Ends(a, r) THEN Finished(s, r)
                           ELSE IF r.recovery THEN Judgement(s, r.outcome) ELSE s)
             /\ lease' = IF Ends(a, r) THEN NoLease ELSE lease
        ELSE Becomes(a, SeenNow(a)) /\ UNCHANGED lease

\* An ordinary adjustment: grace, confirmations, cool-down, then one ramp step.
ApplyStep(a, outcome) ==
  LET r == rec[a]
      n == Noted(SeenNow(a), r)
      s == Committed(n, a, r)
  IN /\ Turn(a) /\ ~r.start /\ r.want # r.cur /\ ~r.atOnce
     /\ UNCHANGED cursor
     /\ \/ /\ InGrace(n, a, r) /\ NoPut(outcome)
           /\ Becomes(a, Observed(n, a, [r EXCEPT !.done = FALSE]))
           /\ UNCHANGED lease
        \/ /\ ~InGrace(n, a, r)
           /\ n.count < Confirmations \/ CoolingDown(n, a, r)
           /\ NoPut(outcome)
           /\ Becomes(a, n)
           /\ UNCHANGED lease
        \/ /\ ~InGrace(n, a, r)
           /\ n.count >= Confirmations /\ ~CoolingDown(n, a, r)
           /\ Put(a, RampPriority(r.cur, r.want), outcome)
           /\ IF outcome = "ok"
              THEN /\ Becomes(a, IF Ends(a, r) THEN Finished(s, r) ELSE s)
                   /\ lease' = IF Ends(a, r) THEN NoLease ELSE lease
              ELSE Becomes(a, n) /\ UNCHANGED lease

Apply(a, outcome) ==
  \/ ApplyStart(a, outcome) \/ ApplyAtOnce(a, outcome) \/ ApplyStep(a, outcome)
  \/ outcome = "ok" /\ ApplySame(a)

\* pruneAccountState, then saveState; a failed save only ends the cycle.  When
\* no crash is left that could read the file, it need not be followed.
Pruned ==
  [a \in Accounts |->
     IF /\ Set(st[a].seen) /\ Since(st[a].seen) >= Retention
        /\ ~Holds(a) \/ Expired
     THEN NoState ELSE st[a]]

Save(outcome) ==
  /\ phase = "applying" /\ left = {}
  /\ outcome \in Outcomes \cap {"ok", "failed"}
  /\ st' = Pruned
  /\ disk' = IF outcome = "ok" /\ crashes < MaxCrashes
             THEN [st |-> Pruned, lease |-> lease, cursor |-> cursor] ELSE disk
  /\ phase' = "done"
  /\ rec' = <<>>
  /\ UNCHANGED <<env, prio, ev, lease, cursor, left, hist, crashes>>

\* The process dies and starts again with the state file; main runs a cycle
\* before it waits for the ticker.
Crash ==
  /\ crashes < MaxCrashes
  /\ crashes' = crashes + 1
  /\ st' = disk.st /\ lease' = disk.lease /\ cursor' = disk.cursor
  /\ phase' = "idle" /\ rec' = <<>> /\ left' = {}
  /\ UNCHANGED <<env, prio, ev, disk, hist>>

-----------------------------------------------------------------------------
(* An interval passes, and with it the traffic of every account.            *)

Aged(t) == IF t <= 0 THEN t ELSE Larger(0, t - Interval)
AgedState(s) ==
  [s EXCEPT !.since = Aged(@), !.seen = Aged(@), !.applied = Aged(@),
            !.explored = Aged(@), !.failedAt = Aged(@), !.retryAt = Aged(@),
            !.failSeen = Aged(@), !.rolledAt = Aged(@), !.highSince = Aged(@)]
AgedLease(l) == [l EXCEPT !.started = Aged(@), !.lastFail = Aged(@)]
InWindow(t) == IF t < Now - Window THEN Never ELSE t

\* The evidence an interval of kind k leaves for account a.
Left(a, k) ==
  [listed |-> k.listed, hard |-> k.hard, cost |-> k.cost, reeval |-> k.reeval,
   goal |-> k.goal, enough |-> k.enough, rate |-> k.rate, five |-> k.five, thin |-> k.thin,
   fail  |-> IF "fail" \in k.new THEN Now - 1 ELSE InWindow(Aged(ev[a].fail)),
   fifth |-> IF "fifth" \in k.new THEN Now - 1 ELSE Aged(ev[a].fifth),
   ok    |-> IF "ok" \in k.new THEN Now - 1 ELSE InWindow(Aged(ev[a].ok))]

\* Counts and times that one set of tables can show together: more than 8% of
\* at least 50 requests is at least five failures in that window.
Consistent(a, e) ==
  LET from == IF RecoveryOf(a) THEN Aged(lease.started) ELSE Now - Window - 1
  IN /\ e.five => Set(e.fifth)
     /\ e.enough => ~e.thin
     /\ e.enough /\ e.rate # "low" => e.fail > from
     /\ e.enough /\ e.rate = "high" => e.fifth > from
     /\ Billed(e) => Set(e.ok)
     /\ e.fifth <= e.fail \/ ~Set(e.fail)

Tick ==
  /\ phase = "done"
  /\ phase' = "idle"
  /\ \E k \in [Accounts -> UNION {Kinds[b] : b \in Accounts}] :
       /\ \A a \in Accounts : k[a] \in Kinds[a] /\ Consistent(a, Left(a, k[a]))
       /\ ev' = [a \in Accounts |-> Left(a, k[a])]
  /\ st' = [a \in Accounts |-> AgedState(st[a])]
  /\ lease' = AgedLease(lease)
  /\ disk' = [disk EXCEPT !.st = [a \in Accounts |-> AgedState(@[a])],
                          !.lease = AgedLease(@)]
  /\ hist' = [a \in Accounts |->
                [hist[a] EXCEPT !.risen = Aged(@), !.fell = Aged(@), !.blamed = Aged(@),
                                !.since = Aged(@), !.high = Aged(@)]]
  /\ UNCHANGED <<env, prio, cursor, rec, left, crashes>>

-----------------------------------------------------------------------------
\* A first start, with no state file and no traffic yet.
Init ==
  /\ env \in DOMAIN Environments
  /\ prio \in [Accounts -> Start]
  /\ ev = [a \in Accounts |-> [Blank EXCEPT !.listed = "yes"]]
  /\ st = [a \in Accounts |-> NoState]
  /\ lease = NoLease /\ cursor = None
  /\ disk = [st |-> st, lease |-> lease, cursor |-> cursor]
  /\ rec = <<>> /\ left = {} /\ phase = "idle"
  /\ hist = [a \in Accounts |-> NoHistory]
  /\ crashes = 0

Next ==
  \/ Load \/ LoadFails \/ Crash \/ Tick
  \/ \E a \in Accounts, o \in WriteOutcome : Apply(a, o)
  \/ \E o \in {"ok", "failed"} : Save(o)

Spec == Init /\ [][Next]_vars

(***************************************************************************)
(* The ticker runs a cycle every interval; an account's writes do not fail  *)
(* for ever, nor do the reads and saves.                                    *)
(***************************************************************************)
Written(a) == ApplyStart(a, "ok") \/ ApplyAtOnce(a, "ok") \/ ApplyStep(a, "ok")
Fairness ==
  /\ SF_vars(Load) /\ WF_vars(Tick) /\ SF_vars(Save("ok"))
  /\ WF_vars(\E a \in Accounts : ApplySame(a))
  /\ \A a \in Accounts : SF_vars(Written(a))

FairSpec == Spec /\ Fairness

-----------------------------------------------------------------------------
(* Properties.  A step that moves prio[a] is a write of rec[a].             *)

Moves(a) == prio'[a] # prio[a]
RollsBack(a) == Moves(a) /\ rec[a].rollback
RisesBack(a) == Moves(a) /\ rec[a].trial /\ rec[a].recovery /\ prio'[a] < prio[a]
Ordinary(a)  == Moves(a) /\ ~rec[a].atOnce

\* The process has lived since its start, and no write got in without an answer.
Undisturbed == crashes = 0 /\ "lost" \notin Outcomes

\* The same failures never roll an account back twice: between two rollbacks it
\* has failed again (priority-sync/README.md:51, 55), unless the process died
\* between the write and the save.
RollbackNeedsNewFailure ==
  [][\A a \in Watched : RollsBack(a) /\ Undisturbed => Shown(a).fail > hist[a].blamed]_vars

\* A high failure rate alone rolls back again only after the observation that
\* follows a rollback (README.md:51).
RollbacksSpaced ==
  [][\A a \in Watched :
       RollsBack(a) /\ ~Shown(a).five /\ Set(hist[a].fell) /\ Undisturbed =>
         Since(hist[a].fell) >= Cycles * Interval]_vars

\* A rollback is earned by new failures and, unless they are five in a row, by a
\* failure rate that stays high.
RollbacksAreEarned == RollbackNeedsNewFailure /\ RollbacksSpaced

\* A rollback out of a recovery trial undoes one step of the recovery, not more
\* (README.md:51), however many leases and steps the recovery took.
RollbackUndoesOneStep ==
  [][\A a \in Watched : RollsBack(a) /\ RecoveryOf(a) /\ Undisturbed /\ ~Exploration =>
       prio'[a] - prio[a] <= RecoveryStep]_vars

\* A high failure rate rolls back only if it has lasted: every cycle of the
\* observation time found it high (README.md:51).  It does not hold: a healthy
\* cycle whose adjustment waits does not end the observation (runner.go:791).
OnlyLastingRateRollsBack ==
  [][\A a \in Watched : RollsBack(a) /\ ~Shown(a).five =>
       Set(hist[a].high) /\ Since(hist[a].high) >= Cycles * Interval]_vars

\* Every step of a recovery is observed before the next one (README.md:51-53).
EveryStepObserved ==
  [][\A a \in Watched : RisesBack(a) /\ Set(hist[a].risen) =>
       Since(hist[a].risen) >= RecoveryTime]_vars

\* So it is while the process lives: neither reads, writes nor saves that fail
\* let a step be taken before its time.
StepsObservedWhileUp ==
  [][\A a \in Watched : RisesBack(a) /\ Set(hist[a].risen) /\ Undisturbed =>
       Since(hist[a].risen) >= RecoveryTime]_vars

\* Every rollback begins a round of back-off (README.md:55).  It does not hold:
\* the end of an exploration begins none (runner.go:874).
RollbackBacksOff ==
  [][\A a \in Watched : RollsBack(a) /\ Undisturbed => Blocked(st[a].retryAt)']_vars

\* After a rollback nothing promotes the account before the first tier of the
\* back-off is over, whichever of the ways of promotion it would take, but for
\* healthy evidence (README.md:55): the failures it answered are a window old.
QuietAfterRollback ==
  [][\A a \in Watched :
       Moves(a) /\ prio'[a] < prio[a] /\ Set(hist[a].fell) /\ Undisturbed /\ ~Exploration =>
         Since(hist[a].fell) >= Backoffs[1] \/ Since(hist[a].blamed) >= Window]_vars

\* A rollback is earned, is of one step and is followed by quiet.
RollbacksAreSound == RollbacksAreEarned /\ RollbackUndoesOneStep /\ QuietAfterRollback

\* An ordinary adjustment was wanted, in this direction, by every cycle since it
\* came up that proposed one or none; a dearer account had its grace period.
OrdinaryWritesAreEarned ==
  [][\A a \in Watched : Ordinary(a) /\ Undisturbed =>
       /\ hist[a].dir = Direction(prio[a], prio'[a])
       /\ Since(hist[a].since) >= (Confirmations - 1) * Interval
       /\ prio'[a] > prio[a] /\ Reliable(Shown(a)) => Since(hist[a].since) >= Grace]_vars

\* A trial comes to its end, so that the next account gets the slot: lack of
\* traffic, a missing account or a failure rate that stays high do not hold it.
TrialsEnd == \A a \in Accounts : Holds(a) ~> ~Holds(a)

\* Accounts without evidence take turns at the exploration slot: none that stays
\* without evidence is passed over for ever (runner.go:607-608).
TurnsComeRound ==
  \A a \in Accounts : []<>(Holds(a) \/ ~(Exploration /\ a \in Listed /\ Cold(a)))

\* The one slot for trials goes from account to account.
SlotIsShared == TrialsEnd /\ TurnsComeRound

=============================================================================
