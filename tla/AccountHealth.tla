------------------------------ MODULE AccountHealth ------------------------------
(***************************************************************************)
(* What monitoring concludes about one account (monitor/cycle.go,          *)
(* store/alerts.go, store/targets.go): which evidence counts, whether a    *)
(* recovery probe is allowed and due, the streaks of the alerts and the    *)
(* watermark of a change of source.                                        *)
(*                                                                         *)
(* Stamps are integers, the present is Now.  Never is SQL's NULL and Go's  *)
(* nil; it is below every stamp.  The jitter of probe intervals is left    *)
(* out, and counters stop at the largest value they are compared with.     *)
(***************************************************************************)
EXTENDS Integers, Sequences

CONSTANTS
  Now,                \* the present
  Interval,           \* between two cycles (MONITORING_INTERVAL)
  Grace,              \* SourceUpdateActivityGrace
  Tiers,              \* retry intervals of failing probes, shortest first
  IdleFloor,          \* idleRecoveryProbeInterval
  IdleAfter,          \* idleActivityWindow
  ErrorWindow,        \* how long a row of ops_error_logs is read
  FailureThreshold,   \* MONITORING_FAILURE_THRESHOLD
  RecoveryThreshold   \* MONITORING_RECOVERY_THRESHOLD

ASSUME HealthAssumption ==
  /\ {Interval, Grace, IdleFloor, IdleAfter, ErrorWindow,
      FailureThreshold, RecoveryThreshold} \subseteq Nat \ {0}
  /\ Now \in Nat
  /\ Tiers \in Seq(1..Now) /\ Len(Tiers) > 0
  /\ \A i, j \in DOMAIN Tiers : i < j => Tiers[i] < Tiers[j]
  /\ Interval < Now /\ IdleFloor < Now /\ IdleAfter < Now /\ ErrorWindow < Now

\* Below the stamps an account may have: there are 13, and no two that follow each
\* other are kept farther apart than Grace + 1 (MonitorCycle, Age).
Never == -14 * (Grace + 1)

Larger(s, t) == IF s > t THEN s ELSE t
Smaller(s, t) == IF s < t THEN s ELSE t
Near(s, t) == s # Never /\ t # Never /\ s - t <= Grace /\ t - s <= Grace

-----------------------------------------------------------------------------
(* An account as the snapshot shows it: the last billed request and whether  *)
(* it was slow, the last unresolved channel error, the last probe, how far   *)
(* requests and errors have been observed, the last change of source and the *)
(* failure streak.                                                          *)

Failing(status) == status \in {"failed", "config"}
Successful(status) == status \in {"operational", "degraded"}

\* Evidence from before a change of source does not count (evidenceTimeValid).
Valid(t, src) == t # Never /\ (src = Never \/ t >= src - Grace)

\* latestAccountEvidence.
NoEvidence == [source |-> "none", status |-> "none", at |-> Never]
OfRequest(s) ==
  IF Valid(s.act, s.src)
  THEN [source |-> "history", at |-> s.act,
        status |-> IF s.slow THEN "degraded" ELSE "operational"]
  ELSE NoEvidence
WithProbe(e, s) ==
  IF Valid(s.probe.at, s.src) /\ s.probe.at > e.at
  THEN [source |-> "probe", at |-> s.probe.at, status |-> s.probe.status] ELSE e
WithError(e, s) ==
  IF Valid(s.err, s.src) /\ s.err >= e.at
  THEN [source |-> "request_error", at |-> s.err, status |-> "failed"] ELSE e
Evidence(s) == WithError(WithProbe(OfRequest(s), s), s)

OnlyNewErrors(s) == Valid(s.err, s.src) /\ s.err > s.probe.at
\* probeEligible: only a recorded channel error justifies a request.
Eligible(s) ==
  /\ Valid(s.err, s.src)
  /\ s.err > s.probe.at \/ Failing(s.probe.status)

AnyNewError(s) == s.err > s.probe.at
\* recoveryProbeImmediate.
Immediate(s) ==
  /\ s.err > s.probe.at
  /\ \/ s.probe.at = Never
     \/ ~Failing(s.probe.status) /\ \/ s.src # Never /\ s.src - s.probe.at > Grace
                                    \/ Now - s.probe.at >= Tiers[1]

\* probeRetryInterval and probeRetryDelayForAccount.
Tier(streak) == Tiers[Larger(1, Smaller(streak, Len(Tiers)))]
Retry(s) == Larger(Interval, IF s.probe.status = "config" THEN Tiers[Len(Tiers)] ELSE Tier(s.streak))
Idle(s) == s.act = Never \/ Now - s.act >= IdleAfter
Delay(s) == IF Idle(s) THEN Larger(Retry(s), IdleFloor) ELSE Retry(s)

Due(s) == Immediate(s) \/ s.probe.at = Never \/ Now - s.probe.at >= Delay(s)

\* newCycleBatch, for one account.
ToProbe(s) == ~Successful(Evidence(s).status) /\ Eligible(s) /\ Due(s)
NewRequest(s) == Evidence(s).source = "history" /\ s.act > s.obsAct
AnyError(s) == Evidence(s).source = "request_error"
NewError(s) == Evidence(s).source = "request_error" /\ s.err > s.obsErr
ToObserve(s) == NewRequest(s) \/ NewError(s)

-----------------------------------------------------------------------------
(* The alert state of a target.                                             *)

NoAlert == [failures |-> 0, recoveries |-> 0, alerted |-> "none", at |-> Never]
MostFailures == Larger(FailureThreshold, Len(Tiers))

\* alertStateCurrentForSource.
Current(state, src, act) == src = Never \/ src = act \/ state.at >= src

Fails(state, status) ==
  Failing(status) /\ state.failures + 1 >= FailureThreshold /\ state.alerted # "failed"
Heals(state, status) ==
  /\ status = "operational"
  /\ state.recoveries + 1 >= RecoveryThreshold /\ state.alerted = "failed"

\* alertState.observe, and the event it returns.
Event(state, status) ==
  CASE Fails(state, status) -> "failed"
    [] Heals(state, status) -> "operational"
    [] OTHER -> "none"
Alerted(state, status) ==
  IF Event(state, status) = "none" THEN state.alerted ELSE Event(state, status)
Observe(state, status) ==
  [alerted    |-> Alerted(state, status),
   failures   |-> IF Failing(status) THEN Smaller(state.failures + 1, MostFailures) ELSE 0,
   recoveries |-> IF status = "operational"
                  THEN Smaller(state.recoveries + 1, RecoveryThreshold) ELSE 0,
   at         |-> Now]

-----------------------------------------------------------------------------
(* The watermark of a change of source.                                     *)

\* effectiveSourceUpdatedAt: a write of the account that only accounts for a
\* request is dated like the request.
Effective(upd, act) == IF Near(upd, act) THEN act ELSE upd

\* resolveTargetSourceUpdatedAt.  row: the monitored target, if there is one.
SourceAt(known, row, identity, candidate) ==
  IF known /\ row.identity = identity THEN row.src ELSE candidate
=============================================================================
