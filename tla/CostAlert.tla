------------------------------- MODULE CostAlert -------------------------------
(***************************************************************************)
(* The cost alerts of monitoring (monitor/cost.go, store/cost_alert*.go):  *)
(* once a cycle the rules are evaluated, the state of every incident and   *)
(* the notifications it calls for are committed, one mail with all of them *)
(* is sent, and another transaction takes back what was not sent or closes *)
(* the incidents whose recovery was.                                       *)
(*                                                                         *)
(* Time is relative: the present is Now, and stamps get smaller as time    *)
(* passes, down to 0, "longer ago than anything compared with it".         *)
(*                                                                         *)
(* Left out: rules of older versions, the texts of mails, the start of an  *)
(* incident (only shown), the table of sent alerts (only written), and     *)
(* pruning, which is much slower than any incident.                        *)
(***************************************************************************)
EXTENDS Integers

CONSTANTS
  Rules,         \* alert keys: a rule for one user and API key
  Now,           \* the present
  Interval,      \* between two cycles (MONITORING_INTERVAL)
  Window,        \* MONITORING_COST_WINDOW
  Cooldown,      \* MONITORING_COST_COOLDOWN
  Environments   \* what a behaviour may meet, by name (see Environment)

Never == -1
Stamps == Never..Now

\* What a rule finds, and what a mail says about it.
Costs == {"normal", "warning", "critical"}
Notices == {"start", "reminder", "escalation", "recovery"}
\* A mail is accepted or not; or it is accepted, and the end of the SMTP
\* session fails.
MailOutcomes == {"ok", "failed", "lost"}

\* The circumstances of a behaviour (bounds).  costs: what each rule may find;
\* mail: how sending may end; crashes: how often the process may die.
Environment(e) ==
  /\ DOMAIN e = {"costs", "mail", "crashes"}
  /\ e.costs \in [Rules -> SUBSET Costs]
  /\ \A k \in Rules : "normal" \in e.costs[k]
  /\ "ok" \in e.mail /\ e.mail \subseteq MailOutcomes
  /\ e.crashes \in Nat

ASSUME CostAssumption ==
  /\ {Interval, Window, Cooldown} \subseteq Nat \ {0}
  /\ Now \in Nat /\ 2 * Window + Interval < Now /\ Cooldown < Now
  /\ \A n \in DOMAIN Environments : Environment(Environments[n])

VARIABLES
  env,     \* the name of the environment
  cost,    \* what each rule would find now
  row,     \* monitoring_cost_alert_states
  events,  \* the notifications of this cycle, by rule
  phase,   \* "idle" (due), "mail", "accepted", "refused" or "rest" (cycle over)
  told,    \* history: rules whose last accepted mail was not a recovery
  opened,  \* history: was the start of the incident told?
  said,    \* history: when a mail about the rule was last tried
  high,    \* history: when the rule was last seen abnormal
  crashes

vars == <<env, cost, row, events, phase, told, opened, said, high, crashes>>

\* Was the start of the last incident accepted?  "slipped": not, and the
\* process died or failed to take the notification back.
Openings == {"no", "yes", "slipped"}

Row == [active : BOOLEAN, last : Stamps, normal : Stamps,
        severity : Costs, pending : BOOLEAN]
NoRow == [active |-> FALSE, last |-> Never, normal |-> Never,
          severity |-> "normal", pending |-> FALSE]

TypeOK ==
  /\ env \in DOMAIN Environments
  /\ cost \in [Rules -> Costs]
  /\ row \in [Rules -> Row]
  /\ DOMAIN events \subseteq Rules /\ \A k \in DOMAIN events : events[k] \in Notices
  /\ phase \in {"idle", "mail", "accepted", "refused", "rest"}
  /\ told \subseteq Rules
  /\ opened \in [Rules -> Openings]
  /\ said \in [Rules -> Stamps] /\ high \in [Rules -> Stamps]
  /\ crashes \in 0..Environments[env].crashes

-----------------------------------------------------------------------------
(* One incident.                                                            *)

CooledDown(r) == r.last = Never \/ Now - r.last >= Cooldown

\* observeCostAlert: the rule finds severity c.
NoticeOf(r, c) ==
  CASE ~r.active -> "start"
    [] r.active /\ r.severity # "critical" /\ c = "critical" -> "escalation"
    [] r.active /\ (r.severity = "critical" \/ c # "critical") /\ CooledDown(r) -> "reminder"
    [] OTHER -> "none"

Abnormal(r) == [r EXCEPT !.normal = Never, !.pending = FALSE]
Observed(r, c) ==
  [Abnormal(r) EXCEPT !.active = TRUE, !.severity = c,
                      !.last = IF NoticeOf(r, c) = "none" THEN @ ELSE Now]

Pending(r) == r.pending
StampsNextMail(r) == [r EXCEPT !.pending = TRUE, !.last = Now + Cooldown]

\* prepareCostAlertRecovery: the rule finds nothing.
Waits(r) == r.pending /\ ~CooledDown(r)
Recovers(r) ==
  /\ r.active /\ ~Waits(r) /\ CooledDown(r)
  /\ r.normal # Never /\ Now - r.normal >= 2 * Window
Recovered(r) == [r EXCEPT !.pending = TRUE, !.last = Now]
Calmed(r) ==
  CASE ~r.active \/ Waits(r) -> r
    [] Recovers(r) -> Recovered(r)
    [] OTHER -> [r EXCEPT !.pending = FALSE, !.normal = IF @ = Never THEN Now ELSE @]

\* persistCostAlertCandidates, for one rule.
Next1(r, c) == IF c = "normal" THEN Calmed(r) ELSE Observed(r, c)
Notice(r, c) ==
  IF c # "normal" THEN NoticeOf(r, c) ELSE IF Recovers(r) THEN "recovery" ELSE "none"

\* finalizeCostAlertRecovery and discardCostAlertNotification, for one rule.
Closed(r, notice) ==
  IF notice = "recovery" /\ r.pending /\ r.last = Now
  THEN [r EXCEPT !.active = FALSE, !.pending = FALSE, !.normal = Never] ELSE r

KeepsStart(r) == r
ForgetsCooldown(r) == [r EXCEPT !.pending = FALSE, !.last = Never]

Reset(r) == NoRow
Reopened(r) == [r EXCEPT !.pending = FALSE]
Discarded(r, notice) ==
  CASE notice = "recovery" /\ r.last = Now -> Reopened(r)
    [] notice = "start" /\ r.active /\ r.last = Now -> Reset(r)
    [] OTHER -> r

-----------------------------------------------------------------------------
(* The cycle (runCostAlerts).                                               *)

Init ==
  /\ env \in DOMAIN Environments
  /\ cost = [k \in Rules |-> "normal"]
  /\ row = [k \in Rules |-> NoRow]
  /\ events = [k \in {} |-> "start"]
  /\ phase = "idle"
  /\ told = {}
  /\ opened = [k \in Rules |-> "yes"]
  /\ said = [k \in Rules |-> Never] /\ high = [k \in Rules |-> Never]
  /\ crashes = 0

\* AnalyzeCostAlerts: one transaction; nothing to say ends it.
Analyze ==
  /\ phase = "idle"
  /\ row' = [k \in Rules |-> Next1(row[k], cost[k])]
  /\ events' = [k \in {x \in Rules : Notice(row[x], cost[x]) # "none"} |->
                  Notice(row[k], cost[k])]
  /\ phase' = IF DOMAIN events' = {} THEN "rest" ELSE "mail"
  /\ opened' = [k \in Rules |-> IF Notice(row[k], cost[k]) = "start" THEN "no" ELSE opened[k]]
  /\ high' = [k \in Rules |-> IF cost[k] = "normal" THEN high[k] ELSE Now]
  /\ UNCHANGED <<env, cost, told, said, crashes>>

\* A query or the transaction fails.
AnalyzeFails ==
  /\ phase = "idle"
  /\ phase' = "rest"
  /\ UNCHANGED <<env, cost, row, events, told, opened, said, high, crashes>>

\* SendCostAlerts: one mail for all notifications.
SendMail(outcome) ==
  /\ phase = "mail"
  /\ outcome \in Environments[env].mail
  /\ phase' = IF outcome = "ok" THEN "accepted" ELSE "refused"
  /\ said' = [k \in Rules |-> IF k \in DOMAIN events THEN Now ELSE said[k]]
  /\ IF outcome = "failed" THEN UNCHANGED <<told, opened>>
     ELSE /\ told' = {k \in Rules : IF k \in DOMAIN events THEN events[k] # "recovery"
                                    ELSE k \in told}
          /\ opened' = [k \in Rules |->
                          IF k \in DOMAIN events /\ events[k] = "start" THEN "yes"
                          ELSE opened[k]]
  /\ UNCHANGED <<env, cost, row, events, high, crashes>>

NoEvents == events' = [k \in {} |-> "start"]

\* FinalizeCostAlertNotifications; a failure is only logged.
Finalize(works) ==
  /\ phase = "accepted"
  /\ row' = IF works
            THEN [k \in Rules |-> IF k \in DOMAIN events THEN Closed(row[k], events[k])
                                  ELSE row[k]]
            ELSE row
  /\ NoEvents
  /\ phase' = "rest"
  /\ UNCHANGED <<env, cost, told, opened, said, high, crashes>>

\* Incidents whose start was not told and will not be taken back.
Slip(lost) ==
  opened' = [k \in Rules |-> IF lost /\ opened[k] = "no" /\ k \in DOMAIN events
                             THEN "slipped" ELSE opened[k]]

\* DiscardCostAlertNotifications; a failure is only logged.
Discard(works) ==
  /\ phase = "refused"
  /\ row' = IF works
            THEN [k \in Rules |-> IF k \in DOMAIN events THEN Discarded(row[k], events[k])
                                  ELSE row[k]]
            ELSE row
  /\ Slip(~works)
  /\ NoEvents
  /\ phase' = "rest"
  /\ UNCHANGED <<env, cost, told, said, high, crashes>>

\* The process dies and starts again with a cycle (Service.Run).
Crash ==
  /\ crashes < Environments[env].crashes
  /\ crashes' = crashes + 1
  /\ Slip(TRUE)
  /\ NoEvents
  /\ phase' = "idle"
  /\ UNCHANGED <<env, cost, row, told, said, high>>

\* The interval passes; users spend more or less.
Aged(t) == IF t > Interval THEN t - Interval ELSE IF t = Never THEN Never ELSE 0
Tick ==
  /\ phase = "rest"
  /\ phase' = "idle"
  /\ cost' \in {c \in [Rules -> Costs] : \A k \in Rules : c[k] \in Environments[env].costs[k]}
  /\ row' = [k \in Rules |-> [row[k] EXCEPT !.last = Aged(@), !.normal = Aged(@)]]
  /\ said' = [k \in Rules |-> Aged(said[k])]
  /\ high' = [k \in Rules |-> Aged(high[k])]
  /\ UNCHANGED <<env, events, told, opened, crashes>>

Step ==
  \/ Analyze \/ AnalyzeFails
  \/ \E o \in MailOutcomes : SendMail(o)
  \/ \E works \in BOOLEAN : Finalize(works) \/ Discard(works)
  \/ Tick

Next == Step \/ Crash

Spec == Init /\ [][Next]_vars

\* A mail that tells something about a rule is accepted.
Accepts(k) == k \in DOMAIN events /\ SendMail("ok")

\* The ticker goes on; the database does not refuse for ever, nor the mail
\* server what concerns one rule.
FairSpec ==
  /\ Spec
  /\ WF_vars(Step)
  /\ SF_vars(Analyze)
  /\ \A k \in Rules : SF_vars(Accepts(k))

-----------------------------------------------------------------------------
(* Properties.                                                              *)

\* "A failed start email must not turn the first observation into a silent
\* incident" (cost_alert_notifications.go:83): when a cycle is over, the start
\* of every open incident has been accepted, unless the process died before
\* the mail or the notification could not be taken back.
NoSilentIncident ==
  phase = "rest" => \A k \in Rules : row[k].active => opened[k] # "no"

\* The same without the exception, as the comment has it.  It does not hold: the
\* transaction that takes a notification back may fail.
StartsAreTold ==
  phase = "rest" => \A k \in Rules : row[k].active => opened[k] = "yes"

\* A recovery is announced only after two windows in which no cycle saw the
\* rule abnormal, whatever failed or was announced in between
\* (prepareCostAlertRecovery, normal_since_at).
RecoveryMeansCalm ==
  \A k \in DOMAIN events :
    events[k] = "recovery" => high[k] # Never /\ Now - high[k] >= 2 * Window + Interval

\* Reminders and recoveries keep a cool-down from every mail tried before,
\* sent or not (README of monitoring, MONITORING_COST_COOLDOWN).
MailsSpaced ==
  phase = "mail" =>
    \A k \in DOMAIN events :
      events[k] \in {"reminder", "recovery"} /\ said[k] # Never => Now - said[k] >= Cooldown

\* No mail that is sent is wrong or too early.
MailsAreEarned == RecoveryMeansCalm /\ MailsSpaced

\* What the reader of the mails believes becomes true: a rule that stays
\* abnormal is announced, one that stays normal is announced as recovered,
\* whatever failed before.  Not when an accepted mail is reported as failed.
ReaderLearnsOfCost ==
  "lost" \notin Environments[env].mail =>
    \A k \in Rules :
      /\ <>[](cost[k] # "normal") => <>[](k \in told)
      /\ <>[](cost[k] = "normal") => <>[](k \notin told)
=============================================================================
