--------------------------- MODULE CostAlertProofs ---------------------------
(***************************************************************************)
(* Theorems about CostAlert, for every set of rules, every choice of       *)
(* interval, window and cool-down that CostAssumption allows and every     *)
(* environment: no incident is silently open, and no mail is too early.    *)
(***************************************************************************)
EXTENDS CostAlert, TLAPS

\* Between two cycles nothing waits to be told.
NothingWaits == phase \in {"idle", "rest"} => DOMAIN events = {}

\* An open incident whose start was not accepted is one the coming mail tells,
\* or one that will be taken back.
StartsPending ==
  \A k \in Rules :
    row[k].active /\ opened[k] = "no" =>
      /\ phase \in {"mail", "refused"}
      /\ k \in DOMAIN events /\ events[k] = "start"
      /\ row[k].last = Now

\* last_notified_at is never behind the last mail that was tried.
LastIsSaid == \A k \in Rules : row[k].active => row[k].last # Never /\ said[k] <= row[k].last
EventsStamped == phase = "mail" => \A k \in DOMAIN events : row[k].last = Now

\* normal_since_at is at least an interval after the rule was last abnormal,
\* however old the two have become.
HighSeen == \A k \in Rules : row[k].active => high[k] # Never
CalmSince ==
  \A k \in Rules :
    row[k].active /\ row[k].normal # Never => high[k] = 0 \/ high[k] + Interval <= row[k].normal
CalmNow == \A k \in Rules : cost[k] = "normal" => high[k] + Interval <= Now

Inv ==
  /\ TypeOK
  /\ NothingWaits
  /\ StartsPending
  /\ LastIsSaid /\ EventsStamped
  /\ HighSeen /\ CalmSince /\ CalmNow
  /\ RecoveryMeansCalm
  /\ MailsSpaced

-----------------------------------------------------------------------------
(* The operators on one row.                                                *)

LEMMA ConstantFacts ==
  /\ Interval \in Nat /\ Window \in Nat /\ Cooldown \in Nat /\ Now \in Nat
  /\ Interval > 0 /\ Window > 0 /\ Cooldown > 0
  /\ 2 * Window + Interval < Now /\ Cooldown < Now
  /\ Stamps = {t \in Int : -1 <= t /\ t <= Now}
  /\ \A n \in DOMAIN Environments : Environment(Environments[n])
  BY CostAssumption DEF Stamps, Never

\* What aging does to the order of two stamps, and to a distance between them.
LEMMA AgedFacts ==
  ASSUME NEW s \in Stamps
  PROVE  /\ Aged(s) \in Stamps /\ Aged(s) + Interval <= Now
         /\ Aged(s) = Never <=> s = Never
         /\ \A t \in Stamps : s <= t => Aged(s) <= Aged(t)
         /\ \A t \in Stamps :
              s # Never /\ t # Never /\ (s = 0 \/ s + Interval <= t) =>
                Aged(s) = 0 \/ Aged(s) + Interval <= Aged(t)
  BY ConstantFacts DEF Aged, Never

LEMMA RowsStayRows ==
  ASSUME NEW r \in Row, NEW c \in Costs
  PROVE  Next1(r, c) \in Row /\ \A n \in Notices : Closed(r, n) \in Row /\ Discarded(r, n) \in Row
  <1>1. Now \in Stamps /\ Never \in Stamps
    BY ConstantFacts DEF Never
  <1>2. Next1(r, c) \in Row
    BY <1>1 DEF Next1, Calmed, Recovered, Observed, Abnormal, Row, Costs
  <1>3. ASSUME NEW n \in Notices PROVE Closed(r, n) \in Row /\ Discarded(r, n) \in Row
    BY <1>1 DEF Closed, Discarded, Reopened, Reset, NoRow, Row, Costs
  <1> QED BY <1>2, <1>3

\* What the end of a cycle does to an incident: it is closed, or keeps its stamps.
LEMMA EndOfIncident ==
  ASSUME NEW r \in Row, NEW n \in Notices
  PROVE  /\ \A s \in {Closed(r, n), Discarded(r, n)} :
              ~s.active \/ (s.active = r.active /\ s.last = r.last /\ s.normal = r.normal)
         /\ n = "start" /\ r.active /\ r.last = Now => ~Discarded(r, n).active
  <1> DEFINE Keeps(s) == s.active = r.active /\ s.last = r.last /\ s.normal = r.normal
  <1>1. ~Closed(r, n).active \/ Keeps(Closed(r, n))
    BY DEF Closed, Row
  <1>2. Keeps(Reopened(r)) /\ ~Reset(r).active
    BY DEF Reopened, Reset, NoRow, Row
  <1>3. \/ Discarded(r, n) = r \/ Discarded(r, n) = Reopened(r)
        \/ Discarded(r, n) = Reset(r)
    BY DEF Discarded
  <1>4. n = "start" /\ r.active /\ r.last = Now => Discarded(r, n) = Reset(r)
    BY DEF Discarded
  <1> HIDE DEF Keeps
  <1>5. Keeps(r)
    BY DEF Keeps
  <1>6. \A s \in {Closed(r, n), Discarded(r, n)} : ~s.active \/ Keeps(s)
    BY <1>1, <1>2, <1>3, <1>5
  <1> QED BY <1>2, <1>4, <1>6 DEF Keeps

\* What the evaluation of a rule does to its incident and calls for.
LEMMA OneRule ==
  ASSUME NEW r \in Row, NEW c \in Costs
  PROVE  LET s == Next1(r, c)
             n == Notice(r, c) IN
         /\ n \in Notices \cup {"none"}
         /\ n # "none" => s.last = Now /\ s.active
         /\ n = "none" => s.last = r.last
         /\ n = "start" <=> ~r.active /\ s.active
         /\ r.active => s.active
         /\ n \in {"reminder", "recovery"} => r.active /\ CooledDown(r)
         /\ n = "recovery" => c = "normal" /\ r.normal # Never /\ Now - r.normal >= 2 * Window
         /\ c # "normal" => s.normal = Never
         /\ c = "normal" => s.normal = r.normal \/ (r.normal = Never /\ s.normal = Now)
         /\ c = "normal" => (s.active <=> r.active)
  <1>1. CASE c = "normal"
    BY <1>1 DEF Next1, Notice, Calmed, Recovered, Recovers, Row, Notices
  <1>2. CASE c # "normal"
    BY <1>2 DEF Next1, Notice, Observed, Abnormal, NoticeOf, Row, Notices
  <1> QED BY <1>1, <1>2

-----------------------------------------------------------------------------
(* The invariant.                                                           *)

LEMMA InitHolds == Init => Inv
  <1> SUFFICES ASSUME Init PROVE Inv
    OBVIOUS
  <1> USE ConstantFacts DEF Init
  <1>1. TypeOK
    BY DEF TypeOK, Row, NoRow, Stamps, Costs, Openings, Never, Environment
  <1>2. NothingWaits /\ StartsPending /\ LastIsSaid /\ EventsStamped
    BY DEF NothingWaits, StartsPending, LastIsSaid, EventsStamped, NoRow
  <1>3. HighSeen /\ CalmSince /\ CalmNow
    BY DEF HighSeen, CalmSince, CalmNow, NoRow, Never
  <1>4. RecoveryMeansCalm /\ MailsSpaced
    BY DEF RecoveryMeansCalm, MailsSpaced
  <1> QED BY <1>1, <1>2, <1>3, <1>4 DEF Inv

\* The evaluation of all rules.
LEMMA AnalyzeKeepsInv == Inv /\ Analyze => Inv'
  <1> SUFFICES ASSUME Inv, Analyze PROVE Inv'
    OBVIOUS
  <1> USE ConstantFacts
  <1>1. /\ \A k \in Rules : row[k] \in Row /\ cost[k] \in Costs
        /\ \A k \in Rules : high[k] \in Stamps /\ said[k] \in Stamps
        /\ \A k \in Rules : row'[k] = Next1(row[k], cost[k])
        /\ \A k \in Rules : row'[k] \in Row
        /\ DOMAIN events' = {x \in Rules : Notice(row[x], cost[x]) # "none"}
        /\ \A k \in DOMAIN events' : k \in Rules /\ events'[k] = Notice(row[k], cost[k])
    BY RowsStayRows DEF Inv, TypeOK, Analyze
  <1>2. \A k \in Rules : row[k].active => opened[k] # "no"
    BY DEF Inv, StartsPending, Analyze
  <1>3. TypeOK'
    <2>1. \A k \in DOMAIN events' : events'[k] \in Notices
      BY <1>1, OneRule
    <2>2. phase' \in {"idle", "mail", "accepted", "refused", "rest"}
      BY DEF Analyze
    <2>3. opened' \in [Rules -> Openings] /\ high' \in [Rules -> Stamps] /\ row' \in [Rules -> Row]
      BY <1>1 DEF Analyze, Inv, TypeOK, Openings, Stamps, Never
    <2> QED BY <1>1, <2>1, <2>2, <2>3 DEF Inv, TypeOK, Analyze
  <1>4. NothingWaits' /\ EventsStamped'
    BY <1>1, OneRule DEF NothingWaits, EventsStamped, Analyze
  <1>5. StartsPending'
    <2> SUFFICES ASSUME NEW k \in Rules, row'[k].active, opened'[k] = "no"
                 PROVE  /\ phase' \in {"mail", "refused"}
                        /\ k \in DOMAIN events' /\ events'[k] = "start"
                        /\ row'[k].last = Now
      BY DEF StartsPending
    <2>1. Notice(row[k], cost[k]) = "start"
      BY <1>1, <1>2, OneRule DEF Analyze
    <2> QED BY <2>1, <1>1, OneRule DEF Analyze
  <1>6. LastIsSaid'
    <2> SUFFICES ASSUME NEW k \in Rules, row'[k].active
                 PROVE  row'[k].last # Never /\ said'[k] <= row'[k].last
      BY DEF LastIsSaid
    <2>1. said'[k] = said[k] /\ said[k] <= Now /\ Now # Never
      BY <1>1 DEF Analyze, Never
    <2>2. CASE Notice(row[k], cost[k]) # "none"
      BY <2>1, <2>2, <1>1, OneRule
    <2>3. CASE Notice(row[k], cost[k]) = "none"
      BY <2>1, <2>3, <1>1, OneRule DEF Inv, LastIsSaid
    <2> QED BY <2>2, <2>3
  <1>7. HighSeen' /\ CalmSince' /\ CalmNow'
    <2> SUFFICES ASSUME NEW k \in Rules
                 PROVE  /\ row'[k].active => high'[k] # Never
                        /\ row'[k].active /\ row'[k].normal # Never =>
                             high'[k] = 0 \/ high'[k] + Interval <= row'[k].normal
                        /\ cost'[k] = "normal" => high'[k] + Interval <= Now
      BY DEF HighSeen, CalmSince, CalmNow
    <2>1. CASE cost[k] # "normal"
      BY <2>1, <1>1, OneRule DEF Analyze, Never
    <2>2. CASE cost[k] = "normal"
      BY <2>2, <1>1, OneRule DEF Analyze, Inv, HighSeen, CalmSince, CalmNow
    <2> QED BY <2>1, <2>2
  <1>8. RecoveryMeansCalm'
    <2> SUFFICES ASSUME NEW k \in DOMAIN events', events'[k] = "recovery"
                 PROVE  high'[k] # Never /\ Now - high'[k] >= 2 * Window + Interval
      BY DEF RecoveryMeansCalm
    <2>1. /\ k \in Rules /\ cost[k] = "normal" /\ row[k].active /\ row[k].normal # Never
          /\ Now - row[k].normal >= 2 * Window
      BY <1>1, OneRule
    <2>2. high'[k] = high[k] /\ high[k] \in Int /\ row[k].normal \in Int
      BY <2>1, <1>1 DEF Analyze, Row
    <2> QED BY <2>1, <2>2 DEF Inv, HighSeen, CalmSince
  <1>9. MailsSpaced'
    <2> SUFFICES ASSUME NEW k \in DOMAIN events', events'[k] \in {"reminder", "recovery"},
                        said'[k] # Never
                 PROVE  Now - said'[k] >= Cooldown
      BY DEF MailsSpaced
    <2>1. k \in Rules /\ row[k].active /\ CooledDown(row[k])
      BY <1>1, OneRule
    <2>2. said'[k] = said[k] /\ said[k] \in Int /\ row[k].last \in Int
      BY <2>1, <1>1 DEF Analyze, Row
    <2> QED BY <2>1, <2>2 DEF Inv, LastIsSaid, CooledDown
  <1> QED BY <1>3, <1>4, <1>5, <1>6, <1>7, <1>8, <1>9 DEF Inv

LEMMA MailKeepsInv == Inv /\ (\E o \in MailOutcomes : SendMail(o)) => Inv'
  <1> SUFFICES ASSUME Inv, NEW o \in MailOutcomes, SendMail(o) PROVE Inv'
    OBVIOUS
  <1> USE ConstantFacts
  <1>1. /\ row' = row /\ events' = events /\ cost' = cost /\ high' = high
        /\ phase = "mail" /\ phase' \in {"accepted", "refused"}
    BY DEF SendMail
  <1>2. TypeOK'
    <2>1. told' \subseteq Rules /\ opened' \in [Rules -> Openings]
      BY DEF SendMail, Inv, TypeOK, Openings
    <2>2. said' \in [Rules -> Stamps]
      BY DEF SendMail, Inv, TypeOK, Stamps, Never
    <2> QED BY <1>1, <2>1, <2>2 DEF SendMail, Inv, TypeOK
  <1>3. StartsPending'
    <2>1. \A k \in Rules : opened'[k] = "no" => opened[k] = "no"
      BY DEF SendMail, Inv, TypeOK
    <2>2. phase' = "accepted" => \A k \in DOMAIN events : events[k] = "start" => opened'[k] = "yes"
      BY DEF SendMail, Inv, TypeOK
    <2> QED BY <1>1, <2>1, <2>2 DEF Inv, StartsPending
  <1>4. LastIsSaid'
    BY <1>1 DEF SendMail, Inv, TypeOK, LastIsSaid, EventsStamped
  <1>5. NothingWaits' /\ EventsStamped' /\ MailsSpaced'
    BY <1>1 DEF NothingWaits, EventsStamped, MailsSpaced
  <1>6. HighSeen' /\ CalmSince' /\ CalmNow' /\ RecoveryMeansCalm'
    BY <1>1 DEF Inv, HighSeen, CalmSince, CalmNow, RecoveryMeansCalm
  <1> QED BY <1>2, <1>3, <1>4, <1>5, <1>6 DEF Inv

\* What both ends of a cycle with a mail do to the rows.
LEMMA EndKeepsInv ==
  Inv /\ (\E works \in BOOLEAN : Finalize(works) \/ Discard(works)) => Inv'
  <1> SUFFICES ASSUME Inv, NEW works \in BOOLEAN, Finalize(works) \/ Discard(works) PROVE Inv'
    OBVIOUS
  <1> USE ConstantFacts
  <1>1. /\ env' = env /\ crashes' = crashes /\ told' = told
        /\ said' = said /\ cost' = cost /\ high' = high
        /\ phase \in {"accepted", "refused"} /\ phase' = "rest"
        /\ DOMAIN events' = {}
    BY DEF Finalize, Discard, NoEvents
  <1>2. \A k \in Rules : row[k] \in Row /\ (k \in DOMAIN events => events[k] \in Notices)
    BY DEF Inv, TypeOK
  <1>3. row' \in [Rules -> Row]
    BY <1>2, RowsStayRows DEF Finalize, Discard, Inv, TypeOK
  <1>4. \A k \in Rules : \/ row'[k] = row[k]
                         \/ ~row'[k].active
                         \/ /\ row'[k].active = row[k].active
                            /\ row'[k].last = row[k].last /\ row'[k].normal = row[k].normal
    BY <1>2, EndOfIncident DEF Finalize, Discard
  <1>5. TypeOK'
    BY <1>1, <1>3 DEF Finalize, Discard, Slip, Inv, TypeOK, Openings
  <1>6. NothingWaits' /\ EventsStamped' /\ RecoveryMeansCalm' /\ MailsSpaced'
    BY <1>1 DEF NothingWaits, EventsStamped, RecoveryMeansCalm, MailsSpaced
  <1>7. LastIsSaid' /\ HighSeen' /\ CalmSince' /\ CalmNow'
    BY <1>1, <1>4 DEF Inv, LastIsSaid, HighSeen, CalmSince, CalmNow
  <1>8. StartsPending'
    <2> SUFFICES ASSUME NEW k \in Rules, row'[k].active, opened'[k] = "no" PROVE FALSE
      BY DEF StartsPending
    <2>1. opened[k] = "no" /\ row[k].active
      BY <1>4 DEF Finalize, Discard, Slip, Inv, TypeOK
    <2>2. phase = "refused" /\ k \in DOMAIN events /\ events[k] = "start" /\ row[k].last = Now
      BY <2>1, <1>1 DEF Inv, StartsPending, Finalize
    <2>3. Discard(works)
      BY <2>2 DEF Finalize
    <2>4. CASE works
      BY <1>2, <2>1, <2>2, <2>3, <2>4, EndOfIncident DEF Discard
    <2>5. CASE ~works
      BY <2>1, <2>2, <2>3, <2>5 DEF Discard, Slip, Inv, TypeOK
    <2> QED BY <2>4, <2>5
  <1> QED BY <1>5, <1>6, <1>7, <1>8 DEF Inv

LEMMA CrashKeepsInv == Inv /\ (AnalyzeFails \/ Crash) => Inv'
  <1> SUFFICES ASSUME Inv, AnalyzeFails \/ Crash PROVE Inv'
    OBVIOUS
  <1> USE ConstantFacts
  <1>1. /\ row' = row /\ env' = env /\ told' = told /\ said' = said /\ cost' = cost
        /\ high' = high /\ phase' \in {"idle", "rest"} /\ DOMAIN events' = {}
    BY DEF AnalyzeFails, Crash, NoEvents, Inv, NothingWaits
  <1>2. TypeOK'
    <2>1. opened' \in [Rules -> Openings]
      BY DEF AnalyzeFails, Crash, Slip, Inv, TypeOK, Openings
    <2>2. crashes' \in 0..Environments[env].crashes
      <3>1. Environment(Environments[env]) /\ crashes \in 0..Environments[env].crashes
        BY DEF Inv, TypeOK
      <3>2. Environments[env].crashes \in Nat
        BY <3>1 DEF Environment
      <3>3. crashes' = crashes \/ (crashes < Environments[env].crashes /\ crashes' = crashes + 1)
        BY DEF AnalyzeFails, Crash
      <3> QED BY <3>1, <3>2, <3>3
    <2> QED BY <1>1, <2>1, <2>2 DEF Inv, TypeOK
  <1>3. StartsPending'
    <2> SUFFICES ASSUME NEW k \in Rules, row[k].active, opened'[k] = "no" PROVE FALSE
      BY <1>1 DEF StartsPending
    <2>1. opened[k] = "no"
      BY DEF AnalyzeFails, Crash, Slip, Inv, TypeOK
    <2>2. phase # "idle" /\ k \in DOMAIN events
      BY <2>1 DEF Inv, StartsPending
    <2> QED BY <2>1, <2>2 DEF AnalyzeFails, Crash, Slip, Inv, TypeOK
  <1>4. NothingWaits' /\ EventsStamped' /\ RecoveryMeansCalm' /\ MailsSpaced'
    BY <1>1 DEF NothingWaits, EventsStamped, RecoveryMeansCalm, MailsSpaced
  <1>5. LastIsSaid' /\ HighSeen' /\ CalmSince' /\ CalmNow'
    BY <1>1 DEF Inv, LastIsSaid, HighSeen, CalmSince, CalmNow
  <1> QED BY <1>2, <1>3, <1>4, <1>5 DEF Inv

LEMMA TickKeepsInv == Inv /\ Tick => Inv'
  <1> SUFFICES ASSUME Inv, Tick PROVE Inv'
    OBVIOUS
  <1> USE ConstantFacts
  <1>1. /\ env' = env /\ crashes' = crashes /\ told' = told /\ opened' = opened
        /\ events' = events /\ phase' = "idle" /\ phase = "rest"
        /\ cost' \in [Rules -> Costs]
    BY DEF Tick
  <1>2. ASSUME NEW k \in Rules
        PROVE  /\ row[k].last \in Stamps /\ row[k].normal \in Stamps
               /\ said[k] \in Stamps /\ high[k] \in Stamps
               /\ row'[k].last = Aged(row[k].last) /\ row'[k].normal = Aged(row[k].normal)
               /\ row'[k].active = row[k].active
               /\ said'[k] = Aged(said[k]) /\ high'[k] = Aged(high[k])
    BY DEF Tick, Inv, TypeOK, Row
  <1>3. TypeOK'
    <2>1. row' \in [Rules -> Row]
      <3> SUFFICES ASSUME NEW k \in Rules
                   PROVE  [row[k] EXCEPT !.last = Aged(@), !.normal = Aged(@)] \in Row
        BY DEF Tick
      <3>1. row[k] \in Row /\ Aged(row[k].last) \in Stamps /\ Aged(row[k].normal) \in Stamps
        BY <1>2, AgedFacts DEF Inv, TypeOK
      <3> QED BY <3>1 DEF Row
    <2>2. said' \in [Rules -> Stamps] /\ high' \in [Rules -> Stamps]
      BY <1>2, AgedFacts DEF Tick
    <2> QED BY <1>1, <2>1, <2>2 DEF Inv, TypeOK
  <1>4. NothingWaits' /\ EventsStamped' /\ MailsSpaced' /\ RecoveryMeansCalm'
    BY <1>1 DEF Inv, NothingWaits, EventsStamped, MailsSpaced, RecoveryMeansCalm
  <1>5. StartsPending'
    BY <1>1, <1>2 DEF Inv, StartsPending
  <1>6. LastIsSaid'
    BY <1>2, AgedFacts DEF Inv, LastIsSaid
  <1>7. HighSeen' /\ CalmNow'
    BY <1>2, AgedFacts DEF Inv, HighSeen, CalmNow
  <1>8. CalmSince'
    <2> SUFFICES ASSUME NEW k \in Rules, row'[k].active, row'[k].normal # Never
                 PROVE  high'[k] = 0 \/ high'[k] + Interval <= row'[k].normal
      BY DEF CalmSince
    <2>1. row[k].normal # Never /\ row[k].active
      BY <1>2, AgedFacts
    <2> QED BY <2>1, <1>2, AgedFacts DEF Inv, HighSeen, CalmSince
  <1> QED BY <1>3, <1>4, <1>5, <1>6, <1>7, <1>8 DEF Inv

LEMMA StepKeepsInv == Inv /\ [Next]_vars => Inv'
  <1> SUFFICES ASSUME Inv, [Next]_vars PROVE Inv'
    OBVIOUS
  <1>1. CASE Analyze
    BY <1>1, AnalyzeKeepsInv
  <1>2. CASE \E o \in MailOutcomes : SendMail(o)
    BY <1>2, MailKeepsInv
  <1>3. CASE \E works \in BOOLEAN : Finalize(works) \/ Discard(works)
    BY <1>3, EndKeepsInv
  <1>4. CASE AnalyzeFails \/ Crash
    BY <1>4, CrashKeepsInv
  <1>5. CASE Tick
    BY <1>5, TickKeepsInv
  <1>6. CASE UNCHANGED vars
    BY <1>6 DEF vars, Inv, TypeOK, NothingWaits, StartsPending, LastIsSaid, EventsStamped,
                HighSeen, CalmSince, CalmNow, RecoveryMeansCalm, MailsSpaced
  <1> QED BY <1>1, <1>2, <1>3, <1>4, <1>5, <1>6 DEF Next, Step

LEMMA InvHolds == Spec => []Inv
  BY InitHolds, StepKeepsInv, PTL DEF Spec

-----------------------------------------------------------------------------
(* The theorems.                                                            *)

\* The rows, the notifications and the histories stay what they are.
THEOREM CostTypes == Spec => []TypeOK
  <1>1. Inv => TypeOK
    BY DEF Inv
  <1> QED BY InvHolds, <1>1, PTL

\* A cycle leaves no incident open whose start was neither accepted nor lost by
\* a crash or a failed transaction (DiscardCostAlertNotifications).
THEOREM IncidentsAreTold == Spec => []NoSilentIncident
  <1>1. Inv => NoSilentIncident
    BY DEF Inv, StartsPending, NoSilentIncident
  <1> QED BY InvHolds, <1>1, PTL

\* A recovery follows two windows and a cycle without cost, and reminders and
\* recoveries keep the cool-down, through crashes and failed transactions
\* (prepareCostAlertRecovery, observeCostAlert).
THEOREM MailsEarned == Spec => []MailsAreEarned
  <1>1. Inv => MailsAreEarned
    BY DEF Inv, MailsAreEarned
  <1> QED BY InvHolds, <1>1, PTL
=============================================================================
