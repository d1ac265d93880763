-------------------------- MODULE PriorityCycleProofs --------------------------
(***************************************************************************)
(* Proofs about the cycle of priority-sync, for any accounts, scale, times  *)
(* and environments: the types; that a recommendation still stands when its *)
(* turn comes; that rollbacks are earned and spaced, of one step, and       *)
(* followed by quiet; that the steps of a recovery are observed and ordinary *)
(* writes confirmed.                                                        *)
(***************************************************************************)
EXTENDS PriorityCycle, TLAPS

Priority == 1..Unavailable

-----------------------------------------------------------------------------
(* The inductive invariants.                                                *)

\* A recovery trial has a priority.
LeaseOK(l) == l.recovery => l.priority > 0
Typed == TypeOK /\ LeaseOK(lease) /\ LeaseOK(disk.lease)

\* The tables show a failure only while it is in the window, and none of the
\* present interval.
EvidenceInWindow ==
  \A a \in Accounts : Set(ev[a].fail) => ev[a].fail \in (Now - Window)..(Now - 1)

\* What is left to apply is what the evidence and the state call for.
StartsRecovery(a) ==
  ~Holds(a) /\ Recoverable(a, Held(a)) /\ rec[a] = Reviewed(a, StartRecovery(a, Held(a)))
StartsExploring(a) ==
  ~Holds(a) /\ Cold(a) /\ rec[a] = Reviewed(a, StartExploring(Held(a)))
Stands(a) ==
  rec[a] = Reviewed(a, Judged(a)) \/ StartsRecovery(a) \/ StartsExploring(a)
Standing ==
  \A a \in left :
    /\ a \in Listed /\ Stands(a)
    /\ rec[a].start => lease.account = None /\ \A b \in left : rec[b].start => b = a
InPhase == left # {} => phase = "applying"

\* The failure the last rollback answered is behind the watermark, or out of the
\* window; the account was seen after it.
BlameBehind(a) ==
  Set(hist[a].blamed) =>
    \/ hist[a].blamed < Now - Window
    \/ hist[a].blamed <= st[a].rolledAt /\ hist[a].blamed < st[a].seen

\* The observation that follows a rollback begins with it.
ObservedSinceFall(a) ==
  Set(hist[a].fell) /\ Set(st[a].highSince) => hist[a].fell <= st[a].highSince

\* A step of a recovery was observed, or the state knows it and where it came
\* from, and the trial of the account, if it has one, began with it.
StepKnown(a) ==
  Set(hist[a].risen) =>
    \/ Since(hist[a].risen) >= RecoveryTime
    \/ /\ st[a].applied = hist[a].risen /\ hist[a].risen <= st[a].seen
       /\ st[a].original > prio[a]
       /\ Holds(a) => lease.recovery /\ lease.started = hist[a].risen

\* The confirmations an account has were given by cycles that wanted it to go
\* where hist says, n intervals of them at least.
Lasted(a, n) == Since(hist[a].since) >= n * Interval
Backed(a, n) ==
  Set(st[a].since) /\ hist[a].since <= st[a].since /\ Lasted(a, n)
\* before a cycle counts,
Before(a) == Backed(a, Smaller(st[a].count, Confirmations - 1))
Confirmed(a) ==
  st[a].count > 0 => hist[a].dir = Direction(prio[a], st[a].cand) /\ Before(a)
\* after it has,
Counted(a) ==
  st[a].count > 0 =>
    hist[a].dir = Direction(prio[a], st[a].cand) /\ Backed(a, st[a].count - 1)
\* and in between, where hist has heard of this cycle already.
Counting(a) ==
  IF rec[a].atOnce THEN Confirmed(a)
  ELSE rec[a].want # rec[a].cur =>
    /\ hist[a].dir = Direction(rec[a].cur, rec[a].want)
    /\ st[a].count > 0 /\ Direction(rec[a].cur, st[a].cand) = hist[a].dir => Before(a)
CountOK(a) ==
  IF phase = "idle" THEN Confirmed(a)
  ELSE IF a \in left THEN Counting(a) ELSE Counted(a)

WatchedOK ==
  \A a \in Watched :
    BlameBehind(a) /\ ObservedSinceFall(a) /\ StepKnown(a) /\ CountOK(a)

-----------------------------------------------------------------------------
(* Priorities.                                                              *)

LEMMA Times ==
  /\ Now \in Nat /\ Interval \in Nat \ {0} /\ RecoveryTime \in Nat \ {0}
  /\ Window \in Nat \ {0} /\ Grace \in Nat \ {0} /\ Retention \in Nat \ {0}
  /\ Window + Grace <= Now /\ RecoveryTime <= Window /\ Window <= Retention
  /\ RecoveryTime < Now /\ Retention < Now
  /\ Confirmations \in Nat \ {0} /\ Cycles \in Nat
  /\ (Confirmations - 1) * Interval <= Now
BY CycleAssumption

LEMMA OnScale ==
  /\ Best \in Priority /\ Explore \in Priority /\ Neutral \in Priority /\ Poor \in Priority
  /\ Unavailable \in Priority
  /\ Best < Explore /\ Explore < Neutral /\ Neutral < Poor /\ Poor < Unavailable
  /\ Unavailable \in Nat /\ Poor \in Nat /\ Best \in Nat
  /\ RampStep \in Nat \ {0} /\ RecoveryStep \in Nat \ {0} /\ RecoverySlowStep \in Nat \ {0}
  /\ ReliabilityStep \in Nat \ {0}
<1>1. /\ Best \in Nat /\ Explore \in Nat /\ Neutral \in Nat /\ Poor \in Nat /\ Unavailable \in Nat
      /\ 0 < Best /\ Best < Explore /\ Explore < Neutral /\ Neutral < Poor /\ Poor < Unavailable
      /\ RampStep \in Nat \ {0} /\ RecoveryStep \in Nat \ {0} /\ RecoverySlowStep \in Nat \ {0}
  BY ScaleAssumption
<1>2. ReliabilityStep \in Nat \ {0}
  BY CycleAssumption
<1>. QED BY <1>1, <1>2 DEF Priority

LEMMA Normal ==
  /\ \A p \in Priority : NormalizedPriority(p) = p
  /\ \A p \in 0..Unavailable : NormalizedPriority(p) \in Priority
BY OnScale, ScaleAssumption DEF Priority, NormalizedPriority

\* The step of a ramp goes towards its target.
LEMMA RampMoves ==
  ASSUME NEW from \in Priority, NEW to \in Priority
  PROVE  /\ RampPriority(from, to) \in Priority
         /\ RampPriority(from, to) < from => to < from
         /\ RampPriority(from, to) > from => to > from
<1>1. CASE from = to \/ to >= Unavailable \/ from >= Unavailable
  BY <1>1, OnScale DEF RampPriority, Larger, Priority
<1>2. CASE ~(from = to \/ to >= Unavailable \/ from >= Unavailable)
  <2>. DEFINE d == Distance(from, to)
              step == RampSize(d)
  <2>1. d \in Nat \ {0}
    BY <1>2 DEF Distance, Priority
  <2>2. RampPriority(from, to) = Toward(from, to, step)
    BY <1>2 DEF RampPriority, Priority
  <2>. HIDE DEF d
  <2>3. step \in Nat \ {0}
    <3>1. d + RampMaxSteps - 1 >= RampMaxSteps /\ RampMaxSteps \in Nat \ {0} /\ RampStep \in Nat \ {0}
      BY <2>1, ScaleAssumption
    <3>. QED BY <2>1, <3>1 DEF RampSize
  <2>. HIDE DEF step
  <2>. QED BY <1>2, <2>2, <2>3, OnScale DEF Toward, Smaller, Larger, Priority
<1>. QED BY <1>1, <1>2

LEMMA RecoveryRampType ==
  ASSUME NEW from \in Priority, NEW to \in Priority, NEW healthy
  PROVE  /\ RecoveryRamp(from, to, healthy) \in Priority
         /\ to < from => RecoveryRamp(from, to, healthy) < from
<1>1. CASE to >= from
  BY <1>1, RampMoves DEF RecoveryRamp, Priority
<1>2. CASE to < from
  BY <1>2, OnScale DEF RecoveryRamp, Larger, Priority
<1>. QED BY <1>1, <1>2 DEF Priority

-----------------------------------------------------------------------------
(* The types of recommendations.                                            *)

LEMMA LargerSmaller ==
  ASSUME NEW p \in Int, NEW q \in Int
  PROVE  /\ Larger(p, q) \in Int /\ Larger(p, q) >= p /\ Larger(p, q) >= q
         /\ Larger(p, q) = p \/ Larger(p, q) = q
         /\ Smaller(p, q) \in Int /\ Smaller(p, q) <= p /\ Smaller(p, q) <= q
         /\ Smaller(p, q) = p \/ Smaller(p, q) = q
BY DEF Larger, Smaller

LEMMA NotLess == \A p, q \in Priority : p >= q => ~(p < q)
BY OnScale DEF Priority

LEMMA ShownType ==
  ASSUME TypeOK, NEW a \in Accounts
  PROVE  Shown(a) \in Evidence
<1>1. ev[a] \in Evidence
  BY DEF TypeOK
<1>2. Blank \in Evidence
  BY OnScale, Times DEF Blank, Evidence, Costs, Stamps, Never, Priority
<1>. QED BY <1>1, <1>2 DEF Shown

LEMMA CurrentType ==
  ASSUME Typed, NEW a \in Accounts
  PROVE  Current(a) \in Priority
<1>1. CASE Placeholder(a)
  <2>1. lease.priority \in 0..Unavailable /\ lease.priority > 0
    BY <1>1 DEF Placeholder, RecoveryOf, Typed, LeaseOK, TypeOK, Lease
  <2>. QED BY <1>1, <2>1, OnScale DEF Current, Priority
<1>2. CASE ~Placeholder(a)
  <2>1. prio[a] \in Priority
    BY DEF Typed, TypeOK, Priority
  <2>. QED BY <1>2, <2>1, Normal DEF Current
<1>. QED BY <1>1, <1>2

\* What scoreAccounts makes of the evidence.
LEMMA AnchorType ==
  ASSUME NEW e \in Evidence, NEW cur \in Priority
  PROVE  /\ Anchor(e, cur) \in 0..Poor
         /\ ~e.hard /\ e.cost # "none" => Anchor(e, cur) > 0
<1>1. e.goal \in Best..Poor
  BY DEF Evidence
<1>2. CASE Reevaluated(e, cur)
  <2>1. cur <= Poor /\ cur \in Int /\ cur > Best
    BY <1>1, <1>2, OnScale DEF Reevaluated, Priority
  <2>2. Larger(Best, cur - RampStep) \in 1..Poor
    BY <2>1, OnScale DEF Larger, Priority
  <2>. QED BY <1>2, <2>2, OnScale DEF Anchor, Priority
<1>3. CASE ~Reevaluated(e, cur)
  BY <1>1, <1>3, OnScale DEF Anchor, Priority
<1>. QED BY <1>2, <1>3

LEMMA ScoreType ==
  ASSUME NEW e \in Evidence, NEW cur \in Priority
  PROVE  LET r == ScoreOf(e, cur)
         IN /\ r \in Recommendation
            /\ r.cur = cur /\ r.atOnce = e.hard /\ r.anchor = Anchor(e, cur)
            /\ r.needed => Estimated(e) /\ r.anchor > 0
            /\ r.want < cur => ~e.hard /\ Measured(e)
            /\ ~r.start /\ ~r.end /\ ~r.done /\ ~r.trial /\ ~r.recovery /\ ~r.rollback
<1>. DEFINE r == ScoreOf(e, cur)
<1>1. e.goal \in Priority /\ e.hard \in BOOLEAN /\ e.reeval \in BOOLEAN
  BY OnScale DEF Evidence, Priority
<1>2. PICK want \in Priority :
        want = IF e.hard THEN Unavailable ELSE IF Measured(e) THEN e.goal ELSE cur
  BY <1>1, OnScale
<1>3. PICK reeval \in BOOLEAN : reeval = Reevaluated(e, cur)
  BY <1>1 DEF Reevaluated
<1>4. PICK needed \in BOOLEAN :
        /\ needed = (Estimated(e) /\ Anchor(e, cur) \in 1..(cur - 1))
        /\ needed <=> Estimated(e) /\ Anchor(e, cur) \in 1..(cur - 1)
  OBVIOUS
<1>5. PICK hard \in BOOLEAN, anchor \in 0..Poor : hard = e.hard /\ anchor = Anchor(e, cur)
  BY <1>1, AnchorType
<1>6. /\ r \in Recommendation
      /\ r.cur = cur /\ r.want = want /\ r.atOnce = e.hard /\ r.needed = needed
      /\ r.anchor = Anchor(e, cur)
      /\ ~r.start /\ ~r.end /\ ~r.done /\ ~r.trial /\ ~r.recovery /\ ~r.rollback
  <2>1. r = [cur |-> cur, want |-> want, anchor |-> anchor, reeval |-> reeval,
             needed |-> needed, atOnce |-> hard, start |-> FALSE, end |-> FALSE,
             done |-> FALSE, outcome |-> "", trial |-> FALSE, recovery |-> FALSE,
             rollback |-> FALSE]
    BY <1>2, <1>3, <1>4, <1>5 DEF ScoreOf
  <2>2. [cur |-> cur, want |-> want, anchor |-> anchor, reeval |-> reeval,
         needed |-> needed, atOnce |-> hard, start |-> FALSE, end |-> FALSE,
         done |-> FALSE, outcome |-> "", trial |-> FALSE, recovery |-> FALSE,
         rollback |-> FALSE] \in Recommendation
    BY DEF Recommendation, Priority
  <2>. HIDE DEF r
  <2>3. r \in Recommendation
    BY <2>1, <2>2
  <2>4. /\ r.cur = cur /\ r.want = want /\ r.anchor = anchor
    BY <2>1
  <2>5. r.atOnce = hard /\ r.needed = needed
    BY <2>1, Zenon
  <2>6. /\ ~r.start /\ ~r.end /\ ~r.done /\ ~r.trial /\ ~r.recovery /\ ~r.rollback
    BY <2>1, Zenon
  <2>. QED BY <1>5, <2>3, <2>4, <2>5, <2>6
<1>7. needed => Estimated(e) /\ Anchor(e, cur) > 0
  BY <1>4, AnchorType DEF Priority
<1>8. want < cur => ~e.hard /\ Measured(e)
  BY <1>2, OnScale DEF Priority
<1>. QED BY <1>6, <1>7, <1>8

\* What prepareExploration makes of that before it looks at trials.
LEMMA HeldBackType ==
  ASSUME NEW r \in Recommendation, NEW s, NEW done \in BOOLEAN
  PROVE  LET h == HeldBack(s, r, done)
         IN /\ h \in Recommendation
            /\ h.cur = r.cur /\ h.atOnce = r.atOnce /\ h.anchor = r.anchor
            /\ h.done = done
            /\ h.needed => r.needed \/ (r.anchor > 0 /\ ~done)
            /\ h.want < h.cur => r.want < r.cur
            /\ h.start = r.start /\ h.end = r.end /\ h.trial = r.trial
            /\ h.recovery = r.recovery /\ h.rollback = r.rollback
<1>. DEFINE h == HeldBack(s, r, done)
<1>1. /\ r.cur \in Priority /\ r.want \in Priority /\ r.anchor \in 0..Poor
      /\ r.needed \in BOOLEAN
  BY DEF Recommendation, Priority
<1>2. PICK way \in BOOLEAN :
        way = OnItsWay(s, r, done) /\ (way <=> OnItsWay(s, r, done))
  BY DEF OnItsWay
<1>3. PICK want \in Priority :
        /\ want = IF OnItsWay(s, r, done) \/ (Blocked(s.retryAt) /\ r.want < r.cur)
                  THEN r.cur ELSE r.want
        /\ want < r.cur => r.want < r.cur
  BY <1>1, OnScale DEF Priority
<1>4. PICK needed \in BOOLEAN : needed = (r.needed \/ way) /\ (needed <=> r.needed \/ way)
  BY <1>1
<1>5. h = [r EXCEPT !.done = done, !.needed = needed, !.want = want]
  BY <1>2, <1>3, <1>4 DEF HeldBack
<1>6. way => ~done /\ r.anchor > 0
  BY <1>1, <1>2, OnScale DEF OnItsWay, Priority
<1>. HIDE DEF h
<1>7. /\ h \in Recommendation
      /\ h.cur = r.cur /\ h.atOnce = r.atOnce /\ h.anchor = r.anchor
      /\ h.done = done /\ h.needed = needed /\ h.want = want
      /\ h.start = r.start /\ h.end = r.end /\ h.trial = r.trial
      /\ h.recovery = r.recovery /\ h.rollback = r.rollback
  BY <1>5, Zenon DEF Recommendation, Priority
<1>8. h.needed => r.needed \/ (r.anchor > 0 /\ ~done)
  BY <1>4, <1>6, <1>7
<1>9. h.want < h.cur => r.want < r.cur
  BY <1>3, <1>7
<1>. QED BY <1>7, <1>8, <1>9, Zenon DEF h

LEMMA HeldType ==
  ASSUME Typed, NEW a \in Accounts
  PROVE  LET h == Held(a)
         IN /\ h \in Recommendation
            /\ h.cur = Current(a) /\ h.atOnce = Shown(a).hard
            /\ h.anchor = Anchor(Shown(a), Current(a))
            /\ h.needed => h.anchor > 0 /\ ~h.done
            /\ h.done => ~Shown(a).hard /\ Graduated(a)
            /\ ~h.start /\ ~h.end /\ ~h.trial /\ ~h.recovery /\ ~h.rollback
<1>. DEFINE e == Shown(a)
            cur == Current(a)
            r == ScoreOf(e, cur)
<1>1. e \in Evidence /\ cur \in Priority
  BY ShownType, CurrentType DEF Typed
<1>2. /\ r \in Recommendation
      /\ r.cur = cur /\ r.atOnce = e.hard /\ r.anchor = Anchor(e, cur)
      /\ r.needed => Estimated(e) /\ r.anchor > 0
      /\ ~r.start /\ ~r.end /\ ~r.done /\ ~r.trial /\ ~r.recovery /\ ~r.rollback
  BY <1>1, ScoreType, Zenon
<1>3. CASE e.hard
  <2>1. Held(a) = r
    BY <1>3 DEF Held, Scored
  <2>. QED BY <1>2, <2>1, Zenon
<1>4. CASE ~e.hard
  <2>1. PICK done \in BOOLEAN : done = Graduated(a) /\ (done <=> Graduated(a))
    BY DEF Graduated
  <2>2. Held(a) = HeldBack(st[a], r, done)
    BY <1>4, <2>1 DEF Held, Scored
  <2>. DEFINE h == HeldBack(st[a], r, done)
  <2>3. /\ h \in Recommendation
        /\ h.cur = r.cur /\ h.atOnce = r.atOnce /\ h.anchor = r.anchor
        /\ h.done = done
        /\ h.needed => r.needed \/ (r.anchor > 0 /\ ~done)
        /\ h.start = r.start /\ h.end = r.end /\ h.trial = r.trial
        /\ h.recovery = r.recovery /\ h.rollback = r.rollback
    <3>. HIDE DEF r
    <3>1. r \in Recommendation
      BY <1>2
    <3>. QED BY <3>1, HeldBackType
  <2>4. done => ~Estimated(e)
    BY <2>1 DEF Graduated, CostMature, Estimated
  <2>. QED BY <1>2, <1>4, <2>1, <2>2, <2>3, <2>4, Zenon
<1>. QED BY <1>3, <1>4, Zenon

\* The recommendations of a running recovery trial.
LEMMA OnTrialType ==
  ASSUME NEW h \in Recommendation, lease.target \in 0..Poor
  PROVE  LET r == OnTrial(h)
         IN /\ r \in Recommendation
            /\ r.cur = h.cur /\ r.want = h.want /\ r.done = h.done /\ r.start = h.start
            /\ r.rollback = h.rollback /\ r.trial /\ r.recovery
            /\ h.anchor > 0 => r.anchor > 0
<1>. DEFINE r == OnTrial(h)
<1>1. PICK anchor \in 0..Poor :
        /\ anchor = IF h.anchor > 0 THEN h.anchor ELSE lease.target
        /\ h.anchor > 0 => anchor > 0
  BY DEF Recommendation
<1>2. r = [h EXCEPT !.trial = TRUE, !.recovery = TRUE, !.anchor = anchor]
  BY <1>1 DEF OnTrial
<1>. HIDE DEF r
<1>3. /\ r \in Recommendation
      /\ r.cur = h.cur /\ r.want = h.want /\ r.done = h.done /\ r.start = h.start
      /\ r.rollback = h.rollback /\ r.trial /\ r.recovery /\ r.anchor = anchor
  BY <1>2, Zenon DEF Recommendation
<1>. QED BY <1>1, <1>3, Zenon DEF r

\* A step of a running trial to a better priority is taken when its time is
\* over, and ends it, at once unless it graduates.
LEMMA RecoveryNextType ==
  ASSUME NEW a \in Accounts, Shown(a) \in Evidence,
         NEW r \in Recommendation, ~r.done, NEW fresh \in BOOLEAN,
         fresh => Shown(a).enough,
         ~Shown(a).hard /\ Shown(a).cost # "none" => r.anchor > 0
  PROVE  LET n == RecoveryNext(a, r, Over(r), fresh)
         IN /\ n \in Recommendation
            /\ n.cur = r.cur /\ n.trial = r.trial /\ n.recovery = r.recovery
            /\ n.start = r.start /\ n.rollback = r.rollback
            /\ n.done => Expired /\ Shown(a).rate = "low" /\ ~Shown(a).hard
            /\ n.want < n.cur => Expired /\ n.end /\ (n.atOnce \/ n.done)
<1>. DEFINE e == Shown(a)
            n == RecoveryNext(a, r, Over(r), fresh)
            kept == /\ n.cur = r.cur /\ n.trial = r.trial /\ n.recovery = r.recovery
                    /\ n.start = r.start /\ n.rollback = r.rollback
<1>1. /\ r.cur \in Priority /\ r.want \in Priority /\ r.anchor \in 0..Poor
      /\ e.rate \in {"low", "mid", "high"} /\ e.hard \in BOOLEAN /\ e.enough \in BOOLEAN
  BY DEF Recommendation, Priority, Evidence
<1>2. Over(r) = [r EXCEPT !.want = r.cur, !.atOnce = TRUE, !.end = TRUE]
  BY DEF Over
<1>3. CASE e.hard
  <2>1. n = [Over(r) EXCEPT !.want = Unavailable, !.outcome = "failure"]
    BY <1>3 DEF RecoveryNext
  <2>. HIDE DEF n
  <2>2. n = [r EXCEPT !.want = Unavailable, !.atOnce = TRUE, !.end = TRUE, !.outcome = "failure"]
    BY <1>2, <2>1, Zenon
  <2>3. n \in Recommendation /\ kept /\ n.done = r.done /\ n.want = Unavailable
    BY <2>2, OnScale, Zenon DEF Recommendation, Priority
  <2>4. ~(n.want < n.cur)
    BY <1>1, <2>3, OnScale DEF Priority
  <2>. QED BY <2>3, <2>4, Zenon DEF n
<1>4. CASE ~e.hard /\ ~Expired
  <2>1. n = [r EXCEPT !.want = r.cur]
    BY <1>4 DEF RecoveryNext
  <2>. HIDE DEF n
  <2>2. n \in Recommendation /\ kept /\ n.done = r.done /\ n.want = r.cur
    BY <1>1, <2>1, Zenon DEF Recommendation, Priority
  <2>3. ~(n.want < n.cur)
    BY <1>1, <2>2 DEF Priority
  <2>. QED BY <2>2, <2>3, Zenon DEF n
<1>5. CASE ~e.hard /\ Expired /\ e.enough /\ e.rate = "high"
  <2>1. n = [Over(r) EXCEPT !.end = FALSE]
    BY <1>5 DEF RecoveryNext
  <2>. HIDE DEF n
  <2>2. n = [r EXCEPT !.want = r.cur, !.atOnce = TRUE, !.end = FALSE]
    BY <1>2, <2>1, Zenon
  <2>3. n \in Recommendation /\ kept /\ n.done = r.done /\ n.want = r.cur
    BY <1>1, <2>2, Zenon DEF Recommendation, Priority
  <2>4. ~(n.want < n.cur)
    BY <1>1, <2>3 DEF Priority
  <2>. QED BY <2>3, <2>4, Zenon DEF n
<1>6. CASE ~e.hard /\ Expired /\ ~fresh /\ ~(e.enough /\ e.rate = "high")
  <2>1. PICK better \in BOOLEAN :
          better <=> r.anchor \in 1..(r.cur - 1) /\ ~Placeholder(a)
    OBVIOUS
  <2>2. PICK want \in Priority, outcome \in {"progress", "no-result"} :
          /\ want = IF r.anchor \in 1..(r.cur - 1) /\ ~Placeholder(a)
                    THEN RecoveryRamp(r.cur, r.anchor, FALSE) ELSE r.cur
          /\ outcome = IF r.anchor \in 1..(r.cur - 1) /\ ~Placeholder(a)
                       THEN "progress" ELSE "no-result"
    <3>1. r.anchor \in 1..(r.cur - 1) => RecoveryRamp(r.cur, r.anchor, FALSE) \in Priority
      <4>1. r.anchor \in 1..(r.cur - 1) => r.anchor \in Priority
        BY <1>1, OnScale DEF Priority
      <4>2. FALSE \in BOOLEAN
        OBVIOUS
      <4>. QED BY <1>1, <4>1, <4>2, RecoveryRampType
    <3>. QED BY <1>1, <3>1
  <2>3. n = [Over(r) EXCEPT !.outcome = outcome, !.want = want]
    <3>1. Over(r).want = r.cur
      BY <1>2, Zenon DEF Recommendation
    <3>. QED BY <1>6, <2>2, <3>1 DEF RecoveryNext
  <2>. HIDE DEF n
  <2>4. n = [r EXCEPT !.want = want, !.atOnce = TRUE, !.end = TRUE, !.outcome = outcome]
    BY <1>2, <2>3, Zenon
  <2>5. n \in Recommendation /\ kept /\ n.done = r.done /\ n.end /\ n.atOnce
    BY <2>4, Zenon DEF Recommendation, Priority
  <2>. QED BY <1>6, <2>5, Zenon DEF n
<1>7. CASE ~e.hard /\ Expired /\ fresh /\ e.rate # "high"
  <2>1. CASE e.rate = "low" /\ CostMature(e, st[a])
    <3>1. n = [Over(r) EXCEPT !.want = r.anchor, !.done = TRUE, !.needed = FALSE,
                              !.outcome = "success", !.atOnce = FALSE]
      BY <1>7, <2>1 DEF RecoveryNext
    <3>2. r.anchor \in Priority
      BY <1>1, <1>7, <2>1, OnScale DEF CostMature, Priority
    <3>. HIDE DEF n
    <3>3. n = [r EXCEPT !.want = r.anchor, !.atOnce = FALSE, !.end = TRUE, !.done = TRUE,
                        !.needed = FALSE, !.outcome = "success"]
      BY <1>2, <3>1, Zenon
    <3>4. n \in Recommendation /\ kept /\ n.done /\ n.end
      BY <3>2, <3>3, Zenon DEF Recommendation, Priority
    <3>. QED BY <1>7, <2>1, <3>4, Zenon DEF n
  <2>2. CASE ~(e.rate = "low" /\ CostMature(e, st[a]))
    <3>1. PICK want \in Priority :
            want = IF Estimated(e) \/ Reliable(e)
                   THEN RecoveryRamp(r.cur, r.anchor, e.rate = "low") ELSE r.cur
      <4>1. Estimated(e) \/ Reliable(e) => r.anchor \in Priority
        BY <1>1, <1>7, OnScale DEF Estimated, Reliable, Priority
      <4>2. r.anchor \in Priority =>
              RecoveryRamp(r.cur, r.anchor, e.rate = "low") \in Priority
        BY <1>1, RecoveryRampType
      <4>. QED BY <1>1, <4>1, <4>2
    <3>2. PICK outcome \in {"success", "progress"} :
            outcome = IF e.rate = "low" THEN "success" ELSE "progress"
      BY <1>1
    <3>. DEFINE once == want <= r.cur
    <3>3. once \in BOOLEAN
      OBVIOUS
    <3>4. n = [Over(r) EXCEPT !.want = want, !.atOnce = once, !.outcome = outcome]
      BY <1>7, <2>2, <3>1, <3>2, <3>3 DEF RecoveryNext
    <3>. HIDE DEF n, once
    <3>5. n = [r EXCEPT !.want = want, !.atOnce = once, !.end = TRUE, !.outcome = outcome]
      BY <1>2, <3>4, Zenon
    <3>6. n \in Recommendation /\ kept /\ n.done = r.done /\ n.end /\ n.want = want /\ n.atOnce = once
      BY <3>3, <3>5, Zenon DEF Recommendation, Priority
    <3>7. want < r.cur => once
      BY <1>1 DEF Priority, once
    <3>8. n.want < n.cur => n.atOnce
      BY <3>6, <3>7, Zenon
    <3>. QED BY <1>7, <3>6, <3>8, Zenon DEF n
  <2>. QED BY <2>1, <2>2, Zenon
<1>. QED BY <1>1, <1>3, <1>4, <1>5, <1>6, <1>7, Zenon

\* What Judged makes of an account.
LEMMA JudgedType ==
  ASSUME Typed, NEW a \in Accounts
  PROVE  LET j == Judged(a)
         IN /\ j \in Recommendation
            /\ j.cur = Current(a) /\ ~j.start /\ ~j.rollback
            /\ j.done => /\ ~Shown(a).hard
                         /\ Graduated(a) \/ (RecoveryOf(a) /\ Expired)
            /\ j.recovery => RecoveryOf(a)
            /\ j.recovery /\ j.want < j.cur =>
                 Expired /\ j.end /\ (j.atOnce \/ (j.done /\ Shown(a).rate = "low"))
            /\ j.done /\ RecoveryOf(a) => Shown(a).rate = "low"
            /\ ~Holds(a) /\ ~j.atOnce => ~Shown(a).hard
<1>. DEFINE h == Held(a)
            j == Judged(a)
            e == Shown(a)
<1>1. /\ h \in Recommendation
      /\ h.cur = Current(a) /\ h.atOnce = e.hard
      /\ h.anchor = Anchor(e, Current(a))
      /\ h.done => ~e.hard /\ Graduated(a)
      /\ ~h.start /\ ~h.end /\ ~h.trial /\ ~h.recovery /\ ~h.rollback
  BY HeldType, Zenon
<1>2. e \in Evidence /\ Current(a) \in Priority
  BY ShownType, CurrentType DEF Typed
<1>3. CASE ~Holds(a)
  <2>1. j = h
    BY <1>3 DEF Judged
  <2>. QED BY <1>1, <1>3, <2>1, Zenon DEF RecoveryOf
<1>4. CASE Holds(a) /\ lease.recovery
  <2>. DEFINE r == OnTrial(h)
  <2>1. lease.target \in 0..Poor
    BY DEF Typed, TypeOK, Lease
  <2>2. /\ r \in Recommendation
        /\ r.cur = h.cur /\ r.want = h.want /\ r.done = h.done /\ r.start = h.start
        /\ r.rollback = h.rollback /\ r.trial /\ r.recovery
        /\ h.anchor > 0 => r.anchor > 0
    <3>. HIDE DEF h
    <3>. QED BY <1>1, <2>1, OnTrialType
  <2>3. ~h.done
    BY <1>1, <1>4, Zenon DEF Graduated
  <2>4. PICK fresh \in BOOLEAN :
          /\ fresh = (e.enough /\ e.ok > lease.started)
          /\ fresh <=> e.enough /\ e.ok > lease.started
    OBVIOUS
  <2>. DEFINE n == RecoveryNext(a, r, Over(r), fresh)
  <2>5. j = n
    BY <1>4, <2>4 DEF Judged, RecoveryTrial
  <2>6. ~e.hard /\ e.cost # "none" => r.anchor > 0
    BY <1>1, <1>2, <2>2, AnchorType
  <2>7. /\ n \in Recommendation
        /\ n.cur = r.cur /\ n.trial = r.trial /\ n.recovery = r.recovery
        /\ n.start = r.start /\ n.rollback = r.rollback
        /\ n.done => Expired /\ e.rate = "low" /\ ~e.hard
        /\ n.want < n.cur => Expired /\ n.end /\ (n.atOnce \/ n.done)
    <3>1. r \in Recommendation /\ ~r.done /\ (fresh => e.enough)
      BY <2>2, <2>3, <2>4
    <3>. HIDE DEF r
    <3>. QED BY <1>2, <2>6, <3>1, RecoveryNextType
  <2>8. RecoveryOf(a)
    BY <1>4 DEF RecoveryOf
  <2>. HIDE DEF n, r, h, j
  <2>9. ~n.start /\ ~n.rollback /\ n.cur = Current(a)
    BY <1>1, <2>2, <2>7, Zenon
  <2>10. /\ j \in Recommendation
         /\ j.cur = Current(a) /\ ~j.start /\ ~j.rollback
    BY <2>5, <2>7, <2>9, Zenon
  <2>11. /\ j.done => Expired /\ e.rate = "low" /\ ~e.hard
         /\ j.want < j.cur => Expired /\ j.end /\ (j.atOnce \/ j.done)
    BY <2>5, <2>7, Zenon
  <2>. QED BY <1>4, <2>8, <2>10, <2>11, Zenon DEF j
<1>5. CASE Holds(a) /\ ~lease.recovery
  <2>1. j = ExploreTrial(a, h)
    BY <1>5 DEF Judged
  <2>2. /\ h.cur \in Priority /\ h.want \in Priority /\ h.anchor \in 0..Poor
        /\ e.thin \in BOOLEAN /\ e.hard \in BOOLEAN
    BY <1>1, <1>2 DEF Recommendation, Priority, Evidence
  <2>3. PICK back \in Priority :
          back = IF h.anchor > 0 THEN h.anchor ELSE NormalizedPriority(lease.original)
    <3>1. lease.original \in 0..Unavailable
      BY DEF Typed, TypeOK, Lease
    <3>. QED BY <2>2, <3>1, Normal, OnScale DEF Priority
  <2>4. \A p, q : (RampPriority(p, q) = q) \in BOOLEAN
    OBVIOUS
  <2>5. \E want \in Priority, end \in BOOLEAN :
          j = [h EXCEPT !.trial = TRUE, !.want = want, !.end = end]
    <3>. HIDE DEF h
    <3>0. h = [h EXCEPT !.want = h.want, !.end = h.end]
      BY <1>1, Zenon DEF Recommendation
    <3>1. CASE e.hard
      <4>1. j = [h EXCEPT !.trial = TRUE, !.end = TRUE]
        BY <2>1, <3>1 DEF ExploreTrial
      <4>2. j = [h EXCEPT !.trial = TRUE, !.want = h.want, !.end = TRUE]
        BY <4>1, <1>1, Zenon DEF Recommendation
      <4>. QED BY <2>2, <4>2
    <3>2. CASE ~e.hard /\ (Reliable(e) \/ ~e.thin)
      <4>1. PICK end \in BOOLEAN : end = (RampPriority(h.cur, h.want) = h.want)
        OBVIOUS
      <4>2. j = [h EXCEPT !.trial = TRUE, !.end = end]
        BY <2>1, <3>2, <4>1 DEF ExploreTrial
      <4>3. j = [h EXCEPT !.trial = TRUE, !.want = h.want, !.end = end]
        BY <4>2, <1>1, Zenon DEF Recommendation
      <4>. QED BY <2>2, <4>3
    <3>3. CASE ~e.hard /\ ~Reliable(e) /\ e.thin /\ Expired
      <4>1. PICK end \in BOOLEAN : end = (RampPriority(h.cur, back) = back)
        OBVIOUS
      <4>2. j = [h EXCEPT !.trial = TRUE, !.want = back, !.end = end]
        BY <2>1, <2>3, <3>3, <4>1 DEF ExploreTrial
      <4>. QED BY <4>2
    <3>4. CASE ~e.hard /\ ~Reliable(e) /\ e.thin /\ ~Expired
      <4>1. j = [h EXCEPT !.trial = TRUE, !.want = Explore]
        BY <2>1, <3>4 DEF ExploreTrial
      <4>2. j = [h EXCEPT !.trial = TRUE, !.want = Explore, !.end = FALSE]
        BY <4>1, <1>1, Zenon DEF Recommendation
      <4>. QED BY <4>2, OnScale
    <3>. QED BY <2>2, <3>1, <3>2, <3>3, <3>4, Zenon
  <2>6. PICK want \in Priority, end \in BOOLEAN :
          j = [h EXCEPT !.trial = TRUE, !.want = want, !.end = end]
    BY <2>5
  <2>. HIDE DEF j, h
  <2>7. /\ j \in Recommendation
        /\ j.cur = h.cur /\ j.start = h.start /\ j.rollback = h.rollback
        /\ j.done = h.done /\ j.recovery = h.recovery
    BY <1>1, <2>6, Zenon DEF Recommendation, Priority
  <2>. QED BY <1>1, <1>5, <2>7, Zenon DEF j, RecoveryOf
<1>. QED BY <1>3, <1>4, <1>5, Zenon

-----------------------------------------------------------------------------
(* The last word of prepareReliability.                                     *)

Actions == {"rollback", "observe", "slow", "pause", "cost"}

LEMMA AssessmentType ==
  ASSUME NEW a
  PROVE  /\ Assessment(a) \in Actions
         /\ Assessment(a) = "slow" => Shown(a).rate = "mid"
BY DEF Assessment, Verdict, Actions

LEMMA AnsweredType ==
  ASSUME lease.original \in 0..Unavailable, NEW a \in Accounts, st[a].original \in 0..Unavailable,
         NEW r \in Recommendation, ~r.rollback, NEW action \in Actions
  PROVE  LET n == Answered(a, r, action)
         IN /\ n \in Recommendation
            /\ n.cur = r.cur /\ n.trial = r.trial
            /\ n.rollback => action = "rollback" /\ n.atOnce /\ ~n.start /\ n.want >= n.cur
            /\ ~n.rollback => n.recovery = r.recovery /\ n.atOnce = r.atOnce
            /\ n.start => r.start /\ (r.want < r.cur => n.want < n.cur)
            /\ n.want < n.cur => /\ r.want < r.cur /\ ~n.rollback /\ n.end = r.end
                                 /\ r.done => n.done \/ action = "slow"
            /\ n.done => r.done /\ ~n.rollback
<1>. DEFINE n == Answered(a, r, action)
<1>0. r.outcome \in {"", "success", "progress", "no-result", "failure", "unreliable"}
  BY DEF Recommendation
<1>1. r.cur \in Priority /\ r.want \in Priority
  BY DEF Recommendation, Priority
<1>2. CASE action = "rollback"
  <2>1. PICK want \in Priority : want = RollbackTo(a, r) /\ want >= r.cur
    <3>1. RollbackTo(a, r) \in Priority /\ RollbackTo(a, r) >= r.cur
      <4>1. /\ r.cur \in 1..Unavailable /\ Unavailable \in Nat /\ Poor \in 1..Unavailable
            /\ RampStep \in Nat /\ lease.original \in 0..Unavailable
            /\ st[a].original \in 0..Unavailable
        BY <1>1, OnScale DEF Priority
      <4>. DEFINE back == IF st[a].original > r.cur THEN st[a].original
                          ELSE Larger(r.cur, Smaller(Poor, r.cur + RampStep))
                  slot == IF Holds(a) THEN lease.original ELSE 0
      <4>2. back \in 1..Unavailable /\ back >= r.cur
        BY <4>1 DEF Larger, Smaller
      <4>3. slot \in 0..Unavailable
        BY <4>1
      <4>4. RollbackTo(a, r) = IF RecoveryOf(a) THEN Larger(r.cur, lease.original)
                               ELSE Larger(back, slot)
        BY DEF RollbackTo
      <4>. HIDE DEF back, slot
      <4>. QED BY <4>1, <4>2, <4>3, <4>4 DEF Larger, Priority
    <3>. QED BY <3>1
  <2>2. PICK held \in BOOLEAN : held = Holds(a)
    BY DEF Holds
  <2>3. n = [r EXCEPT !.want = want, !.recovery = TRUE, !.rollback = TRUE, !.atOnce = TRUE,
                      !.start = FALSE, !.end = held, !.outcome = "unreliable", !.done = FALSE]
    BY <1>2, <2>1, <2>2 DEF Answered
  <2>. HIDE DEF n
  <2>4. /\ n \in Recommendation /\ n.cur = r.cur /\ n.trial = r.trial /\ n.rollback /\ n.atOnce
        /\ ~n.start /\ n.want = want /\ ~n.done
    BY <2>3, Zenon DEF Recommendation, Priority
  <2>5. n.want >= n.cur /\ ~(n.want < n.cur)
    <3>1. n.want = want /\ n.cur = r.cur
      BY <2>4
    <3>. QED BY <1>1, <2>1, <3>1, OnScale DEF Priority
  <2>. QED BY <1>2, <2>4, <2>5, Zenon DEF n
<1>3. CASE action \in {"pause", "observe"}
  <2>1. PICK want \in Priority : want = Larger(r.want, r.cur) /\ want >= r.cur
    <3>1. Larger(r.want, r.cur) \in Priority /\ Larger(r.want, r.cur) >= r.cur
      BY <1>1, OnScale DEF Larger, Priority
    <3>. QED BY <3>1
  <2>2. PICK outcome \in {"", "success", "progress", "no-result", "failure", "unreliable"} :
          outcome = IF r.end /\ r.outcome # "failure" THEN "no-result" ELSE r.outcome
    BY <1>0
  <2>3. n = [r EXCEPT !.needed = FALSE, !.start = FALSE, !.want = want, !.done = FALSE,
                      !.outcome = outcome]
    BY <1>3, <2>1, <2>2 DEF Answered
  <2>. HIDE DEF n
  <2>4. /\ n \in Recommendation /\ n.cur = r.cur /\ n.trial = r.trial
        /\ n.rollback = r.rollback /\ n.recovery = r.recovery /\ n.atOnce = r.atOnce
        /\ ~n.start /\ n.want = want /\ ~n.done
    BY <2>3, Zenon DEF Recommendation, Priority
  <2>5. ~(n.want < n.cur)
    <3>1. n.want = want /\ n.cur = r.cur
      BY <2>4
    <3>2. want >= r.cur
      BY <2>1, Zenon
    <3>3. ~(want < r.cur)
      BY <1>1, <3>2, NotLess
    <3>. QED BY <3>1, <3>3, Zenon
  <2>. QED BY <2>4, <2>5, Zenon DEF n
<1>4. CASE action = "slow"
  <2>1. PICK want \in Priority :
          /\ want = IF r.want < r.cur THEN Larger(r.want, r.cur - SlowStep(r)) ELSE r.want
          /\ want < r.cur <=> r.want < r.cur
    <3>1. SlowStep(r) \in Nat \ {0}
      BY OnScale DEF SlowStep
    <3>. DEFINE step == SlowStep(r)
                w == IF r.want < r.cur THEN Larger(r.want, r.cur - step) ELSE r.want
    <3>. HIDE DEF step
    <3>2. w \in Priority /\ (w < r.cur <=> r.want < r.cur)
      BY <1>1, <3>1, OnScale DEF Larger, Priority, step
    <3>. QED BY <3>2 DEF step
  <2>2. n = [r EXCEPT !.want = want, !.done = FALSE]
    BY <1>4, <2>1 DEF Answered
  <2>. HIDE DEF n
  <2>3. /\ n \in Recommendation /\ n.cur = r.cur /\ n.trial = r.trial
        /\ n.rollback = r.rollback /\ n.recovery = r.recovery /\ n.atOnce = r.atOnce
        /\ n.start = r.start /\ n.want = want /\ ~n.done /\ n.end = r.end
    BY <2>2, Zenon DEF Recommendation, Priority
  <2>. QED BY <1>4, <2>1, <2>3, Zenon DEF n
<1>5. CASE action = "cost"
  <2>1. n = r
    BY <1>5 DEF Answered
  <2>. QED BY <2>1, Zenon
<1>. QED BY <1>2, <1>3, <1>4, <1>5 DEF Actions

LEMMA BackedOffType ==
  ASSUME NEW r \in Recommendation, NEW s
  PROVE  LET n == BackedOff(s, r)
         IN /\ n \in Recommendation
            /\ n.cur = r.cur /\ n.trial = r.trial /\ n.rollback = r.rollback
            /\ n.recovery = r.recovery /\ n.atOnce = r.atOnce /\ n.end = r.end
            /\ n.done = r.done
            /\ n.start => r.start /\ n.want = r.want
            /\ n.want < n.cur => r.want < r.cur
            /\ r.want >= r.cur => n.want >= n.cur
<1>. DEFINE n == BackedOff(s, r)
<1>1. r.cur \in Priority /\ r.want \in Priority
  BY DEF Recommendation, Priority
<1>2. CASE Blocked(s.retryAt) /\ r.want < r.cur
  <2>1. n = [r EXCEPT !.want = r.cur, !.start = FALSE, !.needed = FALSE]
    BY <1>2 DEF BackedOff
  <2>. HIDE DEF n
  <2>2. /\ n \in Recommendation
        /\ n.cur = r.cur /\ n.trial = r.trial /\ n.rollback = r.rollback
        /\ n.recovery = r.recovery /\ n.atOnce = r.atOnce /\ n.end = r.end
        /\ n.done = r.done /\ ~n.start /\ n.want = r.cur
    BY <1>1, <2>1, Zenon DEF Recommendation, Priority
  <2>3. ~(n.want < n.cur) /\ n.want >= n.cur
    BY <1>1, <2>2 DEF Priority
  <2>. QED BY <2>2, <2>3, Zenon DEF n
<1>3. CASE ~(Blocked(s.retryAt) /\ r.want < r.cur)
  <2>1. n = r
    BY <1>3 DEF BackedOff
  <2>. QED BY <2>1, Zenon
<1>. QED BY <1>2, <1>3, Zenon

LEMMA NotSoonType ==
  ASSUME NEW e, NEW s, NEW r \in Recommendation
  PROVE  LET n == NotSoon(e, s, r)
         IN /\ n \in Recommendation
            /\ n.cur = r.cur /\ n.trial = r.trial /\ n.rollback = r.rollback
            /\ n.recovery = r.recovery /\ n.atOnce = r.atOnce /\ n.end = r.end
            /\ n.done = r.done /\ n.start = r.start /\ n.want = r.want
<1>. DEFINE n == NotSoon(e, s, r)
<1>1. n = r \/ n = [r EXCEPT !.outcome = "progress"]
  BY DEF NotSoon
<1>. HIDE DEF n
<1>2. CASE n = r
  BY <1>2, Zenon DEF n
<1>3. CASE n = [r EXCEPT !.outcome = "progress"]
  <2>1. /\ n \in Recommendation
        /\ n.cur = r.cur /\ n.trial = r.trial /\ n.rollback = r.rollback
        /\ n.recovery = r.recovery /\ n.atOnce = r.atOnce /\ n.end = r.end
        /\ n.done = r.done /\ n.start = r.start /\ n.want = r.want
    BY <1>3, Zenon DEF Recommendation
  <2>. QED BY <2>1, Zenon DEF n
<1>. QED BY <1>1, <1>2, <1>3, Zenon

LEMMA ReviewedType ==
  ASSUME Typed, NEW a \in Accounts, NEW r \in Recommendation, ~r.rollback
  PROVE  LET n == Reviewed(a, r)
         IN /\ n \in Recommendation
            /\ n.cur = r.cur /\ n.trial = r.trial
            /\ n.rollback => /\ ~Shown(a).hard /\ Assessment(a) = "rollback"
                             /\ n.atOnce /\ ~n.start /\ n.want >= n.cur
            /\ ~n.rollback => n.recovery = r.recovery /\ n.atOnce = r.atOnce
            /\ n.start => r.start /\ (r.want < r.cur => n.want < n.cur)
            /\ n.want < n.cur =>
                 /\ r.want < r.cur /\ ~n.rollback /\ n.end = r.end
                 /\ r.done => n.done \/ Shown(a).rate = "mid" \/ Shown(a).hard
            /\ n.done => r.done /\ ~n.rollback /\ ~Shown(a).hard
<1>. DEFINE n == Reviewed(a, r)
<1>1. CASE Shown(a).hard
  <2>1. n = [r EXCEPT !.done = FALSE]
    BY <1>1 DEF Reviewed
  <2>. HIDE DEF n
  <2>2. /\ n \in Recommendation /\ n.cur = r.cur /\ n.trial = r.trial
        /\ n.rollback = r.rollback /\ n.recovery = r.recovery /\ n.atOnce = r.atOnce
        /\ n.start = r.start /\ n.want = r.want /\ ~n.done /\ n.end = r.end
    BY <2>1, Zenon DEF Recommendation
  <2>. QED BY <1>1, <2>2, Zenon DEF n
<1>2. CASE ~Shown(a).hard
  <2>. DEFINE x == Answered(a, r, Assessment(a))
              y == BackedOff(st[a], x)
  <2>1. /\ x \in Recommendation
        /\ x.cur = r.cur /\ x.trial = r.trial
        /\ x.rollback => /\ Assessment(a) = "rollback" /\ x.atOnce /\ ~x.start
                         /\ x.want >= x.cur
        /\ ~x.rollback => x.recovery = r.recovery /\ x.atOnce = r.atOnce
        /\ x.start => r.start /\ (r.want < r.cur => x.want < x.cur)
        /\ x.want < x.cur => /\ r.want < r.cur /\ ~x.rollback /\ x.end = r.end
                             /\ r.done => x.done \/ Assessment(a) = "slow"
        /\ x.done => r.done /\ ~x.rollback
    <3>1. lease.original \in 0..Unavailable /\ st[a].original \in 0..Unavailable
      BY DEF Typed, TypeOK, Lease, AccountState
    <3>. QED BY <3>1, AnsweredType, AssessmentType
  <2>2. /\ y \in Recommendation
        /\ y.cur = x.cur /\ y.trial = x.trial /\ y.rollback = x.rollback
        /\ y.recovery = x.recovery /\ y.atOnce = x.atOnce /\ y.end = x.end
        /\ y.done = x.done
        /\ y.start => x.start /\ y.want = x.want
        /\ y.want < y.cur => x.want < x.cur
        /\ x.want >= x.cur => y.want >= y.cur
    <3>1. x \in Recommendation
      BY <2>1
    <3>. HIDE DEF x
    <3>. QED BY <3>1, BackedOffType
  <2>3. /\ n \in Recommendation
        /\ n.cur = y.cur /\ n.trial = y.trial /\ n.rollback = y.rollback
        /\ n.recovery = y.recovery /\ n.atOnce = y.atOnce /\ n.end = y.end
        /\ n.done = y.done /\ n.start = y.start /\ n.want = y.want
    <3>1. n = NotSoon(Shown(a), st[a], y)
      BY <1>2 DEF Reviewed
    <3>2. y \in Recommendation
      BY <2>2
    <3>. HIDE DEF n, y
    <3>. QED BY <3>1, <3>2, NotSoonType
  <2>4. Assessment(a) = "slow" => Shown(a).rate = "mid"
    BY AssessmentType
  <2>. HIDE DEF n, x, y
  <2>5. /\ n.cur = r.cur /\ n.trial = r.trial
        /\ n.rollback = x.rollback /\ n.recovery = x.recovery /\ n.atOnce = x.atOnce
        /\ n.end = x.end /\ n.done = x.done /\ (n.start => x.start /\ n.want = x.want)
        /\ n.want < n.cur => x.want < x.cur
        /\ x.want >= x.cur => n.want >= n.cur
    BY <2>1, <2>2, <2>3, Zenon
  <2>6. n.rollback => /\ ~Shown(a).hard /\ Assessment(a) = "rollback"
                      /\ n.atOnce /\ ~n.start /\ n.want >= n.cur
    BY <1>2, <2>1, <2>5, Zenon
  <2>7. ~n.rollback => n.recovery = r.recovery /\ n.atOnce = r.atOnce
    BY <2>1, <2>5, Zenon
  <2>8. n.start => r.start /\ (r.want < r.cur => n.want < n.cur)
    BY <2>1, <2>5, Zenon
  <2>9. n.want < n.cur =>
          /\ r.want < r.cur /\ ~n.rollback /\ n.end = r.end
          /\ r.done => n.done \/ Shown(a).rate = "mid" \/ Shown(a).hard
    BY <2>1, <2>4, <2>5, Zenon
  <2>10. n.done => r.done /\ ~n.rollback /\ ~Shown(a).hard
    BY <1>2, <2>1, <2>5, Zenon
  <2>. QED BY <2>3, <2>5, <2>6, <2>7, <2>8, <2>9, <2>10, Zenon DEF n
<1>. QED BY <1>1, <1>2, Zenon

\* The recommendation that starts a trial.
LEMMA StartRecoveryType ==
  ASSUME Typed, NEW a \in Accounts, Recoverable(a, Held(a))
  PROVE  LET r == StartRecovery(a, Held(a))
         IN /\ r \in Recommendation
            /\ r.cur = Current(a) /\ r.start /\ r.trial /\ r.recovery /\ r.atOnce
            /\ ~r.done /\ ~r.rollback
            /\ r.want # r.cur => ~(st[a].original > r.cur)
<1>. DEFINE h == Held(a)
            r == StartRecovery(a, h)
<1>1. /\ h \in Recommendation /\ h.cur = Current(a)
      /\ h.needed => h.anchor > 0 /\ ~h.done
      /\ ~h.rollback
  BY HeldType, Zenon
<1>2. h.needed /\ h.anchor < h.cur
  BY DEF Recoverable
<1>3. h.cur \in Priority /\ h.anchor \in Priority
  <2>. HIDE DEF h
  <2>1. h.cur \in Priority /\ h.anchor \in 0..Poor
    BY <1>1 DEF Recommendation, Priority
  <2>2. h.anchor > 0
    BY <1>1, <1>2, Zenon
  <2>. QED BY <2>1, <2>2, OnScale DEF Priority
<1>4. PICK want \in Priority :
        /\ want = IF st[a].original > h.cur THEN h.cur
                  ELSE RecoveryRamp(h.cur, h.anchor, Assessment(a) # "slow")
        /\ want # h.cur => ~(st[a].original > h.cur)
  <2>. DEFINE ramp == RecoveryRamp(h.cur, h.anchor, Assessment(a) # "slow")
  <2>1. ramp \in Priority
    BY <1>3, RecoveryRampType
  <2>. HIDE DEF ramp
  <2>2. (IF st[a].original > h.cur THEN h.cur ELSE ramp) \in Priority
    BY <1>3, <2>1
  <2>. QED BY <2>2 DEF ramp
<1>5. r = [h EXCEPT !.want = want, !.trial = TRUE, !.recovery = TRUE, !.start = TRUE,
                    !.atOnce = TRUE]
  BY <1>4 DEF StartRecovery
<1>. HIDE DEF r, h
<1>6. /\ r \in Recommendation
      /\ r.cur = h.cur /\ r.start /\ r.trial /\ r.recovery /\ r.atOnce
      /\ r.done = h.done /\ r.rollback = h.rollback /\ r.want = want
  BY <1>1, <1>5, Zenon DEF Recommendation, Priority
<1>. QED BY <1>1, <1>2, <1>4, <1>6, Zenon DEF r, h

LEMMA StartExploringType ==
  ASSUME Typed, NEW a \in Accounts, Cold(a)
  PROVE  LET r == StartExploring(Held(a))
         IN /\ r \in Recommendation
            /\ r.cur = Current(a) /\ r.start /\ r.trial /\ ~r.recovery /\ r.atOnce
            /\ ~r.done /\ ~r.rollback /\ r.want < r.cur
<1>. DEFINE h == Held(a)
            r == StartExploring(h)
<1>1. /\ h \in Recommendation /\ h.cur = Current(a)
      /\ h.done => Graduated(a)
      /\ ~h.rollback /\ ~h.recovery
  BY HeldType, Zenon
<1>2. ~Graduated(a)
  BY DEF Cold, Graduated, CostMature, Billed, Measured
<1>3. r = [h EXCEPT !.want = Explore, !.trial = TRUE, !.start = TRUE, !.atOnce = TRUE]
  BY DEF StartExploring
<1>4. Explore < Current(a)
  BY CurrentType, OnScale DEF Cold, Priority
<1>. HIDE DEF r, h
<1>5. /\ r \in Recommendation
      /\ r.cur = h.cur /\ r.start /\ r.trial /\ r.recovery = h.recovery /\ r.atOnce
      /\ r.done = h.done /\ r.rollback = h.rollback /\ r.want = Explore
  BY <1>1, <1>3, OnScale, Zenon DEF Recommendation, Priority
<1>6. r.want < r.cur
  BY <1>1, <1>4, <1>5
<1>. QED BY <1>1, <1>2, <1>5, <1>6, Zenon DEF r, h

-----------------------------------------------------------------------------
(* What applying a recommendation does to the state of an account.          *)

SameTally(o, s) == o.cand = s.cand /\ o.count = s.count /\ o.since = s.since
SameTimes(o, s) == o.seen = s.seen /\ o.applied = s.applied
SameMarks(o, s) == o.rolledAt = s.rolledAt /\ o.highSince = s.highSince

LEMMA StampTypes ==
  /\ Now \in Stamps /\ Never \in Stamps /\ Never \in Later
  /\ \A t \in Stamps : t \in Int /\ t <= Now /\ t >= -1
  /\ \A t, u \in Stamps : Latest(t, u) \in Stamps
BY Times DEF Stamps, Later, Never, Latest, Larger

LEMMA StateFields ==
  ASSUME NEW s \in AccountState
  PROVE  /\ s.since \in Stamps /\ s.seen \in Stamps /\ s.applied \in Stamps
         /\ s.rolledAt \in Stamps /\ s.highSince \in Stamps /\ s.failSeen \in Stamps
         /\ s.explored \in Stamps /\ s.failedAt \in Stamps /\ s.retryAt \in Later
         /\ s.count \in 0..Confirmations /\ s.cand \in 0..Unavailable
         /\ s.original \in 0..Unavailable /\ s.failures \in 0..Len(Backoffs)
BY DEF AccountState

LEMMA NoticedType ==
  ASSUME NEW s \in AccountState, NEW e \in Evidence
  PROVE  LET o == Noticed(s, e)
         IN /\ o \in AccountState
            /\ SameTally(o, s) /\ SameTimes(o, s) /\ o.original = s.original
            /\ o.rolledAt = RollbackBase(s)
            /\ o.highSince \in {Now, s.highSince, Never}
<1>. DEFINE o == Noticed(s, e)
<1>1. PICK base \in Stamps : base = RollbackBase(s)
  BY StateFields DEF RollbackBase
<1>2. PICK seen \in Stamps : seen = Latest(s.failSeen, e.fail)
  BY StateFields, StampTypes DEF Evidence
<1>3. PICK high \in Stamps :
        /\ high = IF e.enough /\ e.rate = "high"
                  THEN IF Set(s.highSince) THEN s.highSince ELSE Now ELSE Never
        /\ high \in {Now, s.highSince, Never}
  BY StateFields, StampTypes
<1>4. o = [s EXCEPT !.rolledAt = base, !.failSeen = seen, !.highSince = high]
  BY <1>1, <1>2, <1>3 DEF Noticed
<1>. HIDE DEF o
<1>5. /\ o \in AccountState
      /\ SameTally(o, s) /\ SameTimes(o, s) /\ o.original = s.original
      /\ o.rolledAt = base /\ o.highSince = high
  BY <1>4, Zenon DEF AccountState, SameTally, SameTimes
<1>. QED BY <1>1, <1>3, <1>5, Zenon DEF o

LEMMA CleanType ==
  ASSUME NEW s \in AccountState
  PROVE  LET o == Clean(s)
         IN /\ o \in AccountState
            /\ SameTally(o, s) /\ SameTimes(o, s) /\ SameMarks(o, s)
            /\ o.original = s.original
<1>1. 0 \in 0..Len(Backoffs)
  BY CycleAssumption
<1>. QED
  BY <1>1, StampTypes, Zenon DEF Clean, AccountState, SameTally, SameTimes, SameMarks

LEMMA RolledType ==
  ASSUME NEW s \in AccountState, NEW e \in Evidence
  PROVE  LET o == Rolled(s, e)
         IN /\ o \in AccountState
            /\ SameTally(o, s) /\ SameTimes(o, s) /\ o.original = s.original
            /\ o.highSince = Now /\ (Set(e.fail) => o.rolledAt = e.fail)
<1>. DEFINE o == Rolled(s, e)
<1>1. PICK base \in Stamps :
        base = (IF Set(e.fail) THEN e.fail ELSE Now) /\ (Set(e.fail) => base = e.fail)
  BY StampTypes DEF Evidence
<1>2. o = [s EXCEPT !.rolledAt = base, !.highSince = Now]
  BY <1>1 DEF Rolled
<1>. HIDE DEF o
<1>3. /\ o \in AccountState
      /\ SameTally(o, s) /\ SameTimes(o, s) /\ o.original = s.original
      /\ o.highSince = Now /\ o.rolledAt = base
  BY <1>2, StampTypes, Zenon DEF AccountState, SameTally, SameTimes
<1>. QED BY <1>1, <1>3, Zenon DEF o

\* recordReliabilityObservation keeps everything but the marks of reliability;
\* a recovery that is over forgets where it began.
LEMMA ObservedType ==
  ASSUME TypeOK, NEW a \in Accounts, NEW s \in AccountState, NEW r \in Recommendation
  PROVE  LET o == Observed(s, a, r)
         IN /\ o \in AccountState
            /\ SameTally(o, s) /\ SameTimes(o, s)
            /\ o.original = IF r.done THEN 0 ELSE s.original
            /\ o.highSince \in {Now, s.highSince, Never}
            /\ r.rollback => /\ o.highSince = Now
                             /\ Set(Shown(a).fail) => o.rolledAt = Shown(a).fail
            /\ ~r.rollback => o.rolledAt = RollbackBase(s)
<1>. DEFINE e == Shown(a)
            n == Noticed(s, e)
            t == Settled(n, e, r)
            o == Observed(s, a, r)
<1>1. e \in Evidence
  BY ShownType
<1>2. /\ n \in AccountState
      /\ SameTally(n, s) /\ SameTimes(n, s) /\ n.original = s.original
      /\ n.rolledAt = RollbackBase(s)
      /\ n.highSince \in {Now, s.highSince, Never}
  BY <1>1, NoticedType
<1>3. /\ t \in AccountState
      /\ SameTally(t, n) /\ SameTimes(t, n) /\ t.original = n.original
      /\ t.highSince \in {Now, n.highSince}
      /\ r.rollback => t.highSince = Now /\ (Set(e.fail) => t.rolledAt = e.fail)
      /\ ~r.rollback => t.rolledAt = n.rolledAt
  <2>. HIDE DEF n, e
  <2>1. CASE r.rollback
    <3>1. t = Rolled(n, e)
      BY <2>1 DEF Settled
    <3>2. /\ t \in AccountState
          /\ SameTally(t, n) /\ SameTimes(t, n) /\ t.original = n.original
          /\ t.highSince = Now /\ (Set(e.fail) => t.rolledAt = e.fail)
      <4>. HIDE DEF t
      <4>. QED BY <1>1, <1>2, <3>1, RolledType
    <3>. QED BY <2>1, <3>2, Zenon
  <2>2. CASE ~r.rollback /\ Proven(n, e, FailureBase(n))
    <3>1. t = Clean(n)
      BY <2>2 DEF Settled
    <3>2. /\ t \in AccountState
          /\ SameTally(t, n) /\ SameTimes(t, n) /\ SameMarks(t, n) /\ t.original = n.original
      <4>. HIDE DEF t
      <4>. QED BY <1>2, <3>1, CleanType
    <3>. QED BY <2>2, <3>2, Zenon DEF SameMarks
  <2>3. CASE ~r.rollback /\ ~Proven(n, e, FailureBase(n))
    <3>1. t = n
      BY <2>3 DEF Settled
    <3>. HIDE DEF t
    <3>. QED BY <1>2, <2>3, <3>1, Zenon DEF SameTally, SameTimes
  <2>. QED BY <2>1, <2>2, <2>3, Zenon
<1>4. /\ o \in AccountState
      /\ SameTally(o, t) /\ SameTimes(o, t) /\ SameMarks(o, t)
      /\ o.original = IF r.done THEN 0 ELSE t.original
  <2>. HIDE DEF t
  <2>1. CASE r.done
    <3>. DEFINE c == Clean(t)
    <3>1. o = [c EXCEPT !.original = 0]
      BY <2>1 DEF Observed, t, n, e
    <3>2. /\ c \in AccountState
          /\ SameTally(c, t) /\ SameTimes(c, t) /\ SameMarks(c, t)
      BY <1>3, CleanType
    <3>3. 0 \in 0..Unavailable
      BY OnScale
    <3>. HIDE DEF c, o
    <3>4. /\ o \in AccountState /\ SameTally(o, c) /\ SameTimes(o, c) /\ SameMarks(o, c)
          /\ o.original = 0
      BY <3>1, <3>2, <3>3, Zenon DEF AccountState, SameTally, SameTimes, SameMarks
    <3>. QED BY <2>1, <3>2, <3>4, Zenon DEF SameTally, SameTimes, SameMarks
  <2>2. CASE ~r.done
    <3>1. o = t
      BY <2>2 DEF Observed, t, n, e
    <3>. HIDE DEF o
    <3>. QED BY <1>3, <2>2, <3>1, Zenon DEF SameTally, SameTimes, SameMarks
  <2>. QED BY <2>1, <2>2, Zenon
<1>. HIDE DEF n, t, o
<1>. QED
  BY <1>2, <1>3, <1>4, Zenon DEF o, SameTally, SameTimes, SameMarks

Outcome == {"", "success", "progress", "no-result", "failure", "unreliable"}

\* The verdict on a trial sets the back-off and nothing else.
LEMMA JudgementType ==
  ASSUME NEW s \in AccountState, NEW outcome \in Outcome
  PROVE  LET o == Judgement(s, outcome)
         IN /\ o \in AccountState
            /\ SameTally(o, s) /\ SameTimes(o, s) /\ SameMarks(o, s)
            /\ o.original = s.original
<1>. DEFINE o == Judgement(s, outcome)
            same == /\ o \in AccountState
                    /\ SameTally(o, s) /\ SameTimes(o, s) /\ SameMarks(o, s)
                    /\ o.original = s.original
<1>1. CASE outcome \in {"unreliable", "failure"}
  <2>1. PICK n \in 1..Len(Backoffs) :
          n = IF Set(s.failedAt) /\ Since(s.failedAt) >= ResetAfter
              THEN 1 ELSE Smaller(s.failures + 1, Len(Backoffs))
    <3>1. Len(Backoffs) \in Nat \ {0}
      BY CycleAssumption
    <3>. QED BY <3>1, StateFields DEF Smaller
  <2>2. PICK until \in Later : until = Now + Backoff(n)
    <3>1. /\ Len(Backoffs) \in Nat \ {0}
          /\ \A i \in 1..Len(Backoffs) : Backoffs[i] \in 1..Now
      <4>. DEFINE Tier == 1..Now
      <4>1. Backoffs \in Seq(Tier) /\ Len(Backoffs) > 0
        BY CycleAssumption
      <4>. HIDE DEF Tier
      <4>2. /\ Len(Backoffs) \in Nat \ {0}
            /\ \A i \in 1..Len(Backoffs) : Backoffs[i] \in Tier
        BY <4>1
      <4>. QED BY <4>2 DEF Tier
    <3>2. Smaller(Larger(n, 1), Len(Backoffs)) \in 1..Len(Backoffs)
      BY <3>1 DEF Smaller, Larger
    <3>3. Backoff(n) \in 1..Now
      BY <3>1, <3>2 DEF Backoff
    <3>. QED BY <3>3, Times DEF Later, Never
  <2>3. o = [s EXCEPT !.failures = n, !.failedAt = Now, !.retryAt = until]
    BY <1>1, <2>1, <2>2 DEF Judgement
  <2>4. n \in 0..Len(Backoffs)
    BY CycleAssumption
  <2>. HIDE DEF o
  <2>5. same
    BY <2>3, <2>4, StampTypes, Zenon DEF AccountState, SameTally, SameTimes, SameMarks
  <2>. QED BY <2>5 DEF o
<1>2. CASE outcome = "progress"
  <2>1. o = [s EXCEPT !.retryAt = Never]
    BY <1>2 DEF Judgement
  <2>. HIDE DEF o
  <2>2. same
    BY <2>1, StampTypes, Zenon DEF AccountState, SameTally, SameTimes, SameMarks
  <2>. QED BY <2>2 DEF o
<1>3. CASE outcome = "success"
  <2>1. o = [s EXCEPT !.failures = 0, !.failedAt = Never, !.retryAt = Never]
    BY <1>3 DEF Judgement
  <2>2. 0 \in 0..Len(Backoffs)
    BY CycleAssumption
  <2>. HIDE DEF o
  <2>3. same
    BY <2>1, <2>2, StampTypes, Zenon DEF AccountState, SameTally, SameTimes, SameMarks
  <2>. QED BY <2>3 DEF o
<1>4. CASE outcome = "no-result"
  <2>1. PICK until \in Later : until = Now + RecoveryTime
    BY Times DEF Later, Never
  <2>2. o = [s EXCEPT !.retryAt = until]
    BY <1>4, <2>1 DEF Judgement
  <2>. HIDE DEF o
  <2>3. same
    BY <2>2, Zenon DEF AccountState, SameTally, SameTimes, SameMarks
  <2>. QED BY <2>3 DEF o
<1>5. CASE outcome = ""
  <2>1. o = s
    BY <1>5 DEF Judgement
  <2>. HIDE DEF o
  <2>2. same
    BY <2>1, Zenon DEF SameTally, SameTimes, SameMarks
  <2>. QED BY <2>2 DEF o
<1>. QED BY <1>1, <1>2, <1>3, <1>4, <1>5 DEF Outcome

\* The end of a trial: where a rollback would return to moves on with each step.
LEMMA FinishedType ==
  ASSUME NEW s \in AccountState, NEW r \in Recommendation
  PROVE  LET o == Finished(s, r)
         IN /\ o \in AccountState
            /\ SameTally(o, s) /\ SameTimes(o, s) /\ SameMarks(o, s)
            /\ o.original = IF lease.recovery /\ ~r.done /\ r.want < r.cur
                            THEN r.cur ELSE s.original
<1>. DEFINE o == Finished(s, r)
            same(t) == /\ o \in AccountState
                       /\ SameTally(o, t) /\ SameTimes(o, t) /\ SameMarks(o, t)
                       /\ o.original = t.original
<1>1. r.outcome \in Outcome /\ r.cur \in 0..Unavailable
  <2>1. r.outcome \in Outcome
    BY DEF Recommendation, Outcome
  <2>2. r.cur \in Priority
    BY DEF Recommendation, Priority
  <2>. QED BY <2>1, <2>2, OnScale DEF Priority
<1>2. CASE lease.recovery /\ ~r.done /\ r.want < r.cur
  <2>. DEFINE t == [s EXCEPT !.original = r.cur]
  <2>1. /\ t \in AccountState
        /\ SameTally(t, s) /\ SameTimes(t, s) /\ SameMarks(t, s) /\ t.original = r.cur
    BY <1>1, Zenon DEF AccountState, SameTally, SameTimes, SameMarks
  <2>2. o = Judgement(t, r.outcome)
    BY <1>2 DEF Finished
  <2>. HIDE DEF t, o
  <2>3. same(t)
    BY <1>1, <2>1, <2>2, JudgementType
  <2>. QED BY <1>2, <2>1, <2>3 DEF o, SameTally, SameTimes, SameMarks
<1>3. CASE lease.recovery /\ ~r.done /\ ~(r.want < r.cur)
  <2>1. o = Judgement(s, r.outcome)
    BY <1>3 DEF Finished
  <2>. HIDE DEF o
  <2>2. same(s)
    BY <1>1, <2>1, JudgementType
  <2>. QED BY <1>3, <2>2 DEF o
<1>4. CASE ~(lease.recovery /\ ~r.done)
  <2>1. o = s
    BY <1>4 DEF Finished
  <2>. HIDE DEF o
  <2>. QED BY <1>4, <2>1 DEF o, SameTally, SameTimes, SameMarks
<1>. QED BY <1>2, <1>3, <1>4

LEMMA ForgetType ==
  ASSUME NEW s \in AccountState
  PROVE  LET o == Forget(s)
         IN /\ o \in AccountState
            /\ o.count = 0 /\ SameTimes(o, s) /\ SameMarks(o, s) /\ o.original = s.original
<1>1. 0 \in 0..Unavailable /\ 0 \in 0..Confirmations
  BY OnScale, Times
<1>. QED BY <1>1, StampTypes, Zenon DEF Forget, AccountState, SameTimes, SameMarks

LEMMA SeenType ==
  ASSUME TypeOK, NEW a \in Accounts
  PROVE  LET o == SeenNow(a)
         IN /\ o \in AccountState
            /\ SameTally(o, st[a]) /\ SameMarks(o, st[a])
            /\ o.seen = Now /\ o.applied = st[a].applied /\ o.original = st[a].original
            /\ o.failSeen = st[a].failSeen /\ o.failures = st[a].failures
<1>1. st[a] \in AccountState
  BY DEF TypeOK
<1>. QED BY <1>1, StampTypes, Zenon DEF SeenNow, AccountState, SameTally, SameMarks

\* A write that succeeded.
LEMMA CommittedType ==
  ASSUME TypeOK, NEW a \in Accounts, NEW s \in AccountState, NEW r \in Recommendation
  PROVE  LET o == Committed(s, a, r)
         IN /\ o \in AccountState
            /\ o.count = 0 /\ o.seen = s.seen /\ o.applied = Now
            /\ SameMarks(o, Observed(s, a, r)) /\ o.original = Observed(s, a, r).original
<1>. DEFINE b == Observed(s, a, r)
            f == Forget(b)
            o == Committed(s, a, r)
<1>1. b \in AccountState /\ b.seen = s.seen
  BY ObservedType DEF SameTimes
<1>2. /\ f \in AccountState
      /\ f.count = 0 /\ SameTimes(f, b) /\ SameMarks(f, b) /\ f.original = b.original
  <2>. HIDE DEF b
  <2>. QED BY <1>1, ForgetType
<1>3. o = [f EXCEPT !.applied = Now]
  BY DEF Committed
<1>. HIDE DEF f, b, o
<1>4. /\ o \in AccountState
      /\ o.count = f.count /\ o.seen = f.seen /\ o.applied = Now
      /\ SameMarks(o, f) /\ o.original = f.original
  BY <1>2, <1>3, StampTypes, Zenon DEF AccountState, SameMarks
<1>. QED BY <1>1, <1>2, <1>4, Zenon DEF o, b, SameTimes, SameMarks

\* A confirmation.
LEMMA NotedType ==
  ASSUME NEW s \in AccountState, NEW r \in Recommendation
  PROVE  LET o == Noted(s, r)
             same == s.count > 0 /\ Direction(r.cur, s.cand) = Direction(r.cur, r.want)
         IN /\ o \in AccountState
            /\ SameTimes(o, s) /\ SameMarks(o, s) /\ o.original = s.original
            /\ o.cand = r.want /\ Set(o.since)
            /\ o.count = IF same THEN Smaller(s.count + 1, Confirmations) ELSE 1
            /\ o.since = IF same /\ Set(s.since) THEN s.since ELSE Now
<1>. DEFINE same == s.count > 0 /\ Direction(r.cur, s.cand) = Direction(r.cur, r.want)
            o == Noted(s, r)
<1>1. PICK count \in 0..Confirmations :
        count = IF same THEN Smaller(s.count + 1, Confirmations) ELSE 1
  <2>1. s.count \in 0..Confirmations /\ Confirmations \in Nat \ {0}
    BY StateFields, Times
  <2>2. Smaller(s.count + 1, Confirmations) \in 0..Confirmations
    BY <2>1 DEF Smaller
  <2>. QED BY <2>1, <2>2
<1>2. PICK since \in Stamps :
        /\ since = IF same /\ Set(s.since) THEN s.since ELSE Now
        /\ Set(since)
  <2>1. Set(Now)
    BY Times DEF Set, Never
  <2>. QED BY <2>1, StateFields, StampTypes
<1>3. r.want \in 0..Unavailable
  <2>1. r.want \in Priority
    BY DEF Recommendation, Priority
  <2>. QED BY <2>1, OnScale DEF Priority
<1>4. o = [s EXCEPT !.cand = r.want, !.count = count, !.since = since]
  BY <1>1, <1>2 DEF Noted
<1>. HIDE DEF same, o
<1>5. /\ o \in AccountState
      /\ SameTimes(o, s) /\ SameMarks(o, s) /\ o.original = s.original
      /\ o.cand = r.want /\ o.count = count /\ o.since = since
  BY <1>3, <1>4, Zenon DEF AccountState, SameTimes, SameMarks
<1>. QED BY <1>1, <1>2, <1>5 DEF o, same

LEMMA BegunType ==
  ASSUME NEW s \in AccountState, NEW r \in Recommendation
  PROVE  LET o == Begun(s, r)
         IN /\ o \in AccountState
            /\ SameTally(o, s) /\ SameTimes(o, s) /\ SameMarks(o, s)
            /\ o.original = IF r.recovery /\ r.want # r.cur THEN r.cur ELSE s.original
<1>. DEFINE o == Begun(s, r)
<1>1. PICK origin \in 0..Unavailable :
        origin = IF r.recovery /\ r.want # r.cur THEN r.cur ELSE s.original
  <2>1. r.cur \in Priority
    BY DEF Recommendation, Priority
  <2>2. r.cur \in 0..Unavailable
    BY <2>1, OnScale DEF Priority
  <2>. QED BY <2>2, StateFields
<1>2. o = [s EXCEPT !.explored = Now, !.original = origin]
  BY <1>1 DEF Begun
<1>. HIDE DEF o
<1>3. /\ o \in AccountState
      /\ SameTally(o, s) /\ SameTimes(o, s) /\ SameMarks(o, s) /\ o.original = origin
  BY <1>2, StampTypes, Zenon DEF AccountState, SameTally, SameTimes, SameMarks
<1>. QED BY <1>1, <1>3, Zenon DEF o

LEMMA NewLeaseType ==
  ASSUME TypeOK, NEW a \in Accounts, NEW r \in Recommendation, NEW s \in AccountState
  PROVE  LET l == NewLease(a, r, s)
         IN /\ l \in Lease /\ LeaseOK(l) /\ l.account = a /\ l.recovery = r.recovery
            /\ r.recovery /\ s.original > r.cur /\ Set(s.applied) => l.started = s.applied
<1>. DEFINE resumed == r.recovery /\ s.original > r.cur
            l == NewLease(a, r, s)
<1>1. /\ r.cur \in Priority /\ r.want \in Priority /\ r.anchor \in 0..Poor
  BY DEF Recommendation, Priority
<1>2. r.recovery \in BOOLEAN
  BY DEF Recommendation
<1>3. PICK original \in 0..Unavailable : original = IF resumed THEN s.original ELSE r.cur
  BY <1>1, StateFields, OnScale DEF Priority
<1>4. PICK started \in Stamps :
        /\ started = IF resumed /\ Set(s.applied) THEN s.applied ELSE Now
        /\ resumed /\ Set(s.applied) => started = s.applied
  BY StateFields, StampTypes
<1>5. PICK failed \in Stamps : failed = IF r.recovery THEN Shown(a).fail ELSE Never
  BY ShownType, StampTypes DEF Evidence
<1>6. r.want \in 0..Unavailable /\ r.want > 0
  BY <1>1, OnScale DEF Priority
<1>7. l = [account |-> a, original |-> original, started |-> started,
           recovery |-> r.recovery, target |-> r.anchor, priority |-> r.want,
           lastFail |-> failed]
  BY <1>3, <1>4, <1>5 DEF NewLease
<1>. HIDE DEF l
<1>8. /\ l \in Lease /\ l.account = a /\ l.recovery = r.recovery /\ l.started = started
      /\ l.priority = r.want
  BY <1>1, <1>2, <1>6, <1>7, Zenon DEF Lease
<1>9. LeaseOK(l)
  BY <1>6, <1>8 DEF LeaseOK
<1>. QED BY <1>4, <1>8, <1>9, Zenon DEF l

-----------------------------------------------------------------------------
(* The types.                                                               *)

\* What RunOnce recommends before the reliability of an account is looked at:
\* what its running trial or its score calls for, or the start of a trial.
Asked(a, r) ==
  \/ r = Judged(a)
  \/ Free /\ Recoverable(a, Held(a)) /\ r = StartRecovery(a, Held(a))
  \/ Free /\ Exploration /\ Cold(a) /\ r = StartExploring(Held(a))

LEMMA AskedType ==
  ASSUME Typed, NEW a \in Accounts, NEW r, Asked(a, r)
  PROVE  r \in Recommendation /\ ~r.rollback /\ r.cur = Current(a)
<1>1. CASE r = Judged(a)
  <2>1. LET j == Judged(a) IN j \in Recommendation /\ ~j.rollback /\ j.cur = Current(a)
    BY JudgedType, Zenon
  <2>. QED BY <1>1, <2>1, Zenon
<1>2. CASE Recoverable(a, Held(a)) /\ r = StartRecovery(a, Held(a))
  <2>1. LET j == StartRecovery(a, Held(a))
        IN  j \in Recommendation /\ ~j.rollback /\ j.cur = Current(a)
    BY <1>2, StartRecoveryType, Zenon
  <2>. QED BY <1>2, <2>1, Zenon
<1>3. CASE Cold(a) /\ r = StartExploring(Held(a))
  <2>1. LET j == StartExploring(Held(a))
        IN  j \in Recommendation /\ ~j.rollback /\ j.cur = Current(a)
    BY <1>3, StartExploringType, Zenon
  <2>. QED BY <1>3, <2>1, Zenon
<1>. QED BY <1>1, <1>2, <1>3 DEF Asked

\* At most one account is asked to start a trial.
LEMMA StartsType ==
  ASSUME NEW starts \in IF Free THEN Starts(RecoveryCandidates, ExploreCandidates) ELSE {<<>>}
  PROVE  /\ \A a \in DOMAIN starts : Asked(a, starts[a])
         /\ \A a, b \in DOMAIN starts : Free /\ a = b
<1>1. CASE starts = <<>>
  <2>1. DOMAIN starts = {}
    BY <1>1
  <2>. QED BY <2>1
<1>2. CASE Free /\ \E a \in RecoveryCandidates :
                     starts = [b \in {a} |-> StartRecovery(b, Held(b))]
  <2>1. PICK a \in RecoveryCandidates : starts = [b \in {a} |-> StartRecovery(b, Held(b))]
    BY <1>2
  <2>2. Recoverable(a, Held(a))
    BY DEF RecoveryCandidates, LongestAgo
  <2>3. DOMAIN starts = {a} /\ starts[a] = StartRecovery(a, Held(a))
    BY <2>1
  <2>. QED BY <1>2, <2>2, <2>3 DEF Asked
<1>3. CASE Free /\ \E a \in ExploreCandidates :
                     starts = [b \in {a} |-> StartExploring(Held(b))]
  <2>1. PICK a \in ExploreCandidates : starts = [b \in {a} |-> StartExploring(Held(b))]
    BY <1>3
  <2>2. Exploration /\ Cold(a)
    BY DEF ExploreCandidates, First, AfterCursor
  <2>3. DOMAIN starts = {a} /\ starts[a] = StartExploring(Held(a))
    BY <2>1
  <2>. QED BY <1>3, <2>2, <2>3 DEF Asked
<1>. QED BY <1>1, <1>2, <1>3 DEF Starts

\* The recommendations of a cycle.
LEMMA LoadAsks ==
  ASSUME Typed, Load
  PROVE  /\ DOMAIN rec' = Listed /\ left' = Listed
         /\ \A a \in Listed : \E r : Asked(a, r) /\ rec'[a] = Reviewed(a, r)
         /\ \A a, b \in Listed : rec'[a].start /\ rec'[b].start => Free /\ a = b
<1>1. PICK starts \in IF Free THEN Starts(RecoveryCandidates, ExploreCandidates) ELSE {<<>>} :
        Prepare(starts)
  BY DEF Load
<1>2. /\ \A a \in DOMAIN starts : Asked(a, starts[a])
      /\ \A a, b \in DOMAIN starts : Free /\ a = b
  BY <1>1, StartsType
<1>3. /\ left' = Listed
      /\ rec' = [a \in Listed |->
                   Reviewed(a, IF a \in DOMAIN starts THEN starts[a] ELSE Judged(a))]
  BY <1>1 DEF Prepare
<1>4. ASSUME NEW a \in Listed
      PROVE  /\ \E r : Asked(a, r) /\ rec'[a] = Reviewed(a, r)
             /\ rec'[a].start => a \in DOMAIN starts
  <2>1. a \in Accounts
    BY DEF Listed
  <2>2. CASE a \in DOMAIN starts
    BY <1>2, <1>3, <2>2
  <2>3. CASE a \notin DOMAIN starts
    <3>. DEFINE j == Judged(a)
    <3>1. rec'[a] = Reviewed(a, j)
      BY <1>3, <2>3
    <3>2. j \in Recommendation /\ ~j.rollback /\ ~j.start
      BY <2>1, JudgedType, Zenon
    <3>3. ~Reviewed(a, j).start
      <4>. HIDE DEF j
      <4>. QED BY <2>1, <3>2, ReviewedType
    <3>4. Asked(a, j)
      BY DEF Asked
    <3>. QED BY <3>1, <3>3, <3>4
  <2>. QED BY <2>2, <2>3
<1>5. DOMAIN rec' = Listed
  BY <1>3
<1>. QED BY <1>2, <1>3, <1>4, <1>5

LEMMA HistoryTypes ==
  ASSUME TypeOK, NEW a \in Accounts, NEW r \in Recommendation, NEW p
  PROVE  /\ Witnessed(a, r) \in History
         /\ Recorded(a, r, p) \in History
         /\ NoHistory \in History
<1>1. hist[a] \in History
  BY DEF TypeOK
<1>2. /\ hist[a].since \in Stamps /\ hist[a].high \in Stamps /\ hist[a].risen \in Stamps
      /\ hist[a].fell \in Stamps /\ hist[a].blamed \in Stamps /\ hist[a].dir \in {-1, 0, 1}
  BY <1>1 DEF History
<1>3. Shown(a).fail \in Stamps
  BY ShownType DEF Evidence
<1>4. Witnessed(a, r) \in History
  <2>1. PICK dir \in {-1, 0, 1} :
          dir = IF r.atOnce THEN hist[a].dir ELSE Direction(r.cur, r.want)
    BY <1>2 DEF Direction
  <2>2. PICK since \in Stamps :
          since = IF r.atOnce \/ hist[a].dir = Direction(r.cur, r.want)
                  THEN hist[a].since ELSE Now
    BY <1>2, StampTypes
  <2>3. PICK high \in Stamps :
          high = IF Shown(a).enough /\ Shown(a).rate = "high"
                 THEN IF Set(hist[a].high) THEN hist[a].high ELSE Now ELSE Never
    BY <1>2, StampTypes
  <2>4. Witnessed(a, r) = [hist[a] EXCEPT !.dir = dir, !.since = since, !.high = high]
    BY <2>1, <2>2, <2>3 DEF Witnessed
  <2>. QED BY <1>1, <2>4, Zenon DEF History
<1>5. Recorded(a, r, p) \in History
  <2>1. PICK risen \in Stamps :
          risen = IF r.trial /\ r.recovery /\ ~r.done /\ p < r.cur THEN Now ELSE Never
    BY StampTypes
  <2>2. PICK fell \in Stamps : fell = IF r.rollback THEN Now ELSE hist[a].fell
    BY <1>2, StampTypes
  <2>3. PICK blamed \in Stamps :
          blamed = IF r.rollback THEN Shown(a).fail ELSE hist[a].blamed
    BY <1>2, <1>3
  <2>4. PICK high \in Stamps : high = IF r.rollback THEN Now ELSE hist[a].high
    BY <1>2, StampTypes
  <2>5. Recorded(a, r, p) = [hist[a] EXCEPT !.dir = 0, !.since = Now, !.risen = risen,
                               !.fell = fell, !.blamed = blamed, !.high = high]
    BY <2>1, <2>2, <2>3, <2>4 DEF Recorded
  <2>. QED BY <1>1, <2>5, StampTypes, Zenon DEF History
<1>6. NoHistory \in History
  BY StampTypes DEF NoHistory, History
<1>. QED BY <1>4, <1>5, <1>6

LEMMA NoneTypes ==
  /\ NoState \in AccountState
  /\ NoLease \in Lease /\ LeaseOK(NoLease)
  /\ NoHistory \in History
  /\ Accounts \subseteq Nat \ {0} /\ None \notin Accounts
<1>1. 0 \in 0..Len(Backoffs) /\ 0 \in 0..Confirmations /\ 0 \in 0..Unavailable /\ 0 \in 0..Poor
  BY CycleAssumption, OnScale
<1>2. NoState \in AccountState
  BY <1>1, StampTypes DEF NoState, AccountState
<1>3. NoLease \in Lease /\ LeaseOK(NoLease)
  BY <1>1, StampTypes DEF NoLease, Lease, LeaseOK, None
<1>4. NoHistory \in History
  BY StampTypes DEF NoHistory, History
<1>5. Accounts \subseteq Nat \ {0} /\ None \notin Accounts
  BY CycleAssumption DEF None
<1>. QED BY <1>2, <1>3, <1>4, <1>5

LEMMA EnvironmentTypes ==
  ASSUME TypeOK
  PROVE  /\ Kinds \in [Accounts -> SUBSET Kind]
         /\ MaxCrashes \in Nat
<1>1. Environment(Environments[env])
  BY CycleAssumption DEF TypeOK
<1>. QED BY <1>1 DEF Environment, Kinds, MaxCrashes

LEMMA KeptTypes ==
  ASSUME TypeOK
  PROVE  Kept \in [Accounts -> AccountState] /\ Remembered \in [Accounts -> History]
BY NoneTypes DEF TypeOK, Kept, Remembered

LEMMA TypedInit == Init => Typed
<1>. SUFFICES ASSUME Init PROVE Typed
  OBVIOUS
<1>1. env \in DOMAIN Environments /\ prio \in [Accounts -> 1..Unavailable]
  BY CycleAssumption DEF Init
<1>2. ev \in [Accounts -> Evidence]
  <2>1. [Blank EXCEPT !.listed = "yes"] \in Evidence
    <3>1. Blank \in Evidence
      BY OnScale, Times DEF Blank, Evidence, Costs, Stamps, Never, Priority
    <3>. QED BY <3>1, Zenon DEF Evidence
  <2>. QED BY <2>1 DEF Init
<1>3. /\ st \in [Accounts -> AccountState] /\ lease \in Lease /\ LeaseOK(lease)
      /\ cursor \in Accounts \cup {None} /\ hist \in [Accounts -> History]
  BY NoneTypes DEF Init
<1>4. /\ disk \in [st : [Accounts -> AccountState], lease : Lease, cursor : Accounts \cup {None}]
      /\ LeaseOK(disk.lease)
  BY <1>3 DEF Init
<1>5. DOMAIN rec = {} /\ left = {} /\ phase \in {"idle", "applying", "done"}
  BY DEF Init
<1>6. crashes \in 0..MaxCrashes
  <2>1. MaxCrashes \in Nat
    BY <1>1, CycleAssumption DEF Environment, MaxCrashes
  <2>. QED BY <2>1 DEF Init
<1>. QED BY <1>1, <1>2, <1>3, <1>4, <1>5, <1>6 DEF Typed, TypeOK

LEMMA TypedLoad ==
  ASSUME Typed, Load
  PROVE  Typed'
<1>1. PICK starts : Prepare(starts)
  BY DEF Load
<1>2. \A a \in Listed : rec'[a] \in Recommendation
  <2>. SUFFICES ASSUME NEW a \in Listed PROVE rec'[a] \in Recommendation
    OBVIOUS
  <2>1. a \in Accounts
    BY DEF Listed
  <2>2. PICK r : Asked(a, r) /\ rec'[a] = Reviewed(a, r)
    BY LoadAsks
  <2>3. r \in Recommendation /\ ~r.rollback
    BY <2>1, <2>2, AskedType
  <2>. QED BY <2>1, <2>2, <2>3, ReviewedType
<1>3. Listed \subseteq Accounts /\ DOMAIN rec' = Listed /\ left' = Listed
  BY LoadAsks DEF Listed
<1>4. hist' \in [Accounts -> History]
  <2>1. \A a \in Listed \cap Watched : Witnessed(a, rec'[a]) \in History
    BY <1>2, <1>3, HistoryTypes DEF Typed
  <2>2. \A a \in Accounts : Remembered[a] \in History
    BY KeptTypes DEF Typed
  <2>. QED BY <1>1, <2>1, <2>2 DEF Prepare
<1>5. st' \in [Accounts -> AccountState]
  BY <1>1, KeptTypes DEF Prepare, Typed
<1>6. lease' \in Lease /\ LeaseOK(lease')
  BY <1>1, NoneTypes DEF Prepare, Typed, TypeOK
<1>7. /\ env' = env /\ prio' = prio /\ ev' = ev /\ cursor' = cursor /\ disk' = disk
      /\ crashes' = crashes /\ phase' = "applying"
  BY <1>1 DEF Prepare
<1>8. MaxCrashes' = MaxCrashes
  BY <1>7 DEF MaxCrashes
<1>. QED BY <1>2, <1>3, <1>4, <1>5, <1>6, <1>7, <1>8 DEF Typed, TypeOK

LEMMA TypedLoadFails ==
  ASSUME Typed, LoadFails
  PROVE  Typed'
<1>1. st' \in [Accounts -> AccountState] /\ hist' \in [Accounts -> History]
  BY KeptTypes DEF LoadFails, Typed, TypeOK
<1>2. MaxCrashes' = MaxCrashes
  BY DEF LoadFails, MaxCrashes
<1>. QED BY <1>1, <1>2 DEF LoadFails, Typed, TypeOK

LEMMA TypedCrash ==
  ASSUME Typed, Crash
  PROVE  Typed'
<1>1. /\ disk.st \in [Accounts -> AccountState] /\ disk.lease \in Lease
      /\ disk.cursor \in Accounts \cup {None}
  BY DEF Typed, TypeOK
<1>2. MaxCrashes' = MaxCrashes /\ MaxCrashes \in Nat
  BY EnvironmentTypes DEF Crash, MaxCrashes, Typed
<1>3. crashes' \in 0..MaxCrashes
  BY <1>2 DEF Crash, Typed, TypeOK
<1>4. DOMAIN rec' = {} /\ left' = {}
  BY DEF Crash
<1>. QED BY <1>1, <1>2, <1>3, <1>4 DEF Crash, Typed, TypeOK

LEMMA TypedSave ==
  ASSUME Typed, NEW outcome, Save(outcome)
  PROVE  Typed'
<1>1. Pruned \in [Accounts -> AccountState]
  BY NoneTypes DEF Pruned, Typed, TypeOK
<1>2. MaxCrashes' = MaxCrashes
  BY DEF Save, MaxCrashes
<1>3. DOMAIN rec' = {} /\ left' = {}
  BY DEF Save
<1>4. /\ disk' \in [st : [Accounts -> AccountState], lease : Lease, cursor : Accounts \cup {None}]
      /\ LeaseOK(disk'.lease)
  BY <1>1 DEF Save, Typed, TypeOK
<1>. QED BY <1>1, <1>2, <1>3, <1>4 DEF Save, Typed, TypeOK

\* Time makes a stamp smaller, in order.
LEMMA AgedType ==
  /\ \A t \in Stamps : Aged(t) \in Stamps /\ Aged(t) <= t
  /\ \A t \in Later : Aged(t) \in Later
  /\ \A t, u \in Stamps : t <= u => Aged(t) <= Aged(u)
  /\ \A t \in Stamps : Set(Aged(t)) <=> Set(t)
BY Times DEF Aged, Larger, Stamps, Later, Never, Set

LEMMA AgedStateType ==
  ASSUME NEW s \in AccountState
  PROVE  /\ AgedState(s) \in AccountState
         /\ AgedState(s).cand = s.cand /\ AgedState(s).count = s.count
         /\ AgedState(s).original = s.original
         /\ AgedState(s).since = Aged(s.since) /\ AgedState(s).seen = Aged(s.seen)
         /\ AgedState(s).applied = Aged(s.applied)
         /\ AgedState(s).rolledAt = Aged(s.rolledAt)
         /\ AgedState(s).highSince = Aged(s.highSince)
         /\ AgedState(s).retryAt = Aged(s.retryAt)
<1>1. /\ Aged(s.since) \in Stamps /\ Aged(s.seen) \in Stamps /\ Aged(s.applied) \in Stamps
      /\ Aged(s.explored) \in Stamps /\ Aged(s.failedAt) \in Stamps
      /\ Aged(s.failSeen) \in Stamps /\ Aged(s.rolledAt) \in Stamps
      /\ Aged(s.highSince) \in Stamps /\ Aged(s.retryAt) \in Later
  BY StateFields, AgedType
<1>. QED BY <1>1, Zenon DEF AgedState, AccountState

LEMMA AgedLeaseType ==
  ASSUME NEW l \in Lease
  PROVE  /\ AgedLease(l) \in Lease /\ AgedLease(l).account = l.account
         /\ AgedLease(l).recovery = l.recovery /\ AgedLease(l).priority = l.priority
         /\ AgedLease(l).started = Aged(l.started)
         /\ AgedLease(l).original = l.original
<1>1. l.started \in Stamps /\ l.lastFail \in Stamps
  BY DEF Lease
<1>2. Aged(l.started) \in Stamps /\ Aged(l.lastFail) \in Stamps
  BY <1>1, AgedType
<1>. QED BY <1>2, Zenon DEF AgedLease, Lease

AgedHistory(h) ==
  [h EXCEPT !.risen = Aged(@), !.fell = Aged(@), !.blamed = Aged(@),
            !.since = Aged(@), !.high = Aged(@)]

LEMMA AgedHistoryType ==
  ASSUME NEW h \in History
  PROVE  /\ AgedHistory(h) \in History
         /\ AgedHistory(h).dir = h.dir /\ AgedHistory(h).risen = Aged(h.risen)
         /\ AgedHistory(h).fell = Aged(h.fell) /\ AgedHistory(h).blamed = Aged(h.blamed)
         /\ AgedHistory(h).since = Aged(h.since)
<1>1. /\ h.risen \in Stamps /\ h.fell \in Stamps /\ h.blamed \in Stamps
      /\ h.since \in Stamps /\ h.high \in Stamps
  BY DEF History
<1>2. /\ Aged(h.risen) \in Stamps /\ Aged(h.fell) \in Stamps /\ Aged(h.blamed) \in Stamps
      /\ Aged(h.since) \in Stamps /\ Aged(h.high) \in Stamps
  BY <1>1, AgedType
<1>. QED BY <1>2, Zenon DEF AgedHistory, History

\* The evidence of the next cycle: a failure in it is in the window.
LEMMA LeftType ==
  ASSUME TypeOK, NEW a \in Accounts, NEW k \in Kind
  PROVE  /\ Left(a, k) \in Evidence
         /\ (Set(ev[a].fail) => ev[a].fail <= Now - 1)
            => (Set(Left(a, k).fail) => Left(a, k).fail \in (Now - Window)..(Now - 1))
<1>1. ev[a].fail \in Stamps /\ ev[a].fifth \in Stamps /\ ev[a].ok \in Stamps
  BY DEF TypeOK, Evidence
<1>2. PICK fail \in Stamps :
        /\ fail = IF "fail" \in k.new THEN Now - 1 ELSE InWindow(Aged(ev[a].fail))
        /\ (Set(ev[a].fail) => ev[a].fail <= Now - 1)
             => (Set(fail) => fail \in (Now - Window)..(Now - 1))
  BY <1>1, Times DEF Stamps, Never, Aged, Larger, InWindow, Set
<1>3. PICK fifth \in Stamps :
        fifth = IF "fifth" \in k.new THEN Now - 1 ELSE Aged(ev[a].fifth)
  BY <1>1, Times DEF Stamps, Never, Aged, Larger
<1>4. PICK ok \in Stamps :
        ok = IF "ok" \in k.new THEN Now - 1 ELSE InWindow(Aged(ev[a].ok))
  BY <1>1, Times DEF Stamps, Never, Aged, Larger, InWindow
<1>5. /\ k.listed \in {"yes", "gone", "excluded"} /\ k.hard \in BOOLEAN /\ k.cost \in Costs
      /\ k.reeval \in BOOLEAN /\ k.goal \in Best..Poor /\ k.enough \in BOOLEAN
      /\ k.rate \in {"low", "mid", "high"} /\ k.five \in BOOLEAN /\ k.thin \in BOOLEAN
  BY Zenon DEF Kind
<1>6. Left(a, k) =
        [listed |-> k.listed, hard |-> k.hard, cost |-> k.cost, reeval |-> k.reeval,
         goal |-> k.goal, enough |-> k.enough, rate |-> k.rate, five |-> k.five,
         thin |-> k.thin, fail |-> fail, fifth |-> fifth, ok |-> ok]
  BY <1>2, <1>3, <1>4 DEF Left
<1>. DEFINE e == Left(a, k)
<1>. HIDE DEF e
<1>7. e \in Evidence /\ e.fail = fail
  <2>1. e = [listed |-> k.listed, hard |-> k.hard, cost |-> k.cost, reeval |-> k.reeval,
             goal |-> k.goal, enough |-> k.enough, rate |-> k.rate, five |-> k.five,
             thin |-> k.thin, fail |-> fail, fifth |-> fifth, ok |-> ok]
    BY <1>6 DEF e
  <2>. QED BY <1>5, <2>1, Zenon DEF Evidence
<1>. QED BY <1>2, <1>7 DEF e

\* An interval ages the stamps, changes the evidence and leaves the rest.
LEMMA TickParts ==
  ASSUME Typed, Tick
  PROVE  /\ \A a \in Accounts : \E k \in Kind : ev'[a] = Left(a, k)
         /\ ev' \in [Accounts -> Evidence]
         /\ \A a \in Accounts : st'[a] = AgedState(st[a])
         /\ \A a \in Accounts : hist'[a] = AgedHistory(hist[a])
         /\ lease' = AgedLease(lease)
         /\ prio' = prio /\ left' = left /\ rec' = rec /\ crashes' = crashes /\ env' = env
         /\ phase = "done" /\ phase' = "idle"
<1>1. PICK k \in [Accounts -> UNION {Kinds[b] : b \in Accounts}] :
        /\ \A a \in Accounts : k[a] \in Kinds[a]
        /\ ev' = [a \in Accounts |-> Left(a, k[a])]
  BY DEF Tick
<1>2. \A a \in Accounts : k[a] \in Kind
  BY <1>1, EnvironmentTypes DEF Typed
<1>3. \A a \in Accounts : Left(a, k[a]) \in Evidence
  BY <1>2, LeftType DEF Typed
<1>4. \A a \in Accounts : hist'[a] = AgedHistory(hist[a])
  BY DEF Tick, AgedHistory
<1>. QED BY <1>1, <1>2, <1>3, <1>4 DEF Tick

LEMMA TypedTick ==
  ASSUME Typed, Tick
  PROVE  Typed'
<1>1. \A a \in Accounts : AgedState(st[a]) \in AccountState
  BY AgedStateType DEF Typed, TypeOK
<1>2. \A a \in Accounts : AgedHistory(hist[a]) \in History
  BY AgedHistoryType DEF Typed, TypeOK
<1>3. st' \in [Accounts -> AccountState]
  BY <1>1 DEF Tick
<1>4. hist' \in [Accounts -> History]
  BY <1>2 DEF Tick, AgedHistory
<1>5. lease' \in Lease /\ LeaseOK(lease')
  BY AgedLeaseType DEF Tick, Typed, TypeOK, LeaseOK
<1>6. /\ disk' \in [st : [Accounts -> AccountState], lease : Lease, cursor : Accounts \cup {None}]
      /\ LeaseOK(disk'.lease)
  <2>1. /\ disk.st \in [Accounts -> AccountState] /\ disk.lease \in Lease
        /\ disk.cursor \in Accounts \cup {None} /\ LeaseOK(disk.lease)
    BY DEF Typed, TypeOK
  <2>2. \A a \in Accounts : AgedState(disk.st[a]) \in AccountState
    BY <2>1, AgedStateType
  <2>3. AgedLease(disk.lease) \in Lease /\ LeaseOK(AgedLease(disk.lease))
    BY <2>1, AgedLeaseType DEF LeaseOK
  <2>4. [a \in Accounts |-> AgedState(disk.st[a])] \in [Accounts -> AccountState]
    BY <2>2
  <2>5. disk' = [st |-> [a \in Accounts |-> AgedState(disk.st[a])],
                 lease |-> AgedLease(disk.lease), cursor |-> disk.cursor]
    BY DEF Tick, Typed, TypeOK
  <2>. QED BY <2>1, <2>3, <2>4, <2>5
<1>7. MaxCrashes' = MaxCrashes
  BY DEF Tick, MaxCrashes
<1>8. ev' \in [Accounts -> Evidence] /\ phase' = "idle"
  BY TickParts
<1>. QED BY <1>3, <1>4, <1>5, <1>6, <1>7, <1>8 DEF Typed, TypeOK, Tick

-----------------------------------------------------------------------------
(* The turn of an account.                                                  *)

LEMMA PutType ==
  ASSUME TypeOK, NEW a \in Accounts, rec[a] \in Recommendation, NEW p \in Priority, NEW outcome,
         Put(a, p, outcome)
  PROVE  prio' \in [Accounts -> 1..Unavailable] /\ hist' \in [Accounts -> History]
<1>1. prio \in [Accounts -> 1..Unavailable] /\ hist \in [Accounts -> History]
  BY DEF TypeOK
<1>2. Recorded(a, rec[a], p) \in History
  BY HistoryTypes
<1>. QED BY <1>1, <1>2 DEF Put, Priority

LEMMA NoPutType ==
  ASSUME TypeOK, NEW outcome, NoPut(outcome)
  PROVE  prio' \in [Accounts -> 1..Unavailable] /\ hist' \in [Accounts -> History]
BY DEF TypeOK, NoPut

\* What the turn of an account does to its state and to the lease.
LEMMA StartParts ==
  ASSUME Typed, NEW a \in Accounts, rec[a] \in Recommendation, NEW outcome,
         ApplyStart(a, outcome)
  PROVE  \E s \in AccountState :
           /\ st' = [st EXCEPT ![a] = s] /\ s.seen = Now
           /\ \/ /\ outcome = "ok" /\ lease' = NewLease(a, rec[a], s)
                 /\ s = Begun(IF rec[a].want # rec[a].cur THEN Committed(SeenNow(a), a, rec[a])
                              ELSE Observed(SeenNow(a), a, rec[a]), rec[a])
              \/ lease' = lease /\ s = SeenNow(a) /\ outcome # "ok"
<1>. DEFINE r == rec[a]
            o == IF r.want # r.cur THEN Committed(SeenNow(a), a, r) ELSE Observed(SeenNow(a), a, r)
<1>1. st \in [Accounts -> AccountState]
  BY DEF Typed, TypeOK
<1>2. SeenNow(a) \in AccountState /\ SeenNow(a).seen = Now
  BY SeenType DEF Typed
<1>3. o \in AccountState /\ o.seen = Now
  BY <1>2, ObservedType, CommittedType DEF Typed, SameTimes
<1>4. Begun(o, r) \in AccountState /\ Begun(o, r).seen = Now
  <2>. HIDE DEF o
  <2>. QED BY <1>3, BegunType DEF SameTimes
<1>5. CASE outcome = "ok"
  <2>1. st' = [st EXCEPT ![a] = Begun(o, r)] /\ lease' = NewLease(a, r, st'[a])
    BY <1>5 DEF ApplyStart, Becomes
  <2>2. st'[a] = Begun(o, r)
    BY <1>1, <2>1
  <2>. QED BY <1>4, <1>5, <2>1, <2>2
<1>6. CASE outcome # "ok"
  BY <1>2, <1>6 DEF ApplyStart, Becomes
<1>. QED BY <1>5, <1>6

\* What the turn of an account that stays where it is leaves of its state.
LEMMA SameParts ==
  ASSUME Typed, NEW a \in Accounts, rec[a] \in Recommendation, ApplySame(a)
  PROVE  LET r == rec[a]
             f == Forget(Observed(SeenNow(a), a, r))
         IN \E s \in AccountState :
           /\ st' = [st EXCEPT ![a] = s] /\ s.seen = Now /\ s.count = 0
           /\ s.applied = st[a].applied /\ SameMarks(s, Observed(SeenNow(a), a, r))
           /\ ~r.done => s.original = st[a].original
           /\ s.original = Observed(SeenNow(a), a, r).original
           /\ lease' = IF Ends(a, r) THEN NoLease ELSE lease
<1>. DEFINE r == rec[a]
            o == Observed(SeenNow(a), a, r)
            f == Forget(o)
            s == IF Ends(a, r) THEN Finished(f, r)
                 ELSE IF r.rollback THEN Judgement(f, r.outcome) ELSE f
<1>1. st' = [st EXCEPT ![a] = s] /\ r.want = r.cur
      /\ lease' = IF Ends(a, r) THEN NoLease ELSE lease
  BY DEF ApplySame, Becomes
<1>2. /\ SeenNow(a) \in AccountState /\ SeenNow(a).seen = Now
      /\ SeenNow(a).applied = st[a].applied /\ SeenNow(a).original = st[a].original
  BY SeenType DEF Typed
<1>3. /\ o \in AccountState /\ o.seen = Now /\ o.applied = st[a].applied
      /\ ~r.done => o.original = st[a].original
  BY <1>2, ObservedType DEF Typed, SameTimes
<1>4. /\ f \in AccountState /\ f.seen = Now /\ f.applied = st[a].applied
      /\ f.original = o.original /\ f.count = 0 /\ SameMarks(f, o)
  <2>. HIDE DEF o
  <2>. QED BY <1>3, ForgetType DEF SameTimes
<1>5. r.outcome \in Outcome /\ ~(r.want < r.cur)
  <2>1. r.outcome \in Outcome
    BY DEF Recommendation, Outcome
  <2>2. r.cur \in Priority
    BY DEF Recommendation, Priority
  <2>3. ~(r.want < r.cur)
    BY <1>1, <2>2 DEF Priority
  <2>. QED BY <2>1, <2>3
<1>6. /\ s \in AccountState /\ s.seen = f.seen /\ s.applied = f.applied
      /\ s.original = f.original /\ s.count = f.count /\ SameMarks(s, f)
  <2>. HIDE DEF f, r
  <2>1. /\ Finished(f, r) \in AccountState /\ SameTally(Finished(f, r), f)
        /\ SameTimes(Finished(f, r), f) /\ SameMarks(Finished(f, r), f)
        /\ Finished(f, r).original = f.original
    BY <1>4, <1>5, FinishedType DEF r
  <2>2. /\ Judgement(f, r.outcome) \in AccountState /\ SameTally(Judgement(f, r.outcome), f)
        /\ SameTimes(Judgement(f, r.outcome), f) /\ SameMarks(Judgement(f, r.outcome), f)
        /\ Judgement(f, r.outcome).original = f.original
    BY <1>4, <1>5, JudgementType
  <2>3. CASE Ends(a, r)
    BY <2>1, <2>3 DEF SameTally, SameTimes
  <2>4. CASE ~Ends(a, r) /\ r.rollback
    BY <2>2, <2>4 DEF SameTally, SameTimes
  <2>5. CASE ~Ends(a, r) /\ ~r.rollback
    BY <1>4, <2>5 DEF SameMarks
  <2>. QED BY <2>3, <2>4, <2>5
<1>7. SameMarks(s, o)
  <2>. HIDE DEF s, f, o
  <2>. QED BY <1>4, <1>6 DEF SameMarks
<1>. HIDE DEF s, f
<1>. QED BY <1>1, <1>3, <1>4, <1>6, <1>7

\* What a write at once leaves of the state, by its outcome.
LEMMA AtOnceParts ==
  ASSUME Typed, NEW a \in Accounts, rec[a] \in Recommendation, NEW outcome,
         ApplyAtOnce(a, outcome)
  PROVE  LET r == rec[a]
         IN \E s \in AccountState :
           /\ st' = [st EXCEPT ![a] = s] /\ s.seen = Now
           /\ \/ /\ outcome = "ok"
                 /\ s.count = 0 /\ s.applied = Now
                 /\ SameMarks(s, Observed(SeenNow(a), a, r))
                 /\ s.original = IF Ends(a, r) /\ lease.recovery /\ ~r.done /\ r.want < r.cur
                                 THEN r.cur ELSE Observed(SeenNow(a), a, r).original
                 /\ lease' = IF Ends(a, r) THEN NoLease ELSE lease
              \/ outcome # "ok" /\ s = SeenNow(a) /\ lease' = lease
<1>. DEFINE r == rec[a]
            o == Observed(SeenNow(a), a, r)
            f == Committed(SeenNow(a), a, r)
            s == IF Ends(a, r) THEN Finished(f, r)
                 ELSE IF r.recovery THEN Judgement(f, r.outcome) ELSE f
<1>1. CASE outcome = "ok"
  <2>1. st' = [st EXCEPT ![a] = s] /\ lease' = IF Ends(a, r) THEN NoLease ELSE lease
    BY <1>1 DEF ApplyAtOnce, Becomes
  <2>2. /\ SeenNow(a) \in AccountState /\ SeenNow(a).seen = Now
    BY SeenType DEF Typed
  <2>3. /\ f \in AccountState /\ f.seen = Now /\ f.applied = Now
        /\ f.original = o.original /\ f.count = 0 /\ SameMarks(f, o)
    BY <2>2, CommittedType DEF Typed
  <2>4. r.outcome \in Outcome
    BY DEF Recommendation, Outcome
  <2>5. /\ s \in AccountState /\ s.seen = f.seen /\ s.applied = f.applied
        /\ s.original = IF Ends(a, r) /\ lease.recovery /\ ~r.done /\ r.want < r.cur
                        THEN r.cur ELSE f.original
        /\ s.count = f.count /\ SameMarks(s, f)
    <3>. HIDE DEF f, r
    <3>1. /\ Finished(f, r) \in AccountState /\ SameTally(Finished(f, r), f)
          /\ SameTimes(Finished(f, r), f) /\ SameMarks(Finished(f, r), f)
          /\ Finished(f, r).original = IF lease.recovery /\ ~r.done /\ r.want < r.cur
                                       THEN r.cur ELSE f.original
      BY <2>3, FinishedType DEF r
    <3>2. /\ Judgement(f, r.outcome) \in AccountState /\ SameTally(Judgement(f, r.outcome), f)
          /\ SameTimes(Judgement(f, r.outcome), f) /\ SameMarks(Judgement(f, r.outcome), f)
          /\ Judgement(f, r.outcome).original = f.original
      BY <2>3, <2>4, JudgementType
    <3>3. CASE Ends(a, r)
      BY <3>1, <3>3 DEF SameTally, SameTimes
    <3>4. CASE ~Ends(a, r) /\ r.recovery
      BY <3>2, <3>4 DEF SameTally, SameTimes
    <3>5. CASE ~Ends(a, r) /\ ~r.recovery
      BY <2>3, <3>5 DEF SameMarks
    <3>. QED BY <3>3, <3>4, <3>5
  <2>6. SameMarks(s, o)
    <3>. HIDE DEF s, f, o
    <3>. QED BY <2>3, <2>5 DEF SameMarks
  <2>. HIDE DEF s, f
  <2>. QED BY <1>1, <2>1, <2>3, <2>5, <2>6
<1>2. CASE outcome # "ok"
  <2>1. SeenNow(a) \in AccountState /\ SeenNow(a).seen = Now
    BY SeenType DEF Typed
  <2>2. st' = [st EXCEPT ![a] = SeenNow(a)] /\ lease' = lease
    BY <1>2 DEF ApplyAtOnce, Becomes
  <2>. QED BY <1>2, <2>1, <2>2
<1>. QED BY <1>1, <1>2

\* An ordinary adjustment waits, or is written.
LEMMA StepParts ==
  ASSUME Typed, NEW a \in Accounts, rec[a] \in Recommendation, NEW outcome,
         ApplyStep(a, outcome)
  PROVE  LET r == rec[a]
             n == Noted(SeenNow(a), r)
         IN \E s \in AccountState :
           /\ st' = [st EXCEPT ![a] = s] /\ s.seen = Now
           /\ \/ /\ InGrace(n, a, r) /\ NoPut(outcome) /\ lease' = lease
                 /\ s = Observed(n, a, [r EXCEPT !.done = FALSE])
              \/ /\ ~InGrace(n, a, r) /\ (n.count < Confirmations \/ CoolingDown(n, a, r))
                 /\ NoPut(outcome) /\ lease' = lease /\ s = n
              \/ /\ ~InGrace(n, a, r) /\ n.count >= Confirmations /\ ~CoolingDown(n, a, r)
                 /\ Put(a, RampPriority(r.cur, r.want), outcome)
                 /\ outcome # "ok" /\ s = n /\ lease' = lease
              \/ /\ ~InGrace(n, a, r) /\ n.count >= Confirmations /\ ~CoolingDown(n, a, r)
                 /\ Put(a, RampPriority(r.cur, r.want), outcome)
                 /\ outcome = "ok" /\ s.count = 0 /\ s.applied = Now
                 /\ SameMarks(s, Observed(n, a, r))
                 /\ s.original = IF Ends(a, r) /\ lease.recovery /\ ~r.done /\ r.want < r.cur
                                 THEN r.cur ELSE Observed(n, a, r).original
                 /\ lease' = IF Ends(a, r) THEN NoLease ELSE lease
<1>. DEFINE r == rec[a]
            n == Noted(SeenNow(a), r)
            o == Observed(n, a, r)
            f == Committed(n, a, r)
            s == IF Ends(a, r) THEN Finished(f, r) ELSE f
            w == [r EXCEPT !.done = FALSE]
            x == Observed(n, a, w)
<1>1. n \in AccountState /\ n.seen = Now
  <2>1. SeenNow(a) \in AccountState /\ SeenNow(a).seen = Now
    BY SeenType DEF Typed
  <2>. QED BY <2>1, NotedType DEF SameTimes
<1>2. x \in AccountState /\ x.seen = Now
  <2>1. w \in Recommendation
    BY Zenon DEF Recommendation
  <2>. HIDE DEF n, w
  <2>. QED BY <1>1, <2>1, ObservedType DEF Typed, SameTimes
<1>3. /\ s \in AccountState /\ s.seen = Now /\ s.applied = Now
      /\ s.original = IF Ends(a, r) /\ lease.recovery /\ ~r.done /\ r.want < r.cur
                      THEN r.cur ELSE o.original
      /\ s.count = 0 /\ SameMarks(s, o)
  <2>1. /\ f \in AccountState /\ f.seen = Now /\ f.applied = Now
        /\ f.original = o.original /\ f.count = 0 /\ SameMarks(f, o)
    <3>. HIDE DEF n
    <3>. QED BY <1>1, CommittedType DEF Typed
  <2>2. /\ Finished(f, r) \in AccountState /\ SameTally(Finished(f, r), f)
        /\ SameTimes(Finished(f, r), f) /\ SameMarks(Finished(f, r), f)
        /\ Finished(f, r).original = IF lease.recovery /\ ~r.done /\ r.want < r.cur
                                     THEN r.cur ELSE f.original
    <3>. HIDE DEF f
    <3>. QED BY <2>1, FinishedType
  <2>. HIDE DEF f, o
  <2>. QED BY <2>1, <2>2 DEF SameTally, SameTimes, SameMarks
<1>4. CASE InGrace(n, a, r) /\ NoPut(outcome) /\ Becomes(a, x) /\ lease' = lease
  BY <1>2, <1>4 DEF Becomes
<1>5. CASE /\ ~InGrace(n, a, r) /\ (n.count < Confirmations \/ CoolingDown(n, a, r))
           /\ NoPut(outcome) /\ Becomes(a, n) /\ lease' = lease
  BY <1>1, <1>5 DEF Becomes
<1>6. CASE /\ ~InGrace(n, a, r) /\ n.count >= Confirmations /\ ~CoolingDown(n, a, r)
           /\ Put(a, RampPriority(r.cur, r.want), outcome)
           /\ IF outcome = "ok"
              THEN Becomes(a, s) /\ lease' = IF Ends(a, r) THEN NoLease ELSE lease
              ELSE Becomes(a, n) /\ lease' = lease
  <2>1. CASE outcome = "ok"
    <3>1. st' = [st EXCEPT ![a] = s] /\ lease' = IF Ends(a, r) THEN NoLease ELSE lease
      BY <1>6, <2>1 DEF Becomes
    <3>2. /\ s.count = 0 /\ s.applied = Now /\ SameMarks(s, Observed(n, a, r))
          /\ s.original = IF Ends(a, r) /\ lease.recovery /\ ~r.done /\ r.want < r.cur
                          THEN r.cur ELSE Observed(n, a, r).original
          /\ s \in AccountState /\ s.seen = Now
      BY <1>3
    <3>3. /\ ~InGrace(n, a, r) /\ n.count >= Confirmations /\ ~CoolingDown(n, a, r)
          /\ Put(a, RampPriority(r.cur, r.want), outcome)
      BY <1>6
    <3>. HIDE DEF n, s, r
    <3>. QED BY <2>1, <3>1, <3>2, <3>3, Zenon DEF n, r
  <2>2. CASE outcome # "ok"
    BY <1>1, <1>6, <2>2 DEF Becomes
  <2>. QED BY <2>1, <2>2
<1>7. \/ InGrace(n, a, r) /\ NoPut(outcome) /\ Becomes(a, x) /\ lease' = lease
      \/ /\ ~InGrace(n, a, r) /\ (n.count < Confirmations \/ CoolingDown(n, a, r))
         /\ NoPut(outcome) /\ Becomes(a, n) /\ lease' = lease
      \/ /\ ~InGrace(n, a, r) /\ n.count >= Confirmations /\ ~CoolingDown(n, a, r)
         /\ Put(a, RampPriority(r.cur, r.want), outcome)
         /\ IF outcome = "ok"
            THEN Becomes(a, s) /\ lease' = IF Ends(a, r) THEN NoLease ELSE lease
            ELSE Becomes(a, n) /\ lease' = lease
  BY DEF ApplyStep
<1>. QED BY <1>4, <1>5, <1>6, <1>7

\* What any turn leaves alone.
LEMMA StampsOfTurn ==
  ASSUME Typed, NEW a \in Accounts, NEW outcome, Apply(a, outcome)
  PROVE  /\ a \in left /\ phase = "applying" /\ rec[a] \in Recommendation
         /\ left' = left \ {a} /\ phase' = phase /\ rec' = rec
         /\ \A b \in left : rec[a].want <= rec[b].want
         /\ ev' = ev /\ env' = env /\ disk' = disk /\ crashes' = crashes
<1>1. Turn(a)
  BY DEF Apply, ApplyStart, ApplySame, ApplyAtOnce, ApplyStep
<1>. QED BY <1>1 DEF Turn, Typed, TypeOK

\* Only the account itself changes; the lease stays, ends or is newly taken.
LEMMA TurnParts ==
  ASSUME Typed, NEW a \in Accounts, NEW outcome, Apply(a, outcome)
  PROVE  \E s \in AccountState :
           /\ st' = [st EXCEPT ![a] = s] /\ s.seen = Now
           /\ \/ lease' = lease
              \/ Holds(a) /\ lease' = NoLease
              \/ rec[a].start /\ lease' = NewLease(a, rec[a], s)
<1>1. rec[a] \in Recommendation
  BY StampsOfTurn
<1>2. CASE ApplyStart(a, outcome)
  BY <1>1, <1>2, StartParts DEF ApplyStart
<1>3. CASE ApplySame(a)
  BY <1>1, <1>3, SameParts DEF Ends
<1>4. CASE ApplyAtOnce(a, outcome)
  BY <1>1, <1>4, AtOnceParts DEF Ends
<1>5. CASE ApplyStep(a, outcome)
  BY <1>1, <1>5, StepParts DEF Ends
<1>. QED BY <1>2, <1>3, <1>4, <1>5 DEF Apply

\* The write of a turn.
LEMMA TurnWrites ==
  ASSUME Typed, NEW a \in Accounts, NEW outcome, Apply(a, outcome)
  PROVE  \/ prio' = prio /\ hist' = hist
         \/ \E p \in Priority :
              /\ Put(a, p, outcome) /\ rec[a].want # rec[a].cur
              /\ \/ p = rec[a].want /\ rec[a].atOnce /\ ApplyAtOnce(a, outcome)
                 \/ p = rec[a].want /\ rec[a].start /\ ApplyStart(a, outcome)
                 \/ /\ p = RampPriority(rec[a].cur, rec[a].want) /\ ~rec[a].atOnce
                    /\ ApplyStep(a, outcome)
<1>1. rec[a] \in Recommendation
  BY StampsOfTurn
<1>2. rec[a].want \in Priority /\ RampPriority(rec[a].cur, rec[a].want) \in Priority
  <2>1. rec[a].want \in Priority /\ rec[a].cur \in Priority
    BY <1>1 DEF Recommendation, Priority
  <2>. QED BY <2>1, RampMoves
<1>3. CASE ApplyStart(a, outcome)
  BY <1>2, <1>3 DEF ApplyStart, NoPut
<1>4. CASE ApplySame(a)
  BY <1>4 DEF ApplySame
<1>5. CASE ApplyAtOnce(a, outcome)
  BY <1>2, <1>5 DEF ApplyAtOnce
<1>6. CASE ApplyStep(a, outcome)
  BY <1>2, <1>6 DEF ApplyStep, NoPut
<1>. QED BY <1>3, <1>4, <1>5, <1>6 DEF Apply

LEMMA TypedApply ==
  ASSUME Typed, NEW a \in Accounts, NEW outcome, Apply(a, outcome)
  PROVE  Typed'
<1>1. /\ rec[a] \in Recommendation /\ left' = left \ {a} /\ phase' = phase /\ rec' = rec
      /\ ev' = ev /\ env' = env /\ disk' = disk /\ crashes' = crashes
  BY StampsOfTurn
<1>2. prio' \in [Accounts -> 1..Unavailable] /\ hist' \in [Accounts -> History]
  BY <1>1, TurnWrites, PutType DEF Typed, TypeOK
<1>3. /\ st' \in [Accounts -> AccountState] /\ lease' \in Lease /\ LeaseOK(lease')
  <2>1. PICK s \in AccountState :
          /\ st' = [st EXCEPT ![a] = s]
          /\ lease' = lease \/ lease' = NoLease \/ lease' = NewLease(a, rec[a], s)
    BY TurnParts
  <2>2. NewLease(a, rec[a], s) \in Lease /\ LeaseOK(NewLease(a, rec[a], s))
    BY <1>1, NewLeaseType DEF Typed
  <2>3. st' \in [Accounts -> AccountState]
    BY <2>1 DEF Typed, TypeOK
  <2>4. lease \in Lease /\ LeaseOK(lease)
    BY DEF Typed, TypeOK
  <2>. QED BY <2>1, <2>2, <2>3, <2>4, NoneTypes
<1>4. cursor' \in Accounts \cup {None}
  BY DEF Typed, TypeOK, Apply, ApplyStart, ApplySame, ApplyAtOnce, ApplyStep
<1>5. MaxCrashes' = MaxCrashes
  BY <1>1 DEF MaxCrashes
<1>. QED BY <1>1, <1>2, <1>3, <1>4, <1>5 DEF Typed, TypeOK

LEMMA TypedStep == Typed /\ [Next]_vars => Typed'
<1>. SUFFICES ASSUME Typed, [Next]_vars PROVE Typed'
  OBVIOUS
<1>1. CASE UNCHANGED vars
  BY <1>1 DEF vars, memory, cycle, Typed, TypeOK, MaxCrashes
<1>2. CASE Next
  BY <1>2, TypedLoad, TypedLoadFails, TypedCrash, TypedTick, TypedApply, TypedSave DEF Next
<1>. QED BY <1>1, <1>2

\* The variables of a cycle keep their types, whatever the environment does.
THEOREM CycleTypes == Spec => []TypeOK
<1>1. Typed => TypeOK
  BY DEF Typed
<1>. QED BY <1>1, TypedInit, TypedStep, PTL DEF Spec
-----------------------------------------------------------------------------
(* Evidence is recent, and a recommendation stands until its turn comes.    *)

LEMMA EvidenceInit == Init => EvidenceInWindow
BY DEF Init, EvidenceInWindow, Blank, Set

LEMMA EvidenceStep == Typed /\ EvidenceInWindow /\ [Next]_vars => EvidenceInWindow'
<1>. SUFFICES ASSUME Typed, EvidenceInWindow, [Next]_vars PROVE EvidenceInWindow'
  OBVIOUS
<1>1. CASE Tick
  <2>. SUFFICES ASSUME NEW a \in Accounts
                PROVE  Set(ev'[a].fail) => ev'[a].fail \in (Now - Window)..(Now - 1)
    BY DEF EvidenceInWindow
  <2>1. PICK k \in Kind : ev'[a] = Left(a, k)
    BY <1>1, TickParts
  <2>2. ev[a].fail \in Stamps /\ (Set(ev[a].fail) => ev[a].fail \in (Now - Window)..(Now - 1))
    BY DEF EvidenceInWindow, Typed, TypeOK, Evidence
  <2>3. Set(ev[a].fail) => ev[a].fail <= Now - 1
    BY <2>2, Times
  <2>4. Set(Left(a, k).fail) => Left(a, k).fail \in (Now - Window)..(Now - 1)
    BY <2>3, LeftType DEF Typed
  <2>. QED BY <2>1, <2>4
<1>2. CASE ev' = ev
  BY <1>2 DEF EvidenceInWindow
<1>3. Tick \/ ev' = ev
  <2>1. CASE UNCHANGED vars
    BY <2>1 DEF vars
  <2>2. CASE Next
    BY <2>2, StampsOfTurn DEF Next, Load, Prepare, LoadFails, Crash, Save
  <2>. QED BY <2>1, <2>2
<1>. QED BY <1>1, <1>2, <1>3

\* The step leaves alone what concerns the account.
Untouched(a) ==
  /\ st'[a] = st[a] /\ prio'[a] = prio[a] /\ ev'[a] = ev[a]
  /\ Holds(a)' <=> Holds(a)
  /\ Holds(a) => lease' = lease

\* The turn of another account changes nothing this one is judged by:
LEMMA SameEvidence ==
  ASSUME NEW a \in Accounts, Untouched(a)
  PROVE  /\ Shown(a)' = Shown(a) /\ HighSince(a)' = HighSince(a)
         /\ (RecoveryOf(a)' <=> RecoveryOf(a)) /\ (Placeholder(a)' <=> Placeholder(a))
         /\ Current(a)' = Current(a) /\ Assessment(a)' = Assessment(a)
         /\ (a \in Listed)' <=> a \in Listed
<1>1. Shown(a)' = Shown(a)
  BY DEF Untouched, Shown
<1>2. HighSince(a)' = HighSince(a)
  BY <1>1 DEF Untouched, HighSince
<1>3. RecoveryOf(a)' <=> RecoveryOf(a)
  BY DEF Untouched, RecoveryOf
<1>4. Placeholder(a)' <=> Placeholder(a)
  BY <1>3 DEF Untouched, Placeholder, RecoveryOf, Expired
<1>5. Current(a)' = Current(a)
  BY <1>4 DEF Untouched, Current, Placeholder, RecoveryOf
<1>6. HandledUpTo(a)' = HandledUpTo(a) /\ CountedFrom(a)' = CountedFrom(a)
  BY DEF Untouched, HandledUpTo, CountedFrom
<1>7. Assessment(a)' = Assessment(a)
  BY <1>1, <1>2, <1>6 DEF Untouched, Assessment, Verdict
<1>8. (a \in Listed)' <=> a \in Listed
  BY <1>4 DEF Untouched, Listed
<1>. QED BY <1>1, <1>2, <1>3, <1>4, <1>5, <1>7, <1>8

\* neither what it is advised,
LEMMA SameVerdicts ==
  ASSUME NEW a \in Accounts, Untouched(a)
  PROVE  /\ Held(a)' = Held(a) /\ Judged(a)' = Judged(a)
         /\ Recoverable(a, Held(a))' <=> Recoverable(a, Held(a))
         /\ Cold(a)' <=> Cold(a)
         /\ StartRecovery(a, Held(a))' = StartRecovery(a, Held(a))
         /\ StartExploring(Held(a))' = StartExploring(Held(a))
<1>1. /\ Shown(a)' = Shown(a) /\ HighSince(a)' = HighSince(a)
      /\ (RecoveryOf(a)' <=> RecoveryOf(a)) /\ (Placeholder(a)' <=> Placeholder(a))
      /\ Current(a)' = Current(a) /\ Assessment(a)' = Assessment(a)
  BY SameEvidence
<1>2. Scored(a)' = Scored(a)
  BY <1>1 DEF Scored
<1>3. Graduated(a)' <=> Graduated(a)
  BY <1>1 DEF Untouched, Graduated
<1>4. Held(a)' = Held(a)
  <2>1. st'[a] = st[a]
    BY DEF Untouched
  <2>2. Graduated(a)' = Graduated(a)
    BY <1>3, Zenon DEF Graduated
  <2>. QED BY <1>1, <1>2, <2>1, <2>2, Zenon DEF Held
<1>5. Judged(a)' = Judged(a)
  <2>1. CASE ~Holds(a)
    BY <1>4, <2>1 DEF Judged, Untouched
  <2>2. CASE Holds(a)
    <3>1. lease' = lease /\ Holds(a)' /\ st'[a] = st[a]
      BY <2>2 DEF Untouched
    <3>. QED BY <1>1, <1>4, <2>2, <3>1 DEF Judged, RecoveryTrial, RecoveryNext, OnTrial,
               ExploreTrial, Over, Expired
  <2>. QED BY <2>1, <2>2
<1>6. Recoverable(a, Held(a))' <=> Recoverable(a, Held(a))
  BY <1>1, <1>4 DEF Recoverable, Untouched
<1>7. Cold(a)' <=> Cold(a)
  BY <1>1 DEF Cold, Untouched
<1>8. StartRecovery(a, Held(a))' = StartRecovery(a, Held(a))
  BY <1>1, <1>4 DEF StartRecovery, Untouched
<1>9. StartExploring(Held(a))' = StartExploring(Held(a))
  BY <1>4 DEF StartExploring
<1>. QED BY <1>4, <1>5, <1>6, <1>7, <1>8, <1>9

\* nor what the review of rollbacks makes of that.
LEMMA SameReview ==
  ASSUME NEW a \in Accounts, Untouched(a), NEW r
  PROVE  Reviewed(a, r)' = Reviewed(a, r)
<1>1. /\ Shown(a)' = Shown(a) /\ Assessment(a)' = Assessment(a)
      /\ (RecoveryOf(a)' <=> RecoveryOf(a))
  BY SameEvidence
<1>2. RollbackTo(a, r)' = RollbackTo(a, r)
  BY <1>1 DEF RollbackTo, Untouched, RecoveryOf
<1>3. st'[a] = st[a] /\ (Holds(a)' <=> Holds(a))
  BY DEF Untouched
<1>4. \A action : Answered(a, r, action)' = Answered(a, r, action)
  <2>1. Holds(a)' = Holds(a)
    BY <1>3, Zenon DEF Holds
  <2>. QED BY <1>2, <2>1, Zenon DEF Answered, SlowStep
<1>5. Answered(a, r, Assessment(a))' = Answered(a, r, Assessment(a))
  BY <1>1, <1>4
<1>6. BackedOff(st[a], Answered(a, r, Assessment(a)))'
        = BackedOff(st[a], Answered(a, r, Assessment(a)))
  BY <1>3, <1>5
<1>. QED BY <1>1, <1>3, <1>6, Zenon DEF Reviewed

\* So its recommendation stands.
LEMMA SameStand ==
  ASSUME NEW a \in Accounts, Untouched(a), rec'[a] = rec[a], Stands(a)
  PROVE  Stands(a)'
<1>. DEFINE h == Held(a)
<1>1. /\ Judged(a)' = Judged(a)
      /\ (Recoverable(a, Held(a))' <=> Recoverable(a, Held(a)))
      /\ (Cold(a)' <=> Cold(a))
      /\ StartRecovery(a, Held(a))' = StartRecovery(a, Held(a))
      /\ StartExploring(Held(a))' = StartExploring(Held(a))
  BY SameVerdicts
<1>2. \A r : Reviewed(a, r)' = Reviewed(a, r)
  BY SameReview
<1>3. Holds(a)' <=> Holds(a)
  BY DEF Untouched
<1>4. CASE rec[a] = Reviewed(a, Judged(a))
  <2>1. Reviewed(a, Judged(a))' = Reviewed(a, Judged(a))
    BY <1>1, SameReview
  <2>. QED BY <1>4, <2>1 DEF Stands
<1>5. CASE StartsRecovery(a)
  <2>1. Reviewed(a, StartRecovery(a, Held(a)))' = Reviewed(a, StartRecovery(a, Held(a)))
    BY <1>1, SameReview
  <2>. QED BY <1>1, <1>3, <1>5, <2>1 DEF Stands, StartsRecovery
<1>6. CASE StartsExploring(a)
  <2>1. Reviewed(a, StartExploring(Held(a)))' = Reviewed(a, StartExploring(Held(a)))
    BY <1>1, SameReview
  <2>. QED BY <1>1, <1>3, <1>6, <2>1 DEF Stands, StartsExploring
<1>. QED BY <1>4, <1>5, <1>6 DEF Stands

\* Loading changes no account that is listed, but for its recommendation.
LEMMA LoadUntouched ==
  ASSUME Typed, Load, NEW a \in Listed
  PROVE  a \in Accounts /\ a \notin Excluded /\ Untouched(a)
<1>1. a \in Accounts /\ a \notin Excluded
  BY DEF Listed, Excluded, Placeholder
<1>2. st'[a] = st[a] /\ prio' = prio /\ ev' = ev
  BY <1>1 DEF Load, Prepare, Kept
<1>3. (Holds(a)' <=> Holds(a)) /\ (Holds(a) => lease' = lease)
  <2>1. CASE Holds(a)
    <3>1. lease' = lease
      BY <1>1, <2>1 DEF Load, Prepare, Holds
    <3>. QED BY <2>1, <3>1 DEF Holds
  <2>2. CASE ~Holds(a)
    <3>1. lease' = lease \/ lease' = NoLease
      BY DEF Load, Prepare
    <3>2. a # None
      BY <1>1, NoneTypes
    <3>. QED BY <2>2, <3>1, <3>2 DEF Holds, NoLease
  <2>. QED BY <2>1, <2>2
<1>. QED BY <1>1, <1>2, <1>3 DEF Untouched

\* The turn of an account leaves the others alone.
LEMMA TurnUntouched ==
  ASSUME Typed, Standing, NEW b \in Accounts, NEW outcome, Apply(b, outcome),
         NEW a \in Accounts, a # b
  PROVE  Untouched(a) /\ hist'[a] = hist[a]
<1>1. PICK s \in AccountState :
        /\ st' = [st EXCEPT ![b] = s]
        /\ \/ lease' = lease
           \/ Holds(b) /\ lease' = NoLease
           \/ rec[b].start /\ lease' = NewLease(b, rec[b], s)
  BY TurnParts
<1>2. b \in left /\ ev' = ev
  BY StampsOfTurn
<1>3. prio'[a] = prio[a] /\ hist'[a] = hist[a]
  BY TurnWrites DEF Put, Typed, TypeOK
<1>4. (Holds(a)' <=> Holds(a)) /\ (Holds(a) => lease' = lease)
  <2>1. a # None
    BY NoneTypes
  <2>2. CASE lease' = lease
    BY <2>2 DEF Holds
  <2>3. CASE Holds(b) /\ lease' = NoLease
    BY <2>1, <2>3 DEF Holds, NoLease
  <2>4. CASE rec[b].start /\ lease' = NewLease(b, rec[b], s)
    <3>1. lease.account = None
      BY <1>2, <2>4 DEF Standing
    <3>2. lease'.account = b
      BY <2>4 DEF NewLease
    <3>. QED BY <2>1, <3>1, <3>2 DEF Holds
  <2>. QED BY <1>1, <2>2, <2>3, <2>4
<1>5. st'[a] = st[a]
  BY <1>1 DEF Typed, TypeOK
<1>. QED BY <1>2, <1>3, <1>4, <1>5 DEF Untouched

\* What has just been computed stands,
LEMMA StandingLoad ==
  ASSUME Typed, Load
  PROVE  Standing' /\ InPhase'
<1>1. phase' = "applying" /\ left' = Listed
  BY LoadAsks DEF Load, Prepare
<1>2. \A a, b \in Listed : rec'[a].start /\ rec'[b].start => Free /\ a = b
  BY LoadAsks
<1>3. ASSUME NEW a \in Listed
      PROVE  /\ (a \in Listed)' /\ Stands(a)'
             /\ rec'[a].start => lease'.account = None
  <2>1. a \in Accounts /\ a \notin Excluded /\ Untouched(a)
    BY LoadUntouched
  <2>2. PICK r : Asked(a, r) /\ rec'[a] = Reviewed(a, r)
    BY LoadAsks
  <2>3. /\ Judged(a)' = Judged(a)
        /\ (Recoverable(a, Held(a))' <=> Recoverable(a, Held(a)))
        /\ (Cold(a)' <=> Cold(a))
        /\ StartRecovery(a, Held(a))' = StartRecovery(a, Held(a))
        /\ StartExploring(Held(a))' = StartExploring(Held(a))
    BY <2>1, SameVerdicts
  <2>4. Free => ~Holds(a)
    <3>1. a # None
      BY <2>1, NoneTypes
    <3>. QED BY <2>1, <3>1 DEF Free, Holds
  <2>5. Holds(a)' <=> Holds(a)
    BY <2>1 DEF Untouched
  <2>6. Stands(a)'
    <3>1. CASE r = Judged(a)
      <4>1. Reviewed(a, Judged(a))' = Reviewed(a, Judged(a))
        BY <2>1, <2>3, SameReview
      <4>. QED BY <2>2, <3>1, <4>1 DEF Stands
    <3>2. CASE Free /\ Recoverable(a, Held(a)) /\ r = StartRecovery(a, Held(a))
      <4>1. Reviewed(a, StartRecovery(a, Held(a)))' = Reviewed(a, StartRecovery(a, Held(a)))
        BY <2>1, <2>3, SameReview
      <4>. QED BY <2>2, <2>3, <2>4, <2>5, <3>2, <4>1 DEF Stands, StartsRecovery
    <3>3. CASE Free /\ Cold(a) /\ r = StartExploring(Held(a))
      <4>1. Reviewed(a, StartExploring(Held(a)))' = Reviewed(a, StartExploring(Held(a)))
        BY <2>1, <2>3, SameReview
      <4>. QED BY <2>2, <2>3, <2>4, <2>5, <3>3, <4>1 DEF Stands, StartsExploring
    <3>. QED BY <2>2, <3>1, <3>2, <3>3 DEF Asked
  <2>7. (a \in Listed)'
    BY <2>1, SameEvidence
  <2>8. Free => lease'.account = None
    BY DEF Load, Prepare, Free, NoLease
  <2>. QED BY <1>2, <2>6, <2>7, <2>8
<1>. QED BY <1>1, <1>2, <1>3 DEF Standing, InPhase

\* the turn of one account leaves that of the others standing,
LEMMA StandingApply ==
  ASSUME Typed, Standing, NEW b \in Accounts, NEW outcome, Apply(b, outcome)
  PROVE  Standing' /\ InPhase'
<1>1. /\ left' = left \ {b} /\ rec' = rec /\ phase' = "applying" /\ b \in left
      /\ left \subseteq Accounts
  BY StampsOfTurn DEF Typed, TypeOK
<1>2. ASSUME NEW a \in left', rec'[a].start
      PROVE  lease'.account = None
  <2>1. a \in left /\ a # b /\ rec[a].start
    BY <1>1, <1>2
  <2>2. lease.account = None /\ ~rec[b].start
    BY <1>1, <2>1 DEF Standing
  <2>. QED BY <2>2, TurnParts DEF NoLease
<1>3. ASSUME NEW a \in left'
      PROVE  (a \in Listed)' /\ Stands(a)'
  <2>1. a \in left /\ a # b /\ a \in Accounts /\ rec'[a] = rec[a]
    BY <1>1
  <2>2. Untouched(a)
    BY <2>1, TurnUntouched
  <2>3. a \in Listed /\ Stands(a)
    BY <2>1 DEF Standing
  <2>. QED BY <2>1, <2>2, <2>3, SameEvidence, SameStand
<1>4. \A a, b2 \in left' : rec'[a].start /\ rec'[b2].start => a = b2
  BY <1>1 DEF Standing
<1>. QED BY <1>1, <1>2, <1>3, <1>4 DEF Standing, InPhase

\* and no other step computes or applies anything.
LEMMA StandingStep ==
  Typed /\ Standing /\ InPhase /\ [Next]_vars => Standing' /\ InPhase'
<1>. SUFFICES ASSUME Typed, Standing, InPhase, [Next]_vars PROVE Standing' /\ InPhase'
  OBVIOUS
<1>1. CASE UNCHANGED vars
  <2>1. /\ st' = st /\ prio' = prio /\ ev' = ev /\ lease' = lease
        /\ rec' = rec /\ left' = left /\ phase' = phase
    BY <1>1 DEF vars, memory, cycle
  <2>2. left \subseteq Accounts
    BY DEF Typed, TypeOK
  <2>3. \A a \in left : Untouched(a) /\ rec'[a] = rec[a]
    BY <2>1 DEF Untouched, Holds
  <2>4. \A a \in left : (a \in Listed)' /\ Stands(a)'
    BY <2>2, <2>3, SameEvidence, SameStand DEF Standing
  <2>. QED BY <2>1, <2>4 DEF Standing, InPhase
<1>2. CASE Load
  BY <1>2, StandingLoad
<1>3. CASE \E a \in Accounts, o \in WriteOutcome : Apply(a, o)
  BY <1>3, StandingApply
<1>4. CASE LoadFails \/ Tick \/ Crash \/ \E o \in {"ok", "failed"} : Save(o)
  <2>1. left' = {}
    BY <1>4, TickParts DEF LoadFails, Crash, Save, InPhase
  <2>. QED BY <2>1 DEF Standing, InPhase
<1>. QED BY <1>1, <1>2, <1>3, <1>4 DEF Next

\* The invariants that do not look at the history of an account.
Grounded == Typed /\ EvidenceInWindow /\ Standing /\ InPhase

LEMMA GroundedInit == Init => Grounded
<1>1. Init => Standing /\ InPhase
  BY DEF Init, Standing, InPhase
<1>. QED BY <1>1, TypedInit, EvidenceInit DEF Grounded

LEMMA GroundedStep == Grounded /\ [Next]_vars => Grounded'
BY TypedStep, EvidenceStep, StandingStep DEF Grounded

\* A recommendation still stands when its turn comes: it is what the evidence and
\* the state call for then, whatever happened to the others in between.
THEOREM RecommendationsStand == Spec => []Standing
<1>1. Grounded => Standing
  BY DEF Grounded
<1>. QED BY <1>1, GroundedInit, GroundedStep, PTL DEF Spec
\* A start that is kept is the one asked for; only a step back takes it away.
LEMMA ReviewedStart ==
  ASSUME Typed, NEW a \in Accounts, NEW r \in Recommendation, ~r.rollback
  PROVE  LET n == Reviewed(a, r)
         IN /\ n.want < n.cur => n.start = r.start
            /\ n.start /\ r.want = r.cur => n.want = n.cur
<1>. DEFINE n == Reviewed(a, r)
            x == Answered(a, r, Assessment(a))
            y == BackedOff(st[a], x)
<1>1. r.cur \in Priority /\ r.want \in Priority
  BY DEF Recommendation, Priority
<1>2. CASE Shown(a).hard
  <2>1. n = [r EXCEPT !.done = FALSE]
    BY <1>2 DEF Reviewed
  <2>. HIDE DEF n
  <2>2. n.start = r.start /\ n.want = r.want /\ n.cur = r.cur
    BY <2>1, Zenon DEF Recommendation
  <2>. QED BY <2>2, Zenon DEF n
<1>3. CASE ~Shown(a).hard
  <2>1. /\ x \in Recommendation /\ x.cur = r.cur
        /\ x.rollback => ~x.start /\ x.want >= x.cur
        /\ x.want < x.cur => ~x.rollback
    <3>1. lease.original \in 0..Unavailable /\ st[a].original \in 0..Unavailable
      BY DEF Typed, TypeOK, Lease, AccountState
    <3>. QED BY <3>1, AnsweredType, AssessmentType
  <2>2. /\ x.want < x.cur => x.start = r.start
        /\ x.start /\ r.want = r.cur => x.want = x.cur
    <3>. DEFINE action == Assessment(a)
    <3>1. action \in Actions
      BY AssessmentType
    <3>2. CASE action = "rollback"
      <4>1. x.want = RollbackTo(a, r) /\ ~x.start /\ x.rollback
        <5>1. x = [r EXCEPT !.want = RollbackTo(a, r), !.recovery = TRUE, !.rollback = TRUE,
                            !.atOnce = TRUE, !.start = FALSE, !.end = Holds(a),
                            !.outcome = "unreliable", !.done = FALSE]
          BY <3>2, Zenon DEF Answered
        <5>. HIDE DEF x
        <5>. QED BY <5>1, Zenon DEF Recommendation
      <4>. HIDE DEF x
      <4>. QED BY <2>1, <4>1, Zenon
    <3>3. CASE action \in {"pause", "observe"}
      <4>1. x.want = Larger(r.want, r.cur) /\ ~x.start
        <5>1. PICK outcome :
                x = [r EXCEPT !.needed = FALSE, !.start = FALSE, !.want = Larger(r.want, r.cur),
                              !.done = FALSE, !.outcome = outcome]
          BY <3>3 DEF Answered
        <5>. HIDE DEF x
        <5>. QED BY <5>1, Zenon DEF Recommendation
      <4>2. ~(x.want < r.cur)
        BY <1>1, <4>1, OnScale DEF Larger, Priority
      <4>. HIDE DEF x
      <4>. QED BY <2>1, <4>1, <4>2, Zenon
    <3>4. CASE action = "slow"
      <4>1. /\ x.want = IF r.want < r.cur THEN Larger(r.want, r.cur - SlowStep(r)) ELSE r.want
            /\ x.start = r.start
        <5>1. x = [r EXCEPT !.want = IF r.want < r.cur THEN Larger(r.want, r.cur - SlowStep(r))
                                     ELSE r.want, !.done = FALSE]
          BY <3>4 DEF Answered
        <5>. HIDE DEF x
        <5>. QED BY <5>1, Zenon DEF Recommendation
      <4>2. r.want = r.cur => x.want = r.cur
        BY <1>1, <4>1, OnScale DEF Priority
      <4>. HIDE DEF x
      <4>. QED BY <2>1, <4>1, <4>2, Zenon
    <3>5. CASE action = "cost"
      <4>1. x = r
        BY <3>5 DEF Answered
      <4>. HIDE DEF x
      <4>. QED BY <4>1, Zenon
    <3>. QED BY <3>1, <3>2, <3>3, <3>4, <3>5 DEF Actions
  <2>. HIDE DEF x
  <2>3. CASE Blocked(st[a].retryAt) /\ x.want < x.cur
    <3>1. y = [x EXCEPT !.want = x.cur, !.start = FALSE, !.needed = FALSE]
      BY <2>3 DEF BackedOff
    <3>. HIDE DEF y
    <3>2. ~y.start /\ y.want = x.cur /\ y.cur = x.cur /\ y \in Recommendation
      BY <2>1, <3>1, Zenon DEF Recommendation
    <3>3. ~(x.cur < x.cur)
      BY <1>1, <2>1, OnScale DEF Priority
    <3>4. n = NotSoon(Shown(a), st[a], y)
      BY <1>3 DEF Reviewed, y, x
    <3>. HIDE DEF n
    <3>5. n.cur = y.cur /\ n.want = y.want /\ n.start = y.start
      BY <3>2, <3>4, NotSoonType
    <3>. QED BY <3>2, <3>3, <3>5, Zenon DEF n
  <2>4. CASE ~(Blocked(st[a].retryAt) /\ x.want < x.cur)
    <3>1. y = x
      BY <2>4 DEF BackedOff
    <3>4. n = NotSoon(Shown(a), st[a], y)
      BY <1>3 DEF Reviewed, y, x
    <3>. HIDE DEF n, y
    <3>5. n.cur = y.cur /\ n.want = y.want /\ n.start = y.start
      BY <2>1, <3>1, <3>4, NotSoonType
    <3>. QED BY <2>2, <3>1, <3>5, Zenon DEF n
  <2>. QED BY <2>3, <2>4
<1>. QED BY <1>2, <1>3

\* An account known by its trial alone is left where it is.
LEMMA PlaceholderStays ==
  ASSUME Typed, NEW a \in Accounts, Placeholder(a)
  PROVE  LET n == Reviewed(a, Judged(a)) IN n.want = n.cur
<1>. DEFINE r == OnTrial(Held(a))
            j == Judged(a)
            n == Reviewed(a, j)
<1>1. Shown(a) = Blank /\ Holds(a) /\ lease.recovery /\ Expired
  BY DEF Shown, Placeholder, RecoveryOf
<1>2. /\ ~Blank.hard /\ ~Blank.enough /\ ~Blank.five /\ Blank.fail = Never
  BY DEF Blank
<1>3. r \in Recommendation
  <2>. DEFINE h == Held(a)
  <2>1. h \in Recommendation /\ lease.target \in 0..Poor
    BY HeldType DEF Typed, TypeOK, Lease
  <2>. HIDE DEF h
  <2>. QED BY <2>1, OnTrialType DEF h
<1>4. \E outcome \in Outcome :
        j = [r EXCEPT !.want = r.cur, !.atOnce = TRUE, !.end = TRUE, !.outcome = outcome]
  <2>1. j = RecoveryNext(a, r, Over(r), FALSE)
    <3>1. (Shown(a).enough /\ Shown(a).ok > lease.started) = FALSE
      BY <1>1, <1>2
    <3>. QED BY <1>1, <3>1, Zenon DEF Judged, RecoveryTrial
  <2>2. j = [Over(r) EXCEPT !.outcome = "no-result"]
    <3>. HIDE DEF r, j
    <3>1. ~(r.anchor \in 1..(r.cur - 1) /\ ~Placeholder(a))
      OBVIOUS
    <3>2. j = [Over(r) EXCEPT !.outcome = "no-result", !.want = @]
      BY <1>1, <1>2, <2>1, <3>1 DEF RecoveryNext
    <3>. QED BY <1>3, <3>2, Zenon DEF Over, Recommendation
  <2>. HIDE DEF r, j
  <2>3. j = [r EXCEPT !.want = r.cur, !.atOnce = TRUE, !.end = TRUE, !.outcome = "no-result"]
    BY <1>3, <2>2, Zenon DEF Over, Recommendation
  <2>. QED BY <2>3 DEF Outcome
<1>5. j \in Recommendation /\ j.want = j.cur /\ j.cur \in Priority
  <2>. HIDE DEF r, j
  <2>1. r.cur \in Priority
    BY <1>3 DEF Recommendation, Priority
  <2>2. PICK outcome \in Outcome :
          j = [r EXCEPT !.want = r.cur, !.atOnce = TRUE, !.end = TRUE, !.outcome = outcome]
    BY <1>4
  <2>3. j \in Recommendation /\ j.want = r.cur /\ j.cur = r.cur
    BY <1>3, <2>1, <2>2, Zenon DEF Recommendation, Outcome, Priority
  <2>. QED BY <2>1, <2>3, Zenon
<1>6. Assessment(a) = "cost"
  <2>1. HandledUpTo(a) \in Stamps
    <3>1. /\ st[a].failSeen \in Stamps /\ lease.lastFail \in Stamps /\ lease.started \in Stamps
      BY DEF Typed, TypeOK, Lease, AccountState
    <3>. QED BY <3>1, StampTypes DEF HandledUpTo
  <2>2. ~(Never > HandledUpTo(a))
    BY <2>1, StampTypes DEF Never
  <2>. QED BY <1>1, <1>2, <2>2 DEF Assessment, Verdict
<1>7. BackedOff(st[a], Answered(a, j, Assessment(a))) = j
  <2>. HIDE DEF j
  <2>1. Answered(a, j, "cost") = j
    BY DEF Answered
  <2>2. ~(j.want < j.cur)
    BY <1>5, OnScale DEF Priority
  <2>. QED BY <1>6, <2>1, <2>2 DEF BackedOff
<1>8. n = NotSoon(Shown(a), st[a], j)
  BY <1>1, <1>2, <1>7 DEF Reviewed
<1>. HIDE DEF j, n
<1>9. n.want = j.want /\ n.cur = j.cur
  BY <1>5, <1>8, NotSoonType
<1>. QED BY <1>5, <1>9 DEF n, j
-----------------------------------------------------------------------------
(* What may be said of a recommendation when its turn comes.                *)

\* The start of a trial, as it is asked for and as it stands after the review.
LEMMA StartFacts ==
  ASSUME Typed, NEW a \in Accounts, NEW n,
         \/ Recoverable(a, Held(a)) /\ n = Reviewed(a, StartRecovery(a, Held(a)))
         \/ Cold(a) /\ n = Reviewed(a, StartExploring(Held(a)))
  PROVE  /\ n.start => n.atOnce /\ ~n.done
         /\ n.start /\ n.recovery /\ n.want # n.cur => ~(st[a].original > n.cur)
         /\ n.start /\ ~n.recovery => n.want < n.cur
         /\ n.recovery /\ n.want < n.cur => n.start
         /\ ~n.done
<1>1. CASE Recoverable(a, Held(a)) /\ n = Reviewed(a, StartRecovery(a, Held(a)))
  <2>. DEFINE r == StartRecovery(a, Held(a))
  <2>1. /\ r \in Recommendation
        /\ r.start /\ r.recovery /\ r.atOnce /\ ~r.done /\ ~r.rollback
        /\ r.want # r.cur => ~(st[a].original > r.cur)
    BY <1>1, StartRecoveryType, Zenon
  <2>2. n = Reviewed(a, r)
    BY <1>1
  <2>. HIDE DEF r
  <2>3. /\ n.cur = r.cur /\ (n.rollback => ~n.start /\ n.want >= n.cur)
        /\ (~n.rollback => n.recovery = r.recovery /\ n.atOnce = r.atOnce)
        /\ (n.done => r.done) /\ (n.want < n.cur => ~n.rollback)
    <3>1. r \in Recommendation /\ ~r.rollback
      BY <2>1
    <3>2. LET m == Reviewed(a, r)
          IN /\ m.cur = r.cur /\ (m.rollback => ~m.start /\ m.want >= m.cur)
             /\ (~m.rollback => m.recovery = r.recovery /\ m.atOnce = r.atOnce)
             /\ (m.done => r.done) /\ (m.want < m.cur => ~m.rollback)
             /\ (m.start => (r.want < r.cur => m.want < m.cur))
      BY <3>1, ReviewedType, Zenon
    <3>. QED BY <2>2, <3>2, Zenon
  <2>4. /\ (n.want < n.cur => n.start = r.start)
        /\ (n.start /\ r.want = r.cur => n.want = n.cur)
    BY <2>1, <2>2, ReviewedStart
  <2>. QED BY <2>1, <2>3, <2>4, Zenon
<1>2. CASE Cold(a) /\ n = Reviewed(a, StartExploring(Held(a)))
  <2>. DEFINE r == StartExploring(Held(a))
  <2>1. /\ r \in Recommendation
        /\ r.start /\ ~r.recovery /\ r.atOnce /\ ~r.done /\ ~r.rollback /\ r.want < r.cur
    BY <1>2, StartExploringType, Zenon
  <2>2. n = Reviewed(a, r)
    BY <1>2
  <2>. HIDE DEF r
  <2>3. /\ n.cur = r.cur /\ (n.rollback => ~n.start /\ n.want >= n.cur)
        /\ (~n.rollback => n.recovery = r.recovery /\ n.atOnce = r.atOnce)
        /\ (n.done => r.done) /\ (n.want < n.cur => ~n.rollback)
        /\ (n.start => (r.want < r.cur => n.want < n.cur))
    <3>1. r \in Recommendation /\ ~r.rollback
      BY <2>1
    <3>2. LET m == Reviewed(a, r)
          IN /\ m.cur = r.cur /\ (m.rollback => ~m.start /\ m.want >= m.cur)
             /\ (~m.rollback => m.recovery = r.recovery /\ m.atOnce = r.atOnce)
             /\ (m.done => r.done) /\ (m.want < m.cur => ~m.rollback)
             /\ (m.start => (r.want < r.cur => m.want < m.cur))
      BY <3>1, ReviewedType, Zenon
    <3>. QED BY <2>2, <3>2, Zenon
  <2>. QED BY <2>1, <2>3, Zenon
<1>. QED BY <1>1, <1>2

\* What a recommendation that stands can ask for.
LEMMA TurnFacts ==
  ASSUME Grounded, NEW a \in left
  PROVE  LET r == rec[a]
         IN /\ a \in Accounts /\ r \in Recommendation /\ r.cur = Current(a)
            /\ r.rollback => /\ Assessment(a) = "rollback"
                             /\ r.atOnce /\ ~r.start /\ ~r.done /\ ~(r.want < r.cur)
            /\ r.start => r.atOnce /\ ~r.done /\ ~Holds(a) /\ lease.account = None
            /\ r.start /\ r.recovery /\ r.want # r.cur => ~(st[a].original > r.cur)
            /\ r.start /\ ~r.recovery => r.want < r.cur
            /\ r.recovery /\ r.want < r.cur /\ ~r.start =>
                 RecoveryOf(a) /\ Expired /\ r.end /\ (r.atOnce \/ r.done)
            /\ r.done => Graduated(a) \/ (RecoveryOf(a) /\ Expired)
            /\ r.want # r.cur => r.cur = prio[a]
<1>. DEFINE n == rec[a]
<1>1. /\ a \in Accounts /\ n \in Recommendation /\ Stands(a)
      /\ (n.start => lease.account = None) /\ Typed
  BY DEF Grounded, Standing, Typed, TypeOK
<1>2. /\ n.cur = Current(a)
      /\ n.rollback => /\ Assessment(a) = "rollback"
                       /\ n.atOnce /\ ~n.start /\ ~n.done /\ ~(n.want < n.cur)
  <2>1. PICK r \in Recommendation : ~r.rollback /\ r.cur = Current(a) /\ n = Reviewed(a, r)
    <3>1. CASE n = Reviewed(a, Judged(a))
      <4>1. LET j == Judged(a) IN j \in Recommendation /\ ~j.rollback /\ j.cur = Current(a)
        BY <1>1, JudgedType, Zenon
      <4>. QED BY <3>1, <4>1, Zenon
    <3>2. CASE StartsRecovery(a)
      <4>1. LET j == StartRecovery(a, Held(a))
            IN  j \in Recommendation /\ ~j.rollback /\ j.cur = Current(a)
        BY <1>1, <3>2, StartRecoveryType, Zenon DEF StartsRecovery
      <4>. QED BY <3>2, <4>1, Zenon DEF StartsRecovery
    <3>3. CASE StartsExploring(a)
      <4>1. LET j == StartExploring(Held(a))
            IN  j \in Recommendation /\ ~j.rollback /\ j.cur = Current(a)
        BY <1>1, <3>3, StartExploringType, Zenon DEF StartsExploring
      <4>. QED BY <3>3, <4>1, Zenon DEF StartsExploring
    <3>. QED BY <1>1, <3>1, <3>2, <3>3 DEF Stands
  <2>. HIDE DEF n
  <2>. QED BY <1>1, <2>1, ReviewedType
<1>3. /\ n.start => n.atOnce /\ ~n.done /\ ~Holds(a) /\ lease.account = None
      /\ n.start /\ n.recovery /\ n.want # n.cur => ~(st[a].original > n.cur)
      /\ n.start /\ ~n.recovery => n.want < n.cur
      /\ n.recovery /\ n.want < n.cur /\ ~n.start =>
           RecoveryOf(a) /\ Expired /\ n.end /\ (n.atOnce \/ n.done)
      /\ n.done => Graduated(a) \/ (RecoveryOf(a) /\ Expired)
  <2>1. CASE n = Reviewed(a, Judged(a))
    <3>. DEFINE r == Judged(a)
    <3>1. /\ r \in Recommendation /\ ~r.start /\ ~r.rollback
          /\ (r.done => ~Shown(a).hard /\ (Graduated(a) \/ (RecoveryOf(a) /\ Expired)))
          /\ (r.recovery => RecoveryOf(a))
          /\ (r.recovery /\ r.want < r.cur =>
                Expired /\ r.end /\ (r.atOnce \/ (r.done /\ Shown(a).rate = "low")))
      BY <1>1, JudgedType, Zenon
    <3>2. n = Reviewed(a, r)
      BY <2>1
    <3>. HIDE DEF r, n
    <3>3. /\ n.cur = r.cur /\ (~n.rollback => n.recovery = r.recovery /\ n.atOnce = r.atOnce)
          /\ (n.start => r.start)
          /\ (n.want < n.cur =>
                /\ r.want < r.cur /\ ~n.rollback /\ n.end = r.end
                /\ r.done => n.done \/ Shown(a).rate = "mid" \/ Shown(a).hard)
          /\ (n.done => r.done)
      BY <1>1, <3>1, <3>2, ReviewedType
    <3>4. Shown(a).rate = "low" => Shown(a).rate # "mid"
      OBVIOUS
    <3>. QED BY <3>1, <3>3, <3>4, Zenon
  <2>2. CASE StartsRecovery(a) \/ StartsExploring(a)
    <3>1. /\ ~Holds(a)
          /\ \/ Recoverable(a, Held(a)) /\ n = Reviewed(a, StartRecovery(a, Held(a)))
             \/ Cold(a) /\ n = Reviewed(a, StartExploring(Held(a)))
      BY <2>2 DEF StartsRecovery, StartsExploring
    <3>. HIDE DEF n
    <3>2. /\ (n.start => n.atOnce /\ ~n.done)
          /\ (n.start /\ n.recovery /\ n.want # n.cur => ~(st[a].original > n.cur))
          /\ (n.start /\ ~n.recovery => n.want < n.cur)
          /\ (n.recovery /\ n.want < n.cur => n.start)
          /\ ~n.done
      BY <1>1, <3>1, StartFacts
    <3>. QED BY <1>1, <3>1, <3>2, Zenon
  <2>. QED BY <1>1, <2>1, <2>2 DEF Stands
<1>4. n.want # n.cur => n.cur = prio[a]
  <2>1. CASE Placeholder(a)
    <3>1. n = Reviewed(a, Judged(a))
      BY <1>1, <2>1 DEF Placeholder, RecoveryOf, Stands, StartsRecovery, StartsExploring
    <3>2. LET m == Reviewed(a, Judged(a)) IN m.want = m.cur
      BY <1>1, <2>1, PlaceholderStays, Zenon
    <3>. QED BY <3>1, <3>2, Zenon
  <2>2. CASE ~Placeholder(a)
    <3>1. prio[a] \in Priority
      BY <1>1 DEF Typed, TypeOK, Priority
    <3>2. Current(a) = prio[a]
      BY <2>2, <3>1, Normal DEF Current
    <3>. QED BY <1>2, <3>2, Zenon
  <2>. QED BY <2>1, <2>2
<1>. QED BY <1>1, <1>2, <1>3, <1>4, Zenon
-----------------------------------------------------------------------------
(* Rollbacks: what the turn of an account does to its marks of reliability. *)

\* The marks of an observation: the observation of a high rate goes on, ends or
\* begins; the watermark stays once it is set, unless a rollback moves it.
Remarked(a, r, s, o) ==
  /\ o.highSince \in {Now, s.highSince, Never}
  /\ Set(s.rolledAt) =>
       \/ o.rolledAt = s.rolledAt
       \/ r.rollback /\ (Set(Shown(a).fail) => o.rolledAt = Shown(a).fail)

\* An observation moves the marks of rollbacks as `Remarked' says,
LEMMA ObservedMarks ==
  ASSUME TypeOK, NEW a \in Accounts, NEW s \in AccountState, NEW r \in Recommendation,
         NEW n, SameMarks(n, Observed(s, a, r))
  PROVE  Remarked(a, r, s, n)
<1>. DEFINE o == Observed(s, a, r)
<1>1. /\ o.highSince \in {Now, s.highSince, Never}
      /\ (r.rollback => (Set(Shown(a).fail) => o.rolledAt = Shown(a).fail))
      /\ (~r.rollback => o.rolledAt = RollbackBase(s))
  BY ObservedType
<1>2. Set(s.rolledAt) => RollbackBase(s) = s.rolledAt
  BY DEF RollbackBase
<1>3. n.highSince = o.highSince /\ n.rolledAt = o.rolledAt
  BY DEF SameMarks
<1>. HIDE DEF o
<1>. QED BY <1>1, <1>2, <1>3, Zenon DEF Remarked

\* and so does every turn.
LEMMA TurnMarks ==
  ASSUME Typed, NEW a \in Accounts, NEW outcome, Apply(a, outcome)
  PROVE  /\ st'[a] \in AccountState /\ st'[a].seen = Now
         /\ Remarked(a, rec[a], st[a], st'[a])
<1>. DEFINE r == rec[a]
            n == st'[a]
            z == SeenNow(a)
<1>1. r \in Recommendation /\ st \in [Accounts -> AccountState] /\ TypeOK
  BY StampsOfTurn DEF Typed, TypeOK
<1>2. n \in AccountState /\ n.seen = Now
  BY <1>1, TurnParts
<1>3. z \in AccountState /\ SameMarks(z, st[a])
  BY <1>1, SeenType
<1>4. \A m : SameMarks(m, Observed(z, a, r)) => Remarked(a, r, st[a], m)
  <2>. SUFFICES ASSUME NEW m, SameMarks(m, Observed(z, a, r)) PROVE Remarked(a, r, st[a], m)
    OBVIOUS
  <2>1. Remarked(a, r, z, m)
    <3>. HIDE DEF z, r
    <3>. QED BY <1>1, <1>3, ObservedMarks
  <2>. HIDE DEF z
  <2>. QED BY <1>3, <2>1 DEF Remarked, SameMarks
<1>5. \A m : SameMarks(m, st[a]) => Remarked(a, r, st[a], m)
  BY DEF SameMarks, Remarked
<1>6. CASE ApplyStart(a, outcome)
  <2>. DEFINE b == IF r.want # r.cur THEN Committed(z, a, r) ELSE Observed(z, a, r)
  <2>1. n = Begun(b, r) \/ n = z
    BY <1>1, <1>6, StartParts
  <2>2. b \in AccountState /\ SameMarks(b, Observed(z, a, r))
    <3>1. /\ Committed(z, a, r) \in AccountState
          /\ SameMarks(Committed(z, a, r), Observed(z, a, r))
          /\ Observed(z, a, r) \in AccountState
      <4>. HIDE DEF z, r
      <4>. QED BY <1>1, <1>3, CommittedType, ObservedType
    <3>. QED BY <3>1 DEF SameMarks
  <2>3. SameMarks(Begun(b, r), b)
    <3>. HIDE DEF b, r
    <3>. QED BY <1>1, <2>2, BegunType
  <2>4. SameMarks(Begun(b, r), Observed(z, a, r))
    <3>. HIDE DEF b, r, z
    <3>. QED BY <2>2, <2>3 DEF SameMarks
  <2>. QED BY <1>2, <1>3, <1>4, <1>5, <2>1, <2>4
<1>7. CASE ApplySame(a)
  <2>1. SameMarks(n, Observed(z, a, r))
    BY <1>1, <1>7, SameParts
  <2>. QED BY <1>2, <1>4, <2>1
<1>8. CASE ApplyAtOnce(a, outcome)
  <2>1. SameMarks(n, Observed(z, a, r)) \/ n = z
    BY <1>1, <1>8, AtOnceParts
  <2>. QED BY <1>2, <1>3, <1>4, <1>5, <2>1
<1>9. CASE ApplyStep(a, outcome)
  <2>. DEFINE c == Noted(z, r)
              w == [r EXCEPT !.done = FALSE]
  <2>1. c \in AccountState /\ SameMarks(c, z)
    <3>. HIDE DEF z, r
    <3>. QED BY <1>1, <1>3, NotedType
  <2>2. SameMarks(c, st[a])
    <3>. HIDE DEF c, z
    <3>. QED BY <1>3, <2>1 DEF SameMarks
  <2>3. n = Observed(c, a, w) \/ n = c \/ SameMarks(n, Observed(c, a, r))
    BY <1>1, <1>9, StepParts
  <2>4. w \in Recommendation /\ (w.rollback <=> r.rollback)
    <3>. HIDE DEF r
    <3>. QED BY <1>1, Zenon DEF Recommendation
  <2>5. \A q \in {w, r} : \A m : SameMarks(m, Observed(c, a, q)) => Remarked(a, r, st[a], m)
    <3>. SUFFICES ASSUME NEW q \in {w, r}, NEW m, SameMarks(m, Observed(c, a, q))
                  PROVE  Remarked(a, r, st[a], m)
      OBVIOUS
    <3>1. q \in Recommendation /\ (q.rollback <=> r.rollback)
      BY <1>1, <2>4
    <3>2. Remarked(a, q, c, m)
      <4>. HIDE DEF c, r, w
      <4>. QED BY <1>1, <2>1, <3>1, ObservedMarks
    <3>. HIDE DEF c, r, w
    <3>. QED BY <2>2, <3>1, <3>2 DEF Remarked, SameMarks
  <2>6. SameMarks(Observed(c, a, w), Observed(c, a, w))
    BY DEF SameMarks
  <2>. HIDE DEF c, w
  <2>. QED BY <1>2, <1>5, <2>2, <2>3, <2>5, <2>6
<1>. QED BY <1>6, <1>7, <1>8, <1>9 DEF Apply

\* A rollback that was written moves the watermark to the failure it answers.
LEMMA RolledMarks ==
  ASSUME Typed, NEW a \in Accounts, ApplyAtOnce(a, "ok"), rec[a].rollback
  PROVE  /\ st'[a].highSince = Now
         /\ Set(Shown(a).fail) => st'[a].rolledAt = Shown(a).fail
<1>. DEFINE r == rec[a]
            z == SeenNow(a)
<1>1. r \in Recommendation /\ st \in [Accounts -> AccountState] /\ TypeOK
  BY StampsOfTurn DEF Typed, TypeOK, Apply
<1>2. SameMarks(st'[a], Observed(z, a, r))
  BY <1>1, AtOnceParts
<1>3. z \in AccountState
  BY <1>1, SeenType
<1>4. LET o == Observed(z, a, r)
      IN  o.highSince = Now /\ (Set(Shown(a).fail) => o.rolledAt = Shown(a).fail)
  <2>. HIDE DEF z
  <2>. QED BY <1>1, <1>3, ObservedType
<1>. QED BY <1>2, <1>4, Zenon DEF SameMarks

\* While nothing disturbs it, a write that arrives is answered.
LEMMA PutWritten ==
  ASSUME Typed, Undisturbed, NEW a \in Watched, NEW p, NEW outcome, Put(a, p, outcome)
  PROVE  \/ outcome = "ok" /\ prio'[a] = p /\ hist'[a] = Recorded(a, rec[a], p)
         \/ outcome # "ok" /\ prio' = prio /\ hist' = hist
<1>1. Outcomes \subseteq WriteOutcome
  <2>1. Environment(Environments[env])
    BY CycleAssumption DEF Typed, TypeOK
  <2>. QED BY <2>1 DEF Environment, Outcomes
<1>2. outcome \in {"ok", "failed"}
  BY <1>1 DEF Put, Undisturbed, WriteOutcome
<1>3. a \in Accounts
  BY CycleAssumption
<1>. QED BY <1>2, <1>3 DEF Put, Typed, TypeOK
LEMMA HistoryFields ==
  ASSUME TypeOK, NEW a \in Accounts
  PROVE  /\ hist[a] \in History /\ hist[a].risen \in Stamps /\ hist[a].fell \in Stamps
         /\ hist[a].blamed \in Stamps /\ hist[a].since \in Stamps /\ hist[a].dir \in {-1, 0, 1}
         /\ st[a] \in AccountState /\ st[a].seen \in Stamps /\ st[a].rolledAt \in Stamps
         /\ st[a].highSince \in Stamps /\ st[a].applied \in Stamps /\ st[a].since \in Stamps
         /\ st[a].count \in 0..Confirmations /\ st[a].cand \in 0..Unavailable
         /\ st[a].original \in 0..Unavailable /\ prio[a] \in Priority
BY StateFields DEF TypeOK, History, Priority

\* What a rollback is called for by: a failure that is recent, and that no
\* rollback has answered.
LEMMA RollbackNew ==
  ASSUME Grounded, NEW a \in Accounts, Assessment(a) = "rollback"
  PROVE  /\ Set(Shown(a).fail) /\ Shown(a).fail \in (Now - Window)..(Now - 1)
         /\ Shown(a).fail > st[a].rolledAt
<1>1. /\ Shown(a).fail > CountedFrom(a) /\ Shown(a).fail \in Stamps
      /\ st[a].rolledAt \in Stamps /\ st[a].applied \in Stamps /\ lease.started \in Stamps
  BY ShownType, StateFields DEF Assessment, Verdict, Evidence, Grounded, Typed, TypeOK, Lease
<1>2. RollbackBase(st[a]) \in Stamps /\ RollbackBase(st[a]) >= st[a].rolledAt
  BY <1>1 DEF RollbackBase, Set, Never, Stamps
<1>3. CountedFrom(a) \in Stamps /\ CountedFrom(a) >= st[a].rolledAt
  <2>. DEFINE b == RollbackBase(st[a])
  <2>1. b \in Stamps /\ b >= st[a].rolledAt
    BY <1>2
  <2>2. CountedFrom(a) = IF Holds(a) THEN Latest(b, lease.started) ELSE b
    BY DEF CountedFrom
  <2>. HIDE DEF b
  <2>. QED BY <1>1, <2>1, <2>2, StampTypes DEF Latest, Larger
<1>4. Shown(a).fail > st[a].rolledAt /\ Set(Shown(a).fail)
  BY <1>1, <1>3, StampTypes DEF Set, Never
<1>5. Shown(a) = ev[a]
  BY <1>4 DEF Shown, Blank, Set
<1>. QED BY <1>4, <1>5 DEF Grounded, EvidenceInWindow

\* What the history of an account hears of its turn, while nothing disturbs it.
LEMMA TurnHistory ==
  ASSUME Grounded, Undisturbed, NEW a \in Watched, NEW outcome, Apply(a, outcome)
  PROVE  \/ hist'[a] = hist[a]
         \/ \E p \in Priority : /\ hist'[a] = Recorded(a, rec[a], p)
                                /\ rec[a].rollback => ApplyAtOnce(a, "ok")
<1>1. a \in Accounts /\ a \in left /\ Typed
  BY CycleAssumption, StampsOfTurn DEF Grounded
<1>2. rec[a].rollback => rec[a].atOnce /\ ~rec[a].start
  BY <1>1, TurnFacts, Zenon
<1>3. CASE hist' = hist
  BY <1>3
<1>4. CASE \E p \in Priority :
             /\ Put(a, p, outcome)
             /\ ApplyAtOnce(a, outcome) \/ rec[a].start \/ ~rec[a].atOnce
  <2>1. PICK p \in Priority :
             /\ Put(a, p, outcome)
             /\ ApplyAtOnce(a, outcome) \/ rec[a].start \/ ~rec[a].atOnce
    BY <1>4
  <2>2. \/ outcome = "ok" /\ hist'[a] = Recorded(a, rec[a], p)
        \/ hist' = hist
    BY <1>1, <2>1, PutWritten
  <2>. QED BY <1>2, <2>1, <2>2
<1>. QED BY <1>1, <1>3, <1>4, TurnWrites

\* The turn of an account keeps what is known of its rollbacks.
LEMMA RollbacksTurn ==
  ASSUME Grounded, Undisturbed, NEW a \in Watched, NEW outcome, Apply(a, outcome),
         BlameBehind(a), ObservedSinceFall(a)
  PROVE  BlameBehind(a)' /\ ObservedSinceFall(a)'
<1>. DEFINE r == rec[a]
            n == st'[a]
            e == Shown(a)
<1>1. /\ a \in Accounts /\ a \in left /\ Typed /\ TypeOK
      /\ r.rollback => Assessment(a) = "rollback" /\ r.atOnce /\ ~r.start
  <2>1. a \in Accounts /\ Typed /\ TypeOK
    BY CycleAssumption DEF Grounded, Typed
  <2>2. a \in left
    BY <2>1, StampsOfTurn
  <2>3. r.rollback => Assessment(a) = "rollback" /\ r.atOnce /\ ~r.start
    BY <2>2, TurnFacts, Zenon
  <2>. QED BY <2>1, <2>2, <2>3
<1>2. /\ n \in AccountState /\ n.seen = Now /\ Remarked(a, r, st[a], n)
      /\ n.highSince \in Stamps /\ n.rolledAt \in Stamps
  BY <1>1, TurnMarks, StateFields
<1>3. /\ hist[a].blamed \in Stamps /\ hist[a].fell \in Stamps /\ st[a].seen \in Stamps
      /\ st[a].highSince \in Stamps /\ st[a].rolledAt \in Stamps
  BY <1>1, HistoryFields
<1>4. r.rollback => /\ Set(e.fail) /\ e.fail \in (Now - Window)..(Now - 1)
                    /\ e.fail > st[a].rolledAt
  BY <1>1, RollbackNew
<1>5. \/ hist'[a] = hist[a]
      \/ \E p \in Priority : hist'[a] = Recorded(a, r, p) /\ (r.rollback => ApplyAtOnce(a, "ok"))
  BY TurnHistory
<1>6. Set(hist[a].blamed) =>
        \/ hist[a].blamed < Now - Window
        \/ hist[a].blamed <= n.rolledAt /\ hist[a].blamed < n.seen
  <2>. SUFFICES ASSUME Set(hist[a].blamed), ~(hist[a].blamed < Now - Window)
                PROVE  hist[a].blamed <= n.rolledAt /\ hist[a].blamed < n.seen
    OBVIOUS
  <2>1. hist[a].blamed <= st[a].rolledAt /\ hist[a].blamed < st[a].seen
    BY DEF BlameBehind
  <2>2. Set(st[a].rolledAt)
    BY <1>3, <2>1, StampTypes DEF Set, Never
  <2>3. n.rolledAt = st[a].rolledAt \/ n.rolledAt > st[a].rolledAt
    BY <1>2, <1>4, <2>2 DEF Remarked
  <2>. QED BY <1>2, <1>3, <2>1, <2>3, StampTypes
<1>7. Set(hist[a].fell) /\ Set(n.highSince) => hist[a].fell <= n.highSince
  <2>1. n.highSince \in {Now, st[a].highSince, Never}
    BY <1>2 DEF Remarked
  <2>. QED BY <1>3, <2>1, StampTypes DEF ObservedSinceFall, Set
<1>8. CASE hist'[a] = hist[a]
  BY <1>6, <1>7, <1>8 DEF BlameBehind, ObservedSinceFall
<1>9. CASE \E p \in Priority :
             hist'[a] = Recorded(a, r, p) /\ (r.rollback => ApplyAtOnce(a, "ok"))
  <2>1. /\ hist'[a].fell = IF r.rollback THEN Now ELSE hist[a].fell
        /\ hist'[a].blamed = IF r.rollback THEN e.fail ELSE hist[a].blamed
    BY <1>1, <1>9, HistoryFields DEF Recorded, History
  <2>2. CASE r.rollback
    <3>1. n.highSince = Now /\ n.rolledAt = e.fail
      BY <1>1, <1>4, <1>9, <2>2, RolledMarks
    <3>2. hist'[a].fell = Now /\ hist'[a].blamed = e.fail
      BY <2>1, <2>2
    <3>3. e.fail <= e.fail /\ e.fail < Now /\ Now <= Now
      BY <1>4, <2>2, Times
    <3>. QED BY <1>2, <3>1, <3>2, <3>3 DEF BlameBehind, ObservedSinceFall
  <2>3. CASE ~r.rollback
    BY <1>6, <1>7, <2>1, <2>3 DEF BlameBehind, ObservedSinceFall
  <2>. QED BY <2>2, <2>3
<1>. QED BY <1>5, <1>8, <1>9
-----------------------------------------------------------------------------
(* The steps of a recovery.                                                 *)

\* Without a trial the current priority is the one in the database.
LEMMA CurrentHere ==
  ASSUME Typed, NEW a \in Accounts, ~Holds(a)
  PROVE  Current(a) = prio[a]
<1>1. prio[a] \in Priority /\ ~Placeholder(a)
  BY DEF Typed, TypeOK, Priority, Placeholder, RecoveryOf
<1>. QED BY <1>1, Normal DEF Current

Done(a) == Graduated(a) \/ (RecoveryOf(a) /\ Expired)

\* An account that graduates, or whose trial is over, had its last step observed.
LEMMA DoneObserved ==
  ASSUME Typed, NEW a \in Accounts, StepKnown(a), Set(hist[a].risen), Done(a)
  PROVE  Since(hist[a].risen) >= RecoveryTime
<1>1. hist[a].risen \in Stamps /\ st[a].applied \in Stamps
  BY HistoryFields DEF Typed
<1>2. CASE Graduated(a) /\ st[a].applied = hist[a].risen
  <2>1. Since(st[a].applied) >= Window
    BY <1>2 DEF Graduated
  <2>. QED BY <1>1, <1>2, <2>1, Times DEF Since, Stamps, Never
<1>3. CASE RecoveryOf(a) /\ Expired /\ lease.started = hist[a].risen
  BY <1>3 DEF RecoveryOf, Expired
<1>. QED BY <1>2, <1>3 DEF StepKnown, Done, RecoveryOf

\* A turn that writes nothing keeps what is known of the last step.
LEMMA StepKept ==
  ASSUME Typed, NEW a \in Accounts, StepKnown(a),
         prio'[a] = prio[a], hist'[a].risen = hist[a].risen,
         st'[a].applied = st[a].applied, st'[a].seen = Now,
         Set(hist[a].risen) => Since(hist[a].risen) >= RecoveryTime
                               \/ st'[a].original = st[a].original,
         Set(hist[a].risen) /\ Holds(a)' =>
           \/ lease' = lease
           \/ Since(hist[a].risen) >= RecoveryTime
           \/ lease'.recovery /\ lease'.started = st[a].applied
  PROVE  StepKnown(a)'
<1>1. hist[a].risen \in Stamps /\ hist[a].risen <= Now
  BY HistoryFields, StampTypes DEF Typed
<1>2. lease' = lease => (Holds(a)' <=> Holds(a))
  BY DEF Holds
<1>. QED BY <1>1, <1>2 DEF StepKnown

\* A step stays known through each branch of applyRecommendations.
LEMMA StepsStart ==
  ASSUME Grounded, Undisturbed, NEW a \in Watched, NEW outcome, ApplyStart(a, outcome),
         StepKnown(a)
  PROVE  StepKnown(a)'
<1>. DEFINE r == rec[a]
            n == st'[a]
            z == SeenNow(a)
<1>1. a \in Accounts /\ a \in left /\ Typed /\ TypeOK /\ r.start
  BY CycleAssumption DEF Grounded, Typed, ApplyStart, Turn
<1>2. /\ r \in Recommendation /\ r.cur = Current(a) /\ ~r.done /\ ~Holds(a)
      /\ (r.recovery /\ r.want # r.cur => ~(st[a].original > r.cur))
      /\ (~r.recovery => r.want < r.cur)
  BY <1>1, TurnFacts, Zenon
<1>3. r.cur = prio[a] /\ r.cur \in Priority /\ r.want \in Priority
  <2>1. r.cur = prio[a]
    BY <1>1, <1>2, CurrentHere
  <2>. QED BY <1>2, <2>1 DEF Recommendation, Priority
<1>4. st \in [Accounts -> AccountState] /\ st[a] \in AccountState
  BY <1>1 DEF TypeOK
<1>5. /\ z \in AccountState /\ z.seen = Now /\ z.applied = st[a].applied
      /\ z.original = st[a].original
  BY <1>1, SeenType
<1>6. CASE r.want # r.cur
  <2>1. Put(a, r.want, outcome)
    BY <1>6 DEF ApplyStart
  <2>2. CASE outcome = "ok" /\ prio'[a] = r.want /\ hist'[a] = Recorded(a, r, r.want)
    <3>. DEFINE c == Committed(z, a, r)
    <3>1. n = Begun(c, r) /\ lease' = NewLease(a, r, n) /\ n \in AccountState /\ n.seen = Now
      BY <1>2, <1>4, <1>6, <2>2, <1>1, StartParts
    <3>2. c \in AccountState /\ c.applied = Now
      <4>. HIDE DEF z, r
      <4>. QED BY <1>1, <1>2, <1>5, CommittedType
    <3>3. /\ n.applied = c.applied
          /\ n.original = IF r.recovery /\ r.want # r.cur THEN r.cur ELSE c.original
      <4>. HIDE DEF c, r, n
      <4>. QED BY <1>2, <3>1, <3>2, BegunType DEF SameTimes
    <3>4. hist'[a].risen = IF r.trial /\ r.recovery /\ ~r.done /\ r.want < r.cur
                           THEN Now ELSE Never
      BY <1>1, <2>2, HistoryFields DEF Recorded, History
    <3>5. CASE ~(r.trial /\ r.recovery /\ ~r.done /\ r.want < r.cur)
      BY <3>4, <3>5 DEF StepKnown, Set
    <3>6. CASE r.trial /\ r.recovery /\ ~r.done /\ r.want < r.cur
      <4>1. hist'[a].risen = Now /\ n.applied = Now /\ n.original = r.cur /\ n.seen = Now
        BY <1>6, <3>1, <3>2, <3>3, <3>4, <3>6
      <4>2. r.cur > r.want /\ ~(r.cur > r.cur) /\ Now <= Now
        BY <1>3, <3>6, Times DEF Priority
      <4>3. lease'.recovery /\ lease'.started = Now
        <5>. HIDE DEF n
        <5>. QED BY <3>1, <3>6, <4>1, <4>2 DEF NewLease
      <4>. QED BY <2>2, <4>1, <4>2, <4>3 DEF StepKnown
    <3>. QED BY <3>5, <3>6
  <2>3. CASE outcome # "ok" /\ prio' = prio /\ hist' = hist
    <3>1. n = z /\ lease' = lease
      BY <1>1, <1>2, <1>4, <2>3, StartParts
    <3>. QED BY <1>1, <1>5, <2>3, <3>1, StepKept
  <2>. QED BY <1>1, <2>1, <2>2, <2>3, PutWritten
<1>7. CASE r.want = r.cur
  <2>. DEFINE c == Observed(z, a, r)
  <2>1. outcome = "ok" /\ prio' = prio /\ hist' = hist
    BY <1>7 DEF ApplyStart, NoPut
  <2>2. n = Begun(c, r) /\ lease' = NewLease(a, r, n) /\ n \in AccountState /\ n.seen = Now
    BY <1>2, <1>4, <1>7, <2>1, <1>1, StartParts
  <2>3. c \in AccountState /\ c.applied = st[a].applied /\ c.original = st[a].original
    <3>. HIDE DEF z, r
    <3>. QED BY <1>1, <1>2, <1>5, ObservedType DEF SameTimes
  <2>4. n.applied = st[a].applied /\ n.original = st[a].original
    <3>. HIDE DEF c, r, n
    <3>. QED BY <1>2, <1>7, <2>2, <2>3, BegunType DEF SameTimes
  <2>5. r.recovery
    <3>1. ~(r.want < r.cur)
      BY <1>3, <1>7 DEF Priority
    <3>. QED BY <1>2, <3>1
  <2>6. Set(hist[a].risen) =>
          Since(hist[a].risen) >= RecoveryTime
            \/ (lease'.recovery /\ lease'.started = st[a].applied)
    <3>. SUFFICES ASSUME Set(hist[a].risen), ~(Since(hist[a].risen) >= RecoveryTime)
                  PROVE  lease'.recovery /\ lease'.started = st[a].applied
      OBVIOUS
    <3>1. st[a].original > r.cur /\ Set(st[a].applied)
      BY <1>3 DEF StepKnown
    <3>. HIDE DEF n
    <3>. QED BY <2>2, <2>4, <2>5, <3>1 DEF NewLease
  <2>. QED BY <1>1, <2>1, <2>2, <2>4, <2>6, StepKept
<1>. QED BY <1>6, <1>7

LEMMA StepsSame ==
  ASSUME Grounded, NEW a \in Watched, ApplySame(a), StepKnown(a)
  PROVE  StepKnown(a)'
<1>. DEFINE r == rec[a]
<1>1. a \in Accounts /\ a \in left /\ Typed /\ TypeOK
  BY CycleAssumption DEF Grounded, Typed, ApplySame, Turn
<1>2. r \in Recommendation /\ (r.done => Done(a))
  BY <1>1, TurnFacts, Zenon DEF Done
<1>3. st \in [Accounts -> AccountState]
  BY <1>1 DEF TypeOK
<1>4. /\ st'[a].seen = Now /\ st'[a].applied = st[a].applied
      /\ (~r.done => st'[a].original = st[a].original)
      /\ lease' = IF Ends(a, r) THEN NoLease ELSE lease
  BY <1>1, <1>2, <1>3, SameParts
<1>5. prio' = prio /\ hist' = hist
  BY DEF ApplySame
<1>6. lease' = NoLease => ~Holds(a)'
  BY <1>1, NoneTypes DEF Holds, NoLease
<1>. QED BY <1>1, <1>2, <1>4, <1>5, <1>6, StepKept, DoneObserved

LEMMA StepsAtOnce ==
  ASSUME Grounded, Undisturbed, NEW a \in Watched, NEW outcome, ApplyAtOnce(a, outcome),
         StepKnown(a)
  PROVE  StepKnown(a)'
<1>. DEFINE r == rec[a]
            n == st'[a]
<1>1. a \in Accounts /\ a \in left /\ Typed /\ TypeOK /\ ~r.start
  BY CycleAssumption DEF Grounded, Typed, ApplyAtOnce, Turn
<1>2. /\ r \in Recommendation
      /\ (r.recovery /\ r.want < r.cur /\ ~r.start => RecoveryOf(a) /\ r.end)
  BY <1>1, TurnFacts, Zenon
<1>3. st \in [Accounts -> AccountState] /\ r.cur \in Priority /\ r.want \in Priority
  BY <1>1, <1>2 DEF TypeOK, Recommendation, Priority
<1>4. Put(a, r.want, outcome)
  BY DEF ApplyAtOnce
<1>5. CASE outcome = "ok" /\ prio'[a] = r.want /\ hist'[a] = Recorded(a, r, r.want)
  <2>1. /\ n.seen = Now /\ n.applied = Now
        /\ n.original = IF Ends(a, r) /\ lease.recovery /\ ~r.done /\ r.want < r.cur
                        THEN r.cur ELSE Observed(SeenNow(a), a, r).original
        /\ lease' = IF Ends(a, r) THEN NoLease ELSE lease
    BY <1>1, <1>2, <1>3, <1>5, AtOnceParts
  <2>2. hist'[a].risen = IF r.trial /\ r.recovery /\ ~r.done /\ r.want < r.cur
                         THEN Now ELSE Never
    BY <1>1, <1>5, HistoryFields DEF Recorded, History
  <2>3. CASE ~(r.trial /\ r.recovery /\ ~r.done /\ r.want < r.cur)
    BY <2>2, <2>3 DEF StepKnown, Set
  <2>4. CASE r.trial /\ r.recovery /\ ~r.done /\ r.want < r.cur
    <3>1. Ends(a, r) /\ lease.recovery
      BY <1>1, <1>2, <2>4 DEF Ends, RecoveryOf
    <3>2. n.original = r.cur /\ lease' = NoLease /\ hist'[a].risen = Now
      BY <2>1, <2>2, <2>4, <3>1
    <3>3. ~Holds(a)'
      BY <1>1, <3>2, NoneTypes DEF Holds, NoLease
    <3>4. r.cur > r.want /\ Now <= Now
      BY <1>3, <2>4, Times DEF Priority
    <3>. QED BY <1>5, <2>1, <3>2, <3>3, <3>4 DEF StepKnown
  <2>. QED BY <2>3, <2>4
<1>6. CASE outcome # "ok" /\ prio' = prio /\ hist' = hist
  <2>1. n = SeenNow(a) /\ lease' = lease
    BY <1>1, <1>2, <1>3, <1>6, AtOnceParts
  <2>2. SeenNow(a).seen = Now /\ SeenNow(a).applied = st[a].applied
        /\ SeenNow(a).original = st[a].original
    BY <1>1, SeenType
  <2>. QED BY <1>1, <1>6, <2>1, <2>2, StepKept
<1>. QED BY <1>1, <1>4, <1>5, <1>6, PutWritten

LEMMA StepsStep ==
  ASSUME Grounded, Undisturbed, NEW a \in Watched, NEW outcome, ApplyStep(a, outcome),
         StepKnown(a)
  PROVE  StepKnown(a)'
<1>. DEFINE r == rec[a]
            n == st'[a]
            z == SeenNow(a)
            c == Noted(z, r)
            w == [r EXCEPT !.done = FALSE]
            to == RampPriority(r.cur, r.want)
<1>1. a \in Accounts /\ a \in left /\ Typed /\ TypeOK /\ ~r.start /\ ~r.atOnce
  BY CycleAssumption DEF Grounded, Typed, ApplyStep, Turn
<1>2. /\ r \in Recommendation
      /\ (r.recovery /\ r.want < r.cur /\ ~r.start => r.atOnce \/ r.done)
  BY <1>1, TurnFacts, Zenon
<1>3. st \in [Accounts -> AccountState] /\ r.cur \in Priority /\ r.want \in Priority
  BY <1>1, <1>2 DEF TypeOK, Recommendation, Priority
<1>4. /\ z \in AccountState /\ z.seen = Now /\ z.applied = st[a].applied
      /\ z.original = st[a].original
  BY <1>1, SeenType
<1>5. c \in AccountState /\ c.seen = Now /\ c.applied = st[a].applied
      /\ c.original = st[a].original
  <2>. HIDE DEF z, r
  <2>. QED BY <1>2, <1>4, NotedType DEF SameTimes
<1>6. LET o == Observed(c, a, w)
      IN  o.seen = Now /\ o.applied = st[a].applied /\ o.original = st[a].original
  <2>1. w \in Recommendation /\ ~w.done
    <3>. HIDE DEF r
    <3>. QED BY <1>2, Zenon DEF Recommendation
  <2>. HIDE DEF c, w
  <2>. QED BY <1>1, <1>5, <2>1, ObservedType DEF SameTimes
<1>7. \/ /\ NoPut(outcome) \/ (outcome # "ok" /\ Put(a, to, outcome))
         /\ lease' = lease /\ n.seen = Now /\ n.applied = st[a].applied
         /\ n.original = st[a].original
      \/ (Put(a, to, outcome) /\ outcome = "ok")
  <2>1. \/ NoPut(outcome) /\ lease' = lease /\ (n = Observed(c, a, w) \/ n = c)
        \/ outcome # "ok" /\ Put(a, to, outcome) /\ lease' = lease /\ n = c
        \/ Put(a, to, outcome) /\ outcome = "ok"
    BY <1>1, <1>2, <1>3, StepParts
  <2>. HIDE DEF c, w, n, to
  <2>. QED BY <1>5, <1>6, <2>1
<1>8. CASE Put(a, to, outcome) /\ outcome = "ok"
  <2>1. hist'[a] = Recorded(a, r, to)
    BY <1>1, <1>8, PutWritten
  <2>2. ~(r.trial /\ r.recovery /\ ~r.done /\ to < r.cur)
    BY <1>1, <1>2, <1>3, RampMoves
  <2>3. hist'[a].risen = Never
    BY <1>1, <2>1, <2>2, HistoryFields DEF Recorded, History
  <2>. QED BY <2>3 DEF StepKnown, Set
<1>9. CASE /\ NoPut(outcome) \/ (outcome # "ok" /\ Put(a, to, outcome))
           /\ lease' = lease /\ n.seen = Now /\ n.applied = st[a].applied
           /\ n.original = st[a].original
  <2>1. prio' = prio /\ hist' = hist
    BY <1>1, <1>9, PutWritten DEF NoPut
  <2>. QED BY <1>1, <1>9, <2>1, StepKept
<1>. QED BY <1>7, <1>8, <1>9
-----------------------------------------------------------------------------
(* The confirmations of an ordinary adjustment.                             *)

LEMMA MoreIntervals ==
  ASSUME NEW m \in Nat, NEW n \in Nat, m <= n
  PROVE  /\ m * Interval \in Nat /\ n * Interval \in Nat
         /\ m * Interval <= n * Interval
         /\ (n + 1) * Interval = n * Interval + Interval
         /\ 0 * Interval = 0
<1>1. Interval \in Nat
  BY Times
<1>2. PICK d \in Nat : n = m + d
  <2>1. n - m \in Nat /\ n = m + (n - m)
    OBVIOUS
  <2>. QED BY <2>1
<1>3. n * Interval = m * Interval + d * Interval
  BY <1>1, <1>2
<1>4. d * Interval \in Nat /\ m * Interval \in Nat /\ n * Interval \in Nat
  BY <1>1, <1>2
<1>5. (n + 1) * Interval = n * Interval + Interval
  BY <1>1
<1>6. 0 * Interval = 0
  BY <1>1
<1>. QED BY <1>3, <1>4, <1>5, <1>6

\* What is confirmed before a cycle is counted after it.
LEMMA ConfirmedCounted ==
  ASSUME Typed, NEW a \in Accounts, Confirmed(a), SameTally(st'[a], st[a]),
         prio'[a] = prio[a], hist'[a] = hist[a]
  PROVE  Counted(a)'
<1>1. st[a].count \in 0..Confirmations /\ hist[a].since \in Stamps
  BY HistoryFields DEF Typed
<1>2. ASSUME st[a].count > 0
      PROVE  Lasted(a, st[a].count - 1)
  <2>. DEFINE n == Smaller(st[a].count, Confirmations - 1)
  <2>1. n \in Nat /\ st[a].count - 1 \in Nat /\ st[a].count - 1 <= n
    BY <1>1, <1>2, Times DEF Smaller
  <2>2. Lasted(a, n)
    BY <1>2 DEF Confirmed, Before, Backed
  <2>. HIDE DEF n
  <2>3. (st[a].count - 1) * Interval <= n * Interval
        /\ (st[a].count - 1) * Interval \in Nat /\ n * Interval \in Nat
    BY <2>1, MoreIntervals
  <2>4. Since(hist[a].since) \in Int
    BY <1>1, Times DEF Since, Stamps, Never
  <2>. QED BY <2>2, <2>3, <2>4 DEF Lasted
<1>. QED BY <1>2 DEF Counted, Confirmed, Before, Backed, SameTally, Lasted

\* A cycle that counts: the direction is the one all before it had.
LEMMA NotedCounted ==
  ASSUME Typed, NEW a \in Accounts, Counting(a), rec[a] \in Recommendation,
         ~rec[a].atOnce, rec[a].want # rec[a].cur, rec[a].cur = prio[a],
         SameTally(st'[a], Noted(SeenNow(a), rec[a])),
         prio'[a] = prio[a], hist'[a] = hist[a]
  PROVE  Counted(a)'
<1>. DEFINE r == rec[a]
            z == SeenNow(a)
            c == Noted(z, r)
            same == z.count > 0 /\ Direction(r.cur, z.cand) = Direction(r.cur, r.want)
<1>1. z \in AccountState /\ SameTally(z, st[a]) /\ r \in Recommendation
  BY SeenType DEF Typed
<1>2. /\ c.cand = r.want /\ Set(c.since)
      /\ c.count = IF same THEN Smaller(z.count + 1, Confirmations) ELSE 1
      /\ c.since = IF same /\ Set(z.since) THEN z.since ELSE Now
  <2>. HIDE DEF z, r
  <2>. QED BY <1>1, NotedType
<1>3. /\ st[a].count \in 0..Confirmations /\ hist[a].since \in Stamps /\ hist[a].since <= Now
      /\ Now \in Nat
  BY HistoryFields, StampTypes, Times DEF Typed
<1>4. hist[a].dir = Direction(prio[a], r.want)
  BY DEF Counting
<1>5. CASE same
  <2>1. Before(a)
    BY <1>1, <1>4, <1>5 DEF Counting, SameTally
  <2>2. c.since = st[a].since /\ hist[a].since <= st[a].since
    BY <1>1, <1>2, <1>5, <2>1 DEF Before, Backed, SameTally
  <2>3. c.count - 1 = Smaller(st[a].count, Confirmations - 1)
    BY <1>1, <1>2, <1>3, <1>5, Times DEF SameTally, Smaller
  <2>4. Lasted(a, c.count - 1)
    BY <2>1, <2>3 DEF Before, Backed
  <2>. QED BY <1>2, <1>4, <2>2, <2>4 DEF Counted, Backed, Lasted, SameTally
<1>6. CASE ~same
  <2>1. c.count = 1 /\ c.since = Now
    BY <1>2, <1>6
  <2>2. Since(hist[a].since) >= (c.count - 1) * Interval
    <3>1. (c.count - 1) * Interval = 0
      BY <2>1, MoreIntervals
    <3>. QED BY <1>3, <3>1 DEF Since, Stamps, Never
  <2>. QED BY <1>2, <1>3, <1>4, <2>1, <2>2 DEF Counted, Backed, Lasted, SameTally
<1>. QED BY <1>5, <1>6

\* The counter keeps its meaning through the turn of the account.
LEMMA CountsTurn ==
  ASSUME Grounded, Undisturbed, NEW a \in Watched, NEW outcome, Apply(a, outcome), CountOK(a)
  PROVE  CountOK(a)'
<1>. DEFINE r == rec[a]
            n == st'[a]
            z == SeenNow(a)
            c == Noted(z, r)
            w == [r EXCEPT !.done = FALSE]
<1>1. /\ a \in Accounts /\ a \in left /\ Typed /\ TypeOK /\ phase = "applying"
      /\ phase' = "applying" /\ a \notin left'
  <2>1. a \in Accounts
    BY CycleAssumption
  <2>. QED BY <2>1, StampsOfTurn DEF Grounded, Typed
<1>2. /\ r \in Recommendation /\ (r.start => r.atOnce) /\ (r.want # r.cur => r.cur = prio[a])
  BY <1>1, TurnFacts, Zenon
<1>3. /\ Counting(a) /\ (r.atOnce => Confirmed(a))
      /\ st \in [Accounts -> AccountState] /\ n \in AccountState
  BY <1>1, TurnMarks DEF CountOK, TypeOK, Counting
<1>4. z \in AccountState /\ SameTally(z, st[a])
  BY <1>1, SeenType
<1>5. CASE n.count = 0
  BY <1>1, <1>5 DEF CountOK, Counted
<1>6. CASE SameTally(n, st[a]) /\ r.atOnce /\ prio' = prio /\ hist' = hist
  BY <1>1, <1>3, <1>6, ConfirmedCounted DEF CountOK
<1>7. CASE SameTally(n, c) /\ ~r.atOnce /\ r.want # r.cur /\ prio' = prio /\ hist' = hist
  BY <1>1, <1>2, <1>3, <1>7, NotedCounted DEF CountOK
<1>8. CASE ApplyStart(a, outcome)
  <2>1. CASE outcome = "ok" /\ r.want # r.cur
    <3>. DEFINE b == Committed(z, a, r)
    <3>1. n = Begun(b, r)
      BY <1>1, <1>2, <1>3, <1>8, <2>1, StartParts
    <3>2. b \in AccountState /\ b.count = 0
      <4>. HIDE DEF z, r
      <4>. QED BY <1>1, <1>2, <1>4, CommittedType
    <3>3. n.count = 0
      <4>. HIDE DEF b, r, n
      <4>. QED BY <1>2, <3>1, <3>2, BegunType DEF SameTally
    <3>. QED BY <1>5, <3>3
  <2>2. CASE outcome = "ok" /\ r.want = r.cur
    <3>. DEFINE b == Observed(z, a, r)
    <3>1. n = Begun(b, r)
      BY <1>1, <1>2, <1>3, <1>8, <2>2, StartParts
    <3>2. b \in AccountState /\ SameTally(b, z)
      <4>. HIDE DEF z, r
      <4>. QED BY <1>1, <1>2, <1>4, ObservedType
    <3>3. SameTally(n, b)
      <4>. HIDE DEF b, r, n
      <4>. QED BY <1>2, <3>1, <3>2, BegunType
    <3>4. SameTally(n, st[a])
      <4>. HIDE DEF b, n, z
      <4>. QED BY <1>4, <3>2, <3>3 DEF SameTally
    <3>. QED BY <1>2, <1>6, <1>8, <2>2, <3>4 DEF ApplyStart, NoPut
  <2>3. CASE outcome # "ok"
    <3>1. n = z
      BY <1>1, <1>2, <1>3, <1>8, <2>3, StartParts
    <3>2. prio' = prio /\ hist' = hist
      BY <1>1, <1>8, <2>3, PutWritten DEF ApplyStart, NoPut
    <3>. QED BY <1>2, <1>4, <1>6, <1>8, <3>1, <3>2 DEF ApplyStart
  <2>. QED BY <2>1, <2>2, <2>3
<1>9. CASE ApplySame(a)
  <2>1. n.count = 0
    BY <1>1, <1>2, <1>3, <1>9, SameParts
  <2>. QED BY <1>5, <2>1
<1>10. CASE ApplyAtOnce(a, outcome)
  <2>1. CASE outcome = "ok"
    <3>1. n.count = 0
      BY <1>1, <1>2, <1>3, <1>10, <2>1, AtOnceParts
    <3>. QED BY <1>5, <3>1
  <2>2. CASE outcome # "ok"
    <3>1. n = z
      BY <1>1, <1>2, <1>3, <1>10, <2>2, AtOnceParts
    <3>2. prio' = prio /\ hist' = hist
      BY <1>1, <1>10, <2>2, PutWritten DEF ApplyAtOnce
    <3>. QED BY <1>4, <1>6, <1>10, <3>1, <3>2 DEF ApplyAtOnce
  <2>. QED BY <2>1, <2>2
<1>11. CASE ApplyStep(a, outcome)
  <2>. DEFINE to == RampPriority(r.cur, r.want)
              o == Observed(c, a, w)
  <2>1. c \in AccountState
    <3>. HIDE DEF z, r
    <3>. QED BY <1>2, <1>4, NotedType
  <2>2. SameTally(o, c) /\ SameTally(c, c)
    <3>1. w \in Recommendation
      <4>. HIDE DEF r
      <4>. QED BY <1>2, Zenon DEF Recommendation
    <3>. HIDE DEF c, w
    <3>. QED BY <1>1, <2>1, <3>1, ObservedType DEF SameTally
  <2>3. \/ NoPut(outcome) /\ (n = o \/ n = c)
        \/ outcome # "ok" /\ Put(a, to, outcome) /\ n = c
        \/ n.count = 0
    BY <1>1, <1>2, <1>3, <1>11, StepParts
  <2>4. n.count = 0 \/ (SameTally(n, c) /\ prio' = prio /\ hist' = hist)
    <3>. HIDE DEF n, c, o, to
    <3>. QED BY <1>1, <2>2, <2>3, PutWritten DEF NoPut
  <2>. QED BY <1>5, <1>7, <1>11, <2>4 DEF ApplyStep
<1>. QED BY <1>8, <1>9, <1>10, <1>11 DEF Apply
-----------------------------------------------------------------------------
(* The steps that are no turn.                                              *)

Known(a) == BlameBehind(a) /\ ObservedSinceFall(a) /\ StepKnown(a) /\ CountOK(a)

\* An account without state has no history either.
LEMMA KnownFresh ==
  ASSUME NEW a, st'[a].count = 0, hist'[a] = NoHistory, a \notin left', phase' # "idle"
  PROVE  Known(a)'
BY DEF Known, BlameBehind, ObservedSinceFall, StepKnown, CountOK, Counted, NoHistory, Set

\* A step that leaves state, priority and rollbacks alone.
LEMMA KnownKept ==
  ASSUME Typed, NEW a \in Accounts, Known(a), st'[a] = st[a], prio'[a] = prio[a],
         hist'[a].blamed = hist[a].blamed, hist'[a].fell = hist[a].fell,
         hist'[a].risen = hist[a].risen, lease' = lease \/ lease' = NoLease
  PROVE  BlameBehind(a)' /\ ObservedSinceFall(a)' /\ StepKnown(a)'
<1>1. lease' = NoLease => ~Holds(a)'
  BY NoneTypes DEF Holds, NoLease
<1>2. lease' = lease => (Holds(a)' <=> Holds(a))
  BY DEF Holds
<1>. QED BY <1>1, <1>2 DEF Known, BlameBehind, ObservedSinceFall, StepKnown

\* A recommendation that moves starts from the priority in the database.
LEMMA AskedHere ==
  ASSUME Typed, NEW a \in Listed, NEW r, Asked(a, r)
  PROVE  LET n == Reviewed(a, r)
         IN n \in Recommendation /\ (n.want # n.cur => n.cur = prio[a])
<1>1. a \in Accounts /\ a \notin Excluded
  BY DEF Listed, Excluded, Placeholder
<1>2. r \in Recommendation /\ ~r.rollback /\ r.cur = Current(a)
  BY <1>1, AskedType
<1>. DEFINE n == Reviewed(a, r)
<1>3. n \in Recommendation /\ n.cur = Current(a)
  <2>1. LET m == Reviewed(a, r) IN m \in Recommendation /\ m.cur = r.cur
    BY <1>1, <1>2, ReviewedType, Zenon
  <2>. QED BY <1>2, <2>1, Zenon
<1>4. CASE Placeholder(a)
  <2>1. r = Judged(a)
    <3>1. ~Free
      BY <1>1, <1>4, NoneTypes DEF Free, Placeholder, RecoveryOf, Holds
    <3>. QED BY <3>1 DEF Asked
  <2>2. LET m == Reviewed(a, Judged(a)) IN m.want = m.cur
    BY <1>1, <1>4, PlaceholderStays, Zenon
  <2>. QED BY <1>3, <2>1, <2>2, Zenon
<1>5. CASE ~Placeholder(a)
  <2>1. prio[a] \in Priority
    BY <1>1 DEF Typed, TypeOK, Priority
  <2>2. Current(a) = prio[a]
    BY <1>5, <2>1, Normal DEF Current
  <2>. QED BY <1>3, <2>2, Zenon
<1>. QED BY <1>4, <1>5

\* Load, failed load, save and interval leave the state what it knows.
LEMMA KnownLoad ==
  ASSUME Typed, Load, NEW a \in Watched, phase = "idle", Known(a)
  PROVE  Known(a)'
<1>1. a \in Accounts /\ TypeOK
  BY CycleAssumption DEF Typed
<1>2. /\ phase' = "applying" /\ left' = Listed /\ prio' = prio
      /\ st' = Kept /\ (lease' = lease \/ lease' = NoLease)
      /\ hist' = [b \in Accounts |-> IF b \in Listed \cap Watched THEN Witnessed(b, rec'[b])
                                     ELSE Remembered[b]]
  BY DEF Load, Prepare
<1>3. Confirmed(a)
  BY DEF Known, CountOK
<1>4. CASE a \in Excluded
  <2>1. a \notin Listed
    BY <1>4 DEF Excluded, Listed, Placeholder
  <2>2. st'[a] = NoState /\ hist'[a] = NoHistory
    BY <1>1, <1>2, <1>4, <2>1 DEF Kept, Remembered
  <2>. QED BY <1>2, <2>1, <2>2, KnownFresh DEF NoState
<1>5. CASE a \notin Excluded /\ a \notin Listed
  <2>1. st'[a] = st[a] /\ hist'[a] = hist[a]
    BY <1>1, <1>2, <1>5 DEF Kept, Remembered
  <2>2. Counted(a)'
    BY <1>1, <1>2, <1>3, <2>1, ConfirmedCounted DEF SameTally
  <2>. QED BY <1>1, <1>2, <1>5, <2>1, <2>2, KnownKept DEF Known, CountOK
<1>6. CASE a \in Listed
  <2>. DEFINE r == rec'[a]
              h == hist'[a]
  <2>1. a \notin Excluded
    BY <1>6 DEF Excluded, Listed, Placeholder
  <2>2. h = Witnessed(a, r) /\ st'[a] = st[a]
    BY <1>1, <1>2, <1>6, <2>1 DEF Kept
  <2>3. r \in Recommendation /\ (r.want # r.cur => r.cur = prio[a])
    <3>1. PICK x : Asked(a, x) /\ r = Reviewed(a, x)
      BY <1>6, LoadAsks
    <3>2. LET m == Reviewed(a, x) IN m \in Recommendation /\ (m.want # m.cur => m.cur = prio[a])
      BY <1>6, <3>1, AskedHere, Zenon
    <3>. QED BY <3>1, <3>2, Zenon
  <2>4. /\ h.blamed = hist[a].blamed /\ h.fell = hist[a].fell /\ h.risen = hist[a].risen
        /\ h.dir = (IF r.atOnce THEN hist[a].dir ELSE Direction(r.cur, r.want))
        /\ h.since = IF r.atOnce \/ hist[a].dir = Direction(r.cur, r.want)
                     THEN hist[a].since ELSE Now
    BY <1>1, <2>2, HistoryFields DEF Witnessed, History
  <2>5. CASE r.atOnce
    <3>1. Confirmed(a)'
      BY <1>2, <1>3, <2>2, <2>4, <2>5 DEF Confirmed, Before, Backed, Lasted
    <3>2. Counting(a)'
      BY <2>5, <3>1 DEF Counting
    <3>. QED BY <1>1, <1>2, <1>6, <2>2, <2>4, <3>2, KnownKept DEF Known, CountOK
  <2>6. CASE ~r.atOnce
    <3>1. ASSUME r.want # r.cur
          PROVE  /\ h.dir = Direction(r.cur, r.want)
                 /\ st'[a].count > 0 /\ Direction(r.cur, st'[a].cand) = h.dir => Before(a)'
      <4>1. h.dir = Direction(r.cur, r.want) /\ r.cur = prio[a]
        BY <2>3, <2>4, <2>6, <3>1
      <4>2. ASSUME st[a].count > 0, Direction(r.cur, st[a].cand) = h.dir
            PROVE  Before(a)'
        <5>1. hist[a].dir = h.dir /\ Before(a)
          BY <1>3, <4>1, <4>2 DEF Confirmed
        <5>2. h.since = hist[a].since
          BY <2>4, <4>1, <5>1
        <5>. QED BY <2>2, <5>1, <5>2 DEF Before, Backed, Lasted
      <4>. QED BY <2>2, <4>1, <4>2
    <3>2. Counting(a)'
      BY <2>6, <3>1 DEF Counting
    <3>. QED BY <1>1, <1>2, <1>6, <2>2, <2>4, <3>2, KnownKept DEF Known, CountOK
  <2>. QED BY <2>5, <2>6
<1>. QED BY <1>4, <1>5, <1>6

LEMMA KnownLoadFails ==
  ASSUME Typed, InPhase, LoadFails, NEW a \in Watched, Known(a)
  PROVE  Known(a)'
<1>1. a \in Accounts /\ TypeOK
  BY CycleAssumption DEF Typed
<1>2. /\ phase = "idle" /\ phase' = "done" /\ left' = {} /\ prio' = prio /\ lease' = lease
  BY DEF LoadFails, InPhase
<1>3. CASE st'[a] = st[a] /\ hist'[a] = hist[a]
  <2>1. Counted(a)'
    BY <1>1, <1>2, <1>3, ConfirmedCounted DEF Known, CountOK, SameTally
  <2>. QED BY <1>1, <1>2, <1>3, <2>1, KnownKept DEF Known, CountOK
<1>4. CASE st'[a] = NoState /\ hist'[a] = NoHistory
  BY <1>2, <1>4, KnownFresh DEF NoState
<1>. QED BY <1>1, <1>3, <1>4 DEF LoadFails, Kept, Remembered

LEMMA KnownSave ==
  ASSUME Typed, NEW outcome, Save(outcome), NEW a \in Watched, Known(a)
  PROVE  Known(a)'
<1>1. a \in Accounts /\ TypeOK
  BY CycleAssumption DEF Typed
<1>2. /\ phase = "applying" /\ phase' = "done" /\ left = {} /\ left' = {} /\ prio' = prio
      /\ lease' = lease /\ hist' = hist /\ st' = Pruned
  BY DEF Save
<1>3. CASE st'[a] = st[a]
  <2>1. Counted(a) /\ (Counted(a) <=> Counted(a)')
    BY <1>2, <1>3 DEF Known, CountOK, Counted, Backed, Lasted
  <2>. QED BY <1>1, <1>2, <1>3, <2>1, KnownKept DEF Known, CountOK
<1>4. CASE st'[a] = NoState /\ Set(st[a].seen) /\ Since(st[a].seen) >= Retention
  <2>1. /\ hist[a].blamed \in Stamps /\ hist[a].risen \in Stamps /\ st[a].seen \in Stamps
    BY <1>1, HistoryFields
  <2>2. Since(hist[a].risen) >= RecoveryTime \/ ~Set(hist[a].risen)
    <3>1. Set(hist[a].risen) =>
            Since(hist[a].risen) >= RecoveryTime \/ hist[a].risen <= st[a].seen
      BY DEF Known, StepKnown
    <3>. QED BY <1>4, <2>1, <3>1, Times DEF Since, Stamps, Never
  <2>3. hist[a].blamed < Now - Window \/ ~Set(hist[a].blamed)
    <3>1. Set(hist[a].blamed) =>
            hist[a].blamed < Now - Window \/ hist[a].blamed < st[a].seen
      BY DEF Known, BlameBehind
    <3>. QED BY <1>4, <2>1, <3>1, Times DEF Since, Stamps, Never
  <2>. QED BY <1>2, <1>4, <2>2, <2>3 DEF Known, BlameBehind, ObservedSinceFall, StepKnown,
             CountOK, Counted, NoState, Set
<1>. QED BY <1>1, <1>2, <1>3, <1>4 DEF Pruned

LEMMA KnownTick ==
  ASSUME Typed, InPhase, Tick, NEW a \in Watched, Known(a)
  PROVE  Known(a)'
<1>. DEFINE s == st[a]
            h == hist[a]
            s1 == st'[a]
            h1 == hist'[a]
<1>1. a \in Accounts /\ TypeOK
  BY CycleAssumption DEF Typed
<1>2. /\ phase = "done" /\ phase' = "idle" /\ left = {} /\ prio' = prio
      /\ lease' = AgedLease(lease) /\ s1 = AgedState(s) /\ h1 = AgedHistory(h)
  BY <1>1, TickParts DEF InPhase
<1>3. /\ s.since \in Stamps /\ s.seen \in Stamps /\ s.applied \in Stamps /\ s.rolledAt \in Stamps
      /\ s.highSince \in Stamps /\ h.risen \in Stamps /\ h.fell \in Stamps
      /\ h.blamed \in Stamps /\ h.since \in Stamps /\ s.count \in 0..Confirmations
      /\ s \in AccountState /\ h \in History
  BY <1>1, HistoryFields
<1>4. /\ s1.cand = s.cand /\ s1.count = s.count /\ s1.original = s.original
      /\ s1.since = Aged(s.since) /\ s1.seen = Aged(s.seen) /\ s1.applied = Aged(s.applied)
      /\ s1.rolledAt = Aged(s.rolledAt) /\ s1.highSince = Aged(s.highSince)
      /\ h1.dir = h.dir /\ h1.risen = Aged(h.risen) /\ h1.fell = Aged(h.fell)
      /\ h1.blamed = Aged(h.blamed) /\ h1.since = Aged(h.since)
  BY <1>2, <1>3, AgedStateType, AgedHistoryType
<1>5. /\ lease'.account = lease.account /\ lease'.recovery = lease.recovery
      /\ lease'.started = Aged(lease.started)
  BY <1>1, <1>2, AgedLeaseType DEF TypeOK
<1>. HIDE DEF s, h, s1, h1
<1>6. BlameBehind(a)'
  <2>1. Set(h.blamed) =>
          h.blamed < Now - Window \/ (h.blamed <= s.rolledAt /\ h.blamed < s.seen)
    BY DEF Known, BlameBehind, s, h
  <2>2. Set(h1.blamed) =>
          h1.blamed < Now - Window \/ (h1.blamed <= s1.rolledAt /\ h1.blamed < s1.seen)
    BY <1>3, <1>4, <2>1, Times DEF Aged, Larger, Set, Stamps, Never
  <2>. QED BY <2>2 DEF BlameBehind, s1, h1
<1>7. ObservedSinceFall(a)'
  <2>1. Set(h.fell) /\ Set(s.highSince) => h.fell <= s.highSince
    BY DEF Known, ObservedSinceFall, s, h
  <2>2. Set(h1.fell) /\ Set(s1.highSince) => h1.fell <= s1.highSince
    BY <1>3, <1>4, <2>1, AgedType
  <2>. QED BY <2>2 DEF ObservedSinceFall, s1, h1
<1>8. StepKnown(a)'
  <2>1. Set(h.risen) =>
          \/ Since(h.risen) >= RecoveryTime
          \/ /\ s.applied = h.risen /\ h.risen <= s.seen /\ s.original > prio[a]
             /\ Holds(a) => lease.recovery /\ lease.started = h.risen
    BY DEF Known, StepKnown, s, h
  <2>2. /\ Set(h1.risen) <=> Set(h.risen)
        /\ Since(h.risen) >= RecoveryTime => Since(h1.risen) >= RecoveryTime
        /\ h.risen <= s.seen => h1.risen <= s1.seen
    BY <1>3, <1>4, AgedType, Times DEF Since, Stamps, Never
  <2>3. Holds(a)' <=> Holds(a)
    BY <1>5 DEF Holds
  <2>4. Set(h1.risen) =>
          \/ Since(h1.risen) >= RecoveryTime
          \/ /\ s1.applied = h1.risen /\ h1.risen <= s1.seen /\ s1.original > prio[a]
             /\ Holds(a)' => lease'.recovery /\ lease'.started = h1.risen
    BY <1>4, <1>5, <2>1, <2>2, <2>3
  <2>. QED BY <1>2, <2>4 DEF StepKnown, s1, h1
<1>9. CountOK(a)'
  <2>1. s.count > 0 =>
          /\ h.dir = Direction(prio[a], s.cand) /\ Set(s.since) /\ h.since <= s.since
          /\ Since(h.since) >= (s.count - 1) * Interval
    BY <1>2 DEF Known, CountOK, Counted, Backed, Lasted, s, h
  <2>. SUFFICES ASSUME s1.count > 0
                PROVE  /\ h1.dir = Direction(prio'[a], s1.cand) /\ Set(s1.since)
                       /\ h1.since <= s1.since
                       /\ Since(h1.since) >= Smaller(s1.count, Confirmations - 1) * Interval
    BY <1>2 DEF CountOK, Confirmed, Before, Backed, Lasted, s1, h1
  <2>2. h1.dir = Direction(prio'[a], s1.cand) /\ Set(s1.since) /\ h1.since <= s1.since
    BY <1>2, <1>3, <1>4, <2>1, AgedType
  <2>3. PICK m \in Nat : s.count = m + 1
    <3>1. s.count - 1 \in Nat /\ s.count = (s.count - 1) + 1
      BY <1>3, <1>4, Times
    <3>. QED BY <3>1
  <2>. DEFINE c == Smaller(s1.count, Confirmations - 1)
              i == m * Interval
              j == c * Interval
              l == (Confirmations - 1) * Interval
  <2>4. c \in Nat /\ c <= m + 1 /\ c <= Confirmations - 1 /\ Confirmations - 1 \in Nat
    BY <1>3, <1>4, <2>3, Times DEF Smaller
  <2>5. (m + 1) * Interval = i + Interval /\ i \in Nat
    BY <2>3, MoreIntervals
  <2>6. j \in Nat /\ j <= i + Interval
    <3>. HIDE DEF c
    <3>1. c * Interval <= (m + 1) * Interval /\ c * Interval \in Nat
      BY <2>3, <2>4, MoreIntervals
    <3>. QED BY <2>5, <3>1
  <2>7. j <= l /\ l \in Nat /\ l <= Now
    <3>. HIDE DEF c
    <3>1. c * Interval <= (Confirmations - 1) * Interval
          /\ (Confirmations - 1) * Interval \in Nat
      BY <2>4, MoreIntervals
    <3>. QED BY <3>1, Times
  <2>8. Since(h.since) >= i
    <3>1. s.count - 1 = m
      BY <2>3
    <3>. QED BY <1>4, <2>1, <3>1
  <2>. HIDE DEF i, j, l
  <2>9. Since(h1.since) >= j
    BY <1>3, <1>4, <2>5, <2>6, <2>7, <2>8, Times DEF Aged, Larger, Since, Stamps, Never
  <2>. QED BY <2>2, <2>9 DEF j
<1>. QED BY <1>6, <1>7, <1>8, <1>9 DEF Known
\* The turn of an account.
LEMMA KnownTurn ==
  ASSUME Grounded, Undisturbed, NEW b \in Accounts, NEW outcome, Apply(b, outcome),
         NEW a \in Watched, Known(a)
  PROVE  Known(a)'
<1>1. a \in Accounts /\ Typed /\ Standing
  BY CycleAssumption DEF Grounded
<1>2. CASE a = b
  <2>1. Apply(a, outcome)
    BY <1>2
  <2>2. BlameBehind(a)' /\ ObservedSinceFall(a)'
    BY <2>1, RollbacksTurn DEF Known
  <2>3. CountOK(a)'
    BY <1>2, <2>1, CountsTurn DEF Known
  <2>4. StepKnown(a)'
    BY <2>1, StepsStart, StepsSame, StepsAtOnce, StepsStep DEF Known, Apply
  <2>. QED BY <2>2, <2>3, <2>4 DEF Known
<1>3. CASE a # b
  <2>1. Untouched(a) /\ hist'[a] = hist[a]
    BY <1>1, <1>3, TurnUntouched
  <2>2. /\ st'[a] = st[a] /\ prio'[a] = prio[a] /\ (Holds(a)' <=> Holds(a))
        /\ (Holds(a) => lease' = lease)
    BY <2>1 DEF Untouched
  <2>3. /\ phase' = phase /\ rec' = rec /\ (a \in left' <=> a \in left)
    BY <1>1, <1>3, StampsOfTurn
  <2>4. BlameBehind(a)' /\ ObservedSinceFall(a)' /\ StepKnown(a)'
    BY <2>1, <2>2 DEF Known, BlameBehind, ObservedSinceFall, StepKnown
  <2>5. CountOK(a)'
    <3>1. (Confirmed(a)' <=> Confirmed(a)) /\ (Counted(a)' <=> Counted(a))
          /\ (Before(a)' <=> Before(a))
      BY <2>1, <2>2 DEF Confirmed, Counted, Before, Backed, Lasted
    <3>2. Counting(a)' <=> Counting(a)
      BY <2>1, <2>2, <2>3, <3>1 DEF Counting
    <3>. QED BY <2>3, <3>1, <3>2 DEF Known, CountOK
  <2>. QED BY <2>4, <2>5 DEF Known
<1>. QED BY <1>2, <1>3

\* What is known of the accounts that are watched, while nothing disturbs the
\* process: no crash, no write whose answer is lost.
Followed == Undisturbed => WatchedOK

LEMMA FollowedInit == Init => Followed
<1>. SUFFICES ASSUME Init, NEW a \in Watched PROVE Known(a)
  BY DEF Followed, WatchedOK, Known
<1>1. a \in Accounts
  BY CycleAssumption
<1>2. hist[a] = NoHistory /\ st[a] = NoState /\ phase = "idle"
  BY <1>1 DEF Init
<1>. QED BY <1>2 DEF Known, BlameBehind, ObservedSinceFall, StepKnown, CountOK, Confirmed,
         NoHistory, NoState, Set

\* So no step breaks the link between state and history.
LEMMA FollowedStep == Grounded /\ Followed /\ [Next]_vars => Followed'
<1>. SUFFICES ASSUME Grounded, Followed, [Next]_vars, Undisturbed', NEW a \in Watched
              PROVE  Known(a)'
  BY DEF Followed, WatchedOK, Known
<1>1. Typed /\ InPhase
  BY DEF Grounded
<1>2. CASE Crash
  <2>1. crashes \in Nat /\ crashes' = crashes + 1 /\ crashes' = 0
    BY <1>1, <1>2, EnvironmentTypes DEF Crash, Undisturbed, Typed, TypeOK
  <2>. QED BY <2>1
<1>3. CASE ~Crash
  <2>1. crashes' = crashes /\ env' = env
    BY <1>1, <1>3, StampsOfTurn
    DEF Next, vars, Load, Prepare, LoadFails, Tick, Save
  <2>2. Undisturbed
    BY <2>1 DEF Undisturbed, Outcomes
  <2>3. Known(a)
    BY <2>2 DEF Followed, WatchedOK, Known
  <2>4. CASE UNCHANGED vars
    BY <2>3, <2>4 DEF vars, memory, cycle, Known, BlameBehind, ObservedSinceFall, StepKnown,
       CountOK, Confirmed, Counted, Counting, Before, Backed, Lasted, Holds
  <2>5. CASE Load
    BY <1>1, <2>3, <2>5, KnownLoad DEF Load
  <2>6. CASE LoadFails
    BY <1>1, <2>3, <2>6, KnownLoadFails
  <2>7. CASE Tick
    BY <1>1, <2>3, <2>7, KnownTick
  <2>8. CASE \E b \in Accounts, o \in WriteOutcome : Apply(b, o)
    BY <2>2, <2>3, <2>8, KnownTurn
  <2>9. CASE \E o \in {"ok", "failed"} : Save(o)
    BY <1>1, <2>3, <2>9, KnownSave
  <2>. QED BY <1>3, <2>4, <2>5, <2>6, <2>7, <2>8, <2>9 DEF Next
<1>. QED BY <1>2, <1>3

CycleInv == Grounded /\ Followed

LEMMA CycleInvariant == Spec => []CycleInv
<1>1. Init => CycleInv
  BY GroundedInit, FollowedInit DEF CycleInv
<1>2. CycleInv /\ [Next]_vars => CycleInv'
  BY GroundedStep, FollowedStep DEF CycleInv
<1>. QED BY <1>1, <1>2, PTL DEF Spec

-----------------------------------------------------------------------------
(* What the writes promise.                                                 *)

\* A priority moves only in the turn of its account, by a write of its
\* recommendation.
LEMMA MoveFacts ==
  ASSUME Grounded, [Next]_vars, NEW a \in Accounts, Moves(a)
  PROVE  /\ a \in left /\ rec[a].want # rec[a].cur /\ rec[a].cur = prio[a]
         /\ \E outcome : /\ Apply(a, outcome)
              /\ \/ prio'[a] = rec[a].want /\ ApplyAtOnce(a, outcome)
                 \/ prio'[a] = rec[a].want /\ rec[a].start
                 \/ /\ prio'[a] = RampPriority(rec[a].cur, rec[a].want) /\ ~rec[a].atOnce
                    /\ ApplyStep(a, outcome)
                    /\ Put(a, RampPriority(rec[a].cur, rec[a].want), outcome)
<1>1. Typed /\ Standing
  BY DEF Grounded
<1>2. PICK b \in Accounts, outcome \in WriteOutcome : Apply(b, outcome)
  BY <1>1, TickParts DEF Moves, Next, vars, Load, Prepare, LoadFails, Crash, Save
<1>3. a = b
  BY <1>1, <1>2, TurnUntouched DEF Moves, Untouched
<1>4. Apply(a, outcome) /\ a \in left
  BY <1>1, <1>2, <1>3, StampsOfTurn
<1>5. PICK p \in Priority :
        /\ Put(a, p, outcome) /\ rec[a].want # rec[a].cur
        /\ \/ p = rec[a].want /\ rec[a].atOnce /\ ApplyAtOnce(a, outcome)
           \/ p = rec[a].want /\ rec[a].start /\ ApplyStart(a, outcome)
           \/ /\ p = RampPriority(rec[a].cur, rec[a].want) /\ ~rec[a].atOnce
              /\ ApplyStep(a, outcome)
  BY <1>1, <1>4, TurnWrites DEF Moves
<1>6. prio'[a] = p
  BY <1>1, <1>5 DEF Put, Moves, Typed, TypeOK
<1>7. rec[a].want # rec[a].cur => rec[a].cur = prio[a]
  BY <1>4, TurnFacts, Zenon
<1>. QED BY <1>4, <1>5, <1>6, <1>7

\* What a rollback answers is new, and a rate has been observed since the last.
LEMMA RollbackEarned ==
  ASSUME CycleInv, [Next]_vars, NEW a \in Watched, RollsBack(a), Undisturbed
  PROVE  /\ Shown(a).fail > hist[a].blamed
         /\ ~Shown(a).five /\ Set(hist[a].fell) => Since(hist[a].fell) >= Cycles * Interval
<1>1. a \in Accounts /\ Grounded /\ TypeOK /\ BlameBehind(a) /\ ObservedSinceFall(a)
  BY CycleAssumption DEF CycleInv, Followed, WatchedOK, Grounded, Typed
<1>2. a \in left
  BY <1>1, MoveFacts DEF RollsBack
<1>3. Assessment(a) = "rollback"
  <2>1. rec[a].rollback => Assessment(a) = "rollback"
    BY <1>1, <1>2, TurnFacts, Zenon
  <2>. QED BY <2>1 DEF RollsBack
<1>4. /\ hist[a].blamed \in Stamps /\ hist[a].fell \in Stamps /\ st[a].highSince \in Stamps
      /\ st[a].rolledAt \in Stamps
  BY <1>1, HistoryFields
<1>5. /\ Set(Shown(a).fail) /\ Shown(a).fail \in (Now - Window)..(Now - 1)
      /\ Shown(a).fail > st[a].rolledAt
  BY <1>1, <1>3, RollbackNew
<1>6. Shown(a).fail > hist[a].blamed
  BY <1>1, <1>4, <1>5, Times DEF BlameBehind, Set, Stamps, Never
<1>7. ASSUME ~Shown(a).five, Set(hist[a].fell)
      PROVE  Since(hist[a].fell) >= Cycles * Interval
  <2>1. Since(HighSince(a)) >= Cycles * Interval
    BY <1>3, <1>7 DEF Assessment, Verdict
  <2>2. \/ HighSince(a) = st[a].highSince /\ Set(st[a].highSince)
        \/ HighSince(a) = Now
    <3>1. Shown(a).enough /\ Shown(a).rate = "high"
      BY <1>3, <1>7 DEF Assessment, Verdict
    <3>. QED BY <3>1 DEF HighSince
  <2>3. hist[a].fell <= HighSince(a) /\ HighSince(a) \in Stamps
    BY <1>1, <1>4, <1>7, <2>2, StampTypes DEF ObservedSinceFall
  <2>4. Cycles * Interval \in Nat
    BY Times
  <2>. DEFINE l == Cycles * Interval
  <2>. HIDE DEF l
  <2>5. Since(hist[a].fell) >= l
    <3>1. Since(HighSince(a)) >= l /\ l \in Nat
      BY <2>1, <2>4 DEF l
    <3>. QED BY <1>4, <2>3, <3>1, Times DEF Since, Stamps, Never
  <2>. QED BY <2>5 DEF l
<1>. QED BY <1>6, <1>7

\* A rollback is earned by new failures, and by an observation since the last one
\* unless the failures are five in a row.
THEOREM RollbacksEarned == Spec => RollbacksAreEarned
<1>1. CycleInv /\ [Next]_vars =>
        [\A a \in Watched : RollsBack(a) /\ Undisturbed => Shown(a).fail > hist[a].blamed]_vars
  BY RollbackEarned
<1>2. CycleInv /\ [Next]_vars =>
        [\A a \in Watched :
           RollsBack(a) /\ ~Shown(a).five /\ Set(hist[a].fell) /\ Undisturbed =>
             Since(hist[a].fell) >= Cycles * Interval]_vars
  BY RollbackEarned
<1>. QED
  BY <1>1, <1>2, CycleInvariant, PTL
  DEF Spec, RollbacksAreEarned, RollbackNeedsNewFailure, RollbacksSpaced

\* The next step of a recovery comes after the observation of the last.
LEMMA StepObserved ==
  ASSUME CycleInv, [Next]_vars, NEW a \in Watched, RisesBack(a), Set(hist[a].risen), Undisturbed
  PROVE  Since(hist[a].risen) >= RecoveryTime
<1>. DEFINE r == rec[a]
<1>1. a \in Accounts /\ Grounded /\ Typed /\ TypeOK /\ StepKnown(a)
  BY CycleAssumption DEF CycleInv, Followed, WatchedOK, Grounded, Typed
<1>2. /\ a \in left /\ r.want # r.cur /\ r.cur = prio[a]
      /\ prio'[a] = r.want \/ (prio'[a] = RampPriority(r.cur, r.want) /\ ~r.atOnce)
  BY <1>1, MoveFacts DEF RisesBack
<1>3. /\ r \in Recommendation /\ r.recovery /\ prio'[a] < r.cur
      /\ (r.start /\ r.recovery /\ r.want # r.cur => ~(st[a].original > r.cur))
      /\ (r.start => lease.account = None /\ ~Holds(a))
      /\ (r.recovery /\ r.want < r.cur /\ ~r.start => RecoveryOf(a) /\ Expired)
  <2>1. /\ r \in Recommendation
        /\ (r.start /\ r.recovery /\ r.want # r.cur => ~(st[a].original > r.cur))
        /\ (r.start => lease.account = None /\ ~Holds(a))
        /\ (r.recovery /\ r.want < r.cur /\ ~r.start => RecoveryOf(a) /\ Expired)
    BY <1>1, <1>2, TurnFacts, Zenon
  <2>. QED BY <1>2, <2>1 DEF RisesBack
<1>4. r.want < r.cur
  <2>1. r.cur \in Priority /\ r.want \in Priority
    BY <1>3 DEF Recommendation, Priority
  <2>. QED BY <1>2, <1>3, <2>1, RampMoves
<1>5. CASE r.start
  BY <1>2, <1>3, <1>5, <1>1 DEF StepKnown
<1>6. CASE ~r.start
  BY <1>1, <1>3, <1>4, <1>6, DoneObserved DEF Done
<1>. QED BY <1>5, <1>6

\* Every step of a recovery is observed before the next, whatever reads, writes
\* and saves fail, while the process lives.
THEOREM StepsObserved == Spec => StepsObservedWhileUp
<1>1. CycleInv /\ [Next]_vars =>
        [\A a \in Watched : RisesBack(a) /\ Set(hist[a].risen) /\ Undisturbed =>
           Since(hist[a].risen) >= RecoveryTime]_vars
  BY StepObserved
<1>. QED BY <1>1, CycleInvariant, PTL DEF Spec, StepsObservedWhileUp

\* An ordinary write has the confirmations and the grace behind it.
LEMMA OrdinaryEarned ==
  ASSUME CycleInv, [Next]_vars, NEW a \in Watched, Ordinary(a), Undisturbed
  PROVE  /\ hist[a].dir = Direction(prio[a], prio'[a])
         /\ Since(hist[a].since) >= (Confirmations - 1) * Interval
         /\ prio'[a] > prio[a] /\ Reliable(Shown(a)) => Since(hist[a].since) >= Grace
<1>. DEFINE r == rec[a]
            z == SeenNow(a)
            c == Noted(z, r)
            to == RampPriority(r.cur, r.want)
            same == z.count > 0 /\ Direction(r.cur, z.cand) = Direction(r.cur, r.want)
<1>1. /\ a \in Accounts /\ Grounded /\ Typed /\ TypeOK /\ InPhase /\ CountOK(a) /\ ~r.atOnce
  BY CycleAssumption DEF CycleInv, Followed, WatchedOK, Grounded, Typed, Ordinary
<1>2. /\ a \in left /\ r.want # r.cur /\ r.cur = prio[a] /\ prio'[a] # prio[a]
  <2>1. Moves(a)
    BY DEF Ordinary
  <2>2. a \in left /\ r.want # r.cur /\ r.cur = prio[a]
    BY <1>1, <2>1, MoveFacts
  <2>. QED BY <2>1, <2>2 DEF Moves
<1>3. r \in Recommendation /\ (r.start => r.atOnce)
  BY <1>1, <1>2, TurnFacts, Zenon
<1>4. PICK outcome :
        prio'[a] = to /\ ApplyStep(a, outcome) /\ Put(a, to, outcome)
  <2>1. PICK outcome :
          \/ ApplyAtOnce(a, outcome)
          \/ r.start
          \/ prio'[a] = to /\ ApplyStep(a, outcome) /\ Put(a, to, outcome)
    <3>1. Moves(a)
      BY DEF Ordinary
    <3>2. \E outcome : /\ Apply(a, outcome)
            /\ \/ prio'[a] = r.want /\ ApplyAtOnce(a, outcome)
               \/ prio'[a] = r.want /\ r.start
               \/ /\ prio'[a] = to /\ ~r.atOnce /\ ApplyStep(a, outcome) /\ Put(a, to, outcome)
      BY <1>1, <3>1, MoveFacts
    <3>. HIDE DEF r, to
    <3>. QED BY <3>2
  <2>2. ~ApplyAtOnce(a, outcome)
    BY <1>1 DEF ApplyAtOnce
  <2>. QED BY <1>1, <1>3, <2>1, <2>2
<1>5. ~InGrace(c, a, r) /\ c.count >= Confirmations
  BY <1>1, <1>2, <1>3, <1>4, StepParts DEF NoPut
<1>6. r.cur \in Priority /\ r.want \in Priority /\ prio[a] \in Priority
  BY <1>1, <1>3, HistoryFields DEF Recommendation, Priority
<1>7. Direction(prio[a], to) = Direction(r.cur, r.want)
  <2>1. to # prio[a]
    BY <1>2, <1>4
  <2>2. /\ to \in Priority /\ (to < r.cur => r.want < r.cur) /\ (to > r.cur => r.want > r.cur)
    BY <1>6, RampMoves, Zenon
  <2>. HIDE DEF r, to
  <2>. QED BY <1>2, <1>6, <2>1, <2>2 DEF Direction, Priority
<1>8. hist[a].dir = Direction(r.cur, r.want) /\ Counting(a)
  <2>1. phase = "applying"
    BY <1>1, <1>2 DEF InPhase
  <2>. QED BY <1>1, <1>2, <2>1 DEF CountOK, Counting
<1>9. /\ z \in AccountState /\ SameTally(z, st[a])
      /\ st[a].count \in 0..Confirmations /\ st[a].since \in Stamps
      /\ hist[a].since \in Stamps
  BY <1>1, SeenType, HistoryFields
<1>10. /\ c.count = IF same THEN Smaller(z.count + 1, Confirmations) ELSE 1
       /\ c.since = IF same /\ Set(z.since) THEN z.since ELSE Now
  <2>. HIDE DEF z, r
  <2>. QED BY <1>3, <1>9, NotedType
<1>11. /\ Since(hist[a].since) >= (Confirmations - 1) * Interval
       /\ hist[a].since <= c.since /\ c.since \in Stamps
  <2>1. CASE same
    <3>1. Before(a)
      BY <1>1, <1>2, <1>8, <1>9, <2>1 DEF Counting, SameTally
    <3>2. Smaller(st[a].count, Confirmations - 1) = Confirmations - 1
      BY <1>5, <1>9, <1>10, <2>1, Times DEF Smaller, SameTally
    <3>. QED BY <1>9, <1>10, <2>1, <3>1, <3>2 DEF Before, Backed, Lasted, SameTally
  <2>2. CASE ~same
    <3>1. Confirmations - 1 = 0 /\ c.since = Now
      BY <1>5, <1>10, <2>2, Times
    <3>2. (Confirmations - 1) * Interval = 0
      BY <3>1, MoreIntervals
    <3>3. /\ hist[a].since \in Int /\ hist[a].since <= Now /\ c.since \in Stamps /\ Now \in Nat
      BY <1>9, <3>1, StampTypes, Times, Zenon
    <3>4. Since(hist[a].since) >= 0
      <4>1. Never \in Int
        BY DEF Never
      <4>. HIDE DEF c
      <4>. QED BY <3>3, <4>1 DEF Since
    <3>. HIDE DEF c
    <3>. QED BY <3>1, <3>2, <3>3, <3>4
  <2>. QED BY <2>1, <2>2
<1>12. ASSUME prio'[a] > prio[a], Reliable(Shown(a))
       PROVE  Since(hist[a].since) >= Grace
  <2>1. Direction(r.cur, r.want) > 0
    <3>1. to \in Priority /\ to > prio[a]
      BY <1>4, <1>6, <1>12, RampMoves
    <3>2. Direction(prio[a], to) > 0
      BY <1>6, <3>1 DEF Direction, Priority
    <3>. QED BY <1>7, <3>2
  <2>2. ~(Since(c.since) < Grace)
    BY <1>5, <1>12, <2>1 DEF InGrace
  <2>. HIDE DEF c
  <2>. QED BY <1>9, <1>11, <2>2, Times DEF Since, Stamps, Never
<1>. QED BY <1>4, <1>7, <1>8, <1>11, <1>12

\* An ordinary write was wanted by as many cycles in a row as it needs, and a
\* dearer account had its grace period.
THEOREM OrdinaryWritesEarned == Spec => OrdinaryWritesAreEarned
<1>1. CycleInv /\ [Next]_vars =>
        [\A a \in Watched : Ordinary(a) /\ Undisturbed =>
           /\ hist[a].dir = Direction(prio[a], prio'[a])
           /\ Since(hist[a].since) >= (Confirmations - 1) * Interval
           /\ prio'[a] > prio[a] /\ Reliable(Shown(a)) => Since(hist[a].since) >= Grace]_vars
  BY OrdinaryEarned
<1>. QED BY <1>1, CycleInvariant, PTL DEF Spec, OrdinaryWritesAreEarned

-----------------------------------------------------------------------------
(* Rollbacks: how far they go, and the quiet after them.                    *)

\* One rollback takes the account back to where a recovery was one step ago.
OneStepUp(a) ==
  /\ st[a].original <= prio[a] + RecoveryStep
  /\ Holds(a) => lease.original <= prio[a] + RecoveryStep

\* Until the first tier of the back-off is over, or the failures it answered are
\* out of the window, an account that was rolled back has no trial and its
\* back-off lasts.
Rested(h) == Set(h.fell) => Since(h.fell) >= Backoffs[1] \/ Since(h.blamed) >= Window
Resting(a) ==
  Rested(hist[a]) \/ (~Holds(a) /\ Set(st[a].retryAt) /\ st[a].retryAt >= hist[a].fell + Backoffs[1])

\* Without exploration every trial is one of a recovery.
TrialsAreRecoveries ==
  /\ lease.account # None => lease.recovery
  /\ \A a \in left : rec[a].start => rec[a].recovery

Calm == Undisturbed /\ ~Exploration
RollbackInv ==
  Calm => TrialsAreRecoveries /\ \A a \in Watched : OneStepUp(a) /\ Resting(a)

\* Every tier of the back-off is at least the first.
LEMMA Tiers ==
  /\ Len(Backoffs) \in Nat \ {0} /\ Backoffs[1] \in 1..Now
  /\ \A n \in 1..Len(Backoffs) : Backoff(n) \in 1..Now /\ Backoff(n) >= Backoffs[1]
<1>1. /\ Len(Backoffs) \in Nat \ {0}
      /\ \A i \in 1..Len(Backoffs) : Backoffs[i] \in 1..Now /\ Backoffs[1] <= Backoffs[i]
  <2>. DEFINE Tier == 1..Now
  <2>1. Backoffs \in Seq(Tier) /\ Len(Backoffs) > 0
        /\ \A n \in DOMAIN Backoffs : Backoffs[1] <= Backoffs[n]
    BY CycleAssumption
  <2>. HIDE DEF Tier
  <2>2. /\ Len(Backoffs) \in Nat \ {0} /\ DOMAIN Backoffs = 1..Len(Backoffs)
        /\ \A i \in 1..Len(Backoffs) : Backoffs[i] \in Tier
    BY <2>1
  <2>. QED BY <2>1, <2>2 DEF Tier
<1>2. 1 \in 1..Len(Backoffs)
  BY <1>1
<1>3. ASSUME NEW n \in 1..Len(Backoffs)
      PROVE  Backoff(n) \in 1..Now /\ Backoff(n) >= Backoffs[1]
  <2>1. Smaller(Larger(n, 1), Len(Backoffs)) = n
    BY <1>1 DEF Smaller, Larger
  <2>2. Backoff(n) = Backoffs[n] /\ Backoffs[n] \in 1..Now /\ Backoffs[1] <= Backoffs[n]
        /\ Backoffs[1] \in 1..Now
    BY <1>1, <1>2, <2>1 DEF Backoff
  <2>. QED BY <2>2, Times
<1>. QED BY <1>1, <1>2, <1>3

\* A step of a recovery is of RecoveryStep at most.
LEMMA RecoveryRampStep ==
  ASSUME NEW from \in Priority, NEW to \in Priority, NEW healthy,
         RecoveryRamp(from, to, healthy) < from
  PROVE  RecoveryRamp(from, to, healthy) >= from - RecoveryStep
<1>1. RecoverySlowStep <= RecoveryStep
  BY ScaleAssumption
<1>2. CASE to >= from
  <2>1. RecoveryRamp(from, to, healthy) = RampPriority(from, to)
    BY <1>2 DEF RecoveryRamp
  <2>2. to < from
    BY <2>1, RampMoves
  <2>. QED BY <1>2, <2>2, NotLess
<1>3. CASE ~(to >= from)
  BY <1>1, <1>3, OnScale DEF RecoveryRamp, Larger, Priority
<1>. QED BY <1>2, <1>3

OneStep(r) == r.done \/ r.want >= r.cur - RecoveryStep

\* The next step of a recovery is one step at most, and none for an account that
\* cannot be used.
LEMMA RecoveryNextStep ==
  ASSUME NEW a \in Accounts, Shown(a) \in Evidence,
         NEW r \in Recommendation, NEW fresh \in BOOLEAN,
         fresh => Shown(a).enough,
         ~Shown(a).hard /\ Shown(a).cost # "none" => r.anchor > 0
  PROVE  LET n == RecoveryNext(a, r, Over(r), fresh)
         IN /\ Shown(a).hard => ~(n.want < n.cur)
            /\ n.want < n.cur => OneStep(n)
<1>. DEFINE e == Shown(a)
            n == RecoveryNext(a, r, Over(r), fresh)
<1>1. /\ r.cur \in Priority /\ r.want \in Priority /\ r.anchor \in 0..Poor
      /\ e.rate \in {"low", "mid", "high"} /\ e.hard \in BOOLEAN /\ e.enough \in BOOLEAN
  BY DEF Recommendation, Priority, Evidence
<1>2. Over(r) = [r EXCEPT !.want = r.cur, !.atOnce = TRUE, !.end = TRUE]
  BY DEF Over
<1>3. CASE e.hard
  <2>1. n = [Over(r) EXCEPT !.want = Unavailable, !.outcome = "failure"]
    BY <1>3 DEF RecoveryNext
  <2>. HIDE DEF n
  <2>2. n.want = Unavailable /\ n.cur = r.cur
    BY <1>2, <2>1, Zenon DEF Recommendation
  <2>3. ~(n.want < n.cur)
    BY <1>1, <2>2, OnScale DEF Priority
  <2>. QED BY <2>3 DEF n
<1>4. CASE ~e.hard /\ ~Expired
  <2>1. n = [r EXCEPT !.want = r.cur]
    BY <1>4 DEF RecoveryNext
  <2>. HIDE DEF n
  <2>2. n.cur = r.cur /\ n.want = r.cur
    BY <2>1, Zenon DEF Recommendation
  <2>3. ~(n.want < n.cur)
    BY <1>1, <2>2 DEF Priority
  <2>. QED BY <2>3 DEF n
<1>5. CASE ~e.hard /\ Expired /\ e.enough /\ e.rate = "high"
  <2>1. n = [Over(r) EXCEPT !.end = FALSE]
    BY <1>5 DEF RecoveryNext
  <2>. HIDE DEF n
  <2>2. n.want = r.cur /\ n.cur = r.cur
    BY <1>2, <2>1, Zenon DEF Recommendation
  <2>3. ~(n.want < n.cur)
    BY <1>1, <2>2 DEF Priority
  <2>. QED BY <2>3 DEF n
<1>6. \A p : (p = r.cur \/ \E h \in BOOLEAN : p = RecoveryRamp(r.cur, r.anchor, h)) /\ p < r.cur
             /\ r.anchor > 0
               => p >= r.cur - RecoveryStep
  <2>. SUFFICES ASSUME NEW p, p = r.cur \/ \E h \in BOOLEAN : p = RecoveryRamp(r.cur, r.anchor, h),
                       p < r.cur, r.anchor > 0
                PROVE  p >= r.cur - RecoveryStep
    OBVIOUS
  <2>1. r.anchor \in Priority
    BY <1>1, OnScale DEF Priority
  <2>2. CASE p = r.cur
    BY <1>1, <2>2 DEF Priority
  <2>3. CASE \E h \in BOOLEAN : p = RecoveryRamp(r.cur, r.anchor, h)
    BY <1>1, <2>1, <2>3, RecoveryRampStep
  <2>. QED BY <2>2, <2>3
<1>7. CASE ~e.hard /\ Expired /\ ~fresh /\ ~(e.enough /\ e.rate = "high")
  <2>1. \E want, outcome :
          /\ n = [Over(r) EXCEPT !.outcome = outcome, !.want = want]
          /\ want = r.cur \/ (r.anchor > 0 /\ want = RecoveryRamp(r.cur, r.anchor, FALSE))
    <3>1. Over(r).want = r.cur
      BY <1>2, Zenon DEF Recommendation
    <3>2. CASE r.anchor \in 1..(r.cur - 1) /\ ~Placeholder(a)
      <4>1. r.anchor > 0
        BY <1>1, <3>2 DEF Priority
      <4>2. n = [Over(r) EXCEPT !.outcome = "progress",
                                !.want = RecoveryRamp(r.cur, r.anchor, FALSE)]
        BY <1>7, <3>2 DEF RecoveryNext
      <4>. QED BY <4>1, <4>2
    <3>3. CASE ~(r.anchor \in 1..(r.cur - 1) /\ ~Placeholder(a))
      <4>1. n = [Over(r) EXCEPT !.outcome = "no-result", !.want = r.cur]
        BY <1>7, <3>1, <3>3 DEF RecoveryNext
      <4>. QED BY <4>1
    <3>. QED BY <3>2, <3>3
  <2>2. PICK want, outcome :
          /\ n = [Over(r) EXCEPT !.outcome = outcome, !.want = want]
          /\ want = r.cur \/ (r.anchor > 0 /\ want = RecoveryRamp(r.cur, r.anchor, FALSE))
    BY <2>1
  <2>. HIDE DEF n
  <2>3. n.want = want /\ n.cur = r.cur
    BY <1>2, <2>2, Zenon DEF Recommendation
  <2>4. want < r.cur => want >= r.cur - RecoveryStep
    <3>1. FALSE \in BOOLEAN /\ ~(r.cur < r.cur)
      BY <1>1 DEF Priority
    <3>. QED BY <1>6, <2>2, <3>1
  <2>5. n.want < n.cur => OneStep(n)
    BY <2>3, <2>4 DEF OneStep
  <2>. QED BY <1>7, <2>5 DEF n
<1>8. CASE ~e.hard /\ Expired /\ fresh /\ e.rate # "high"
  <2>1. CASE e.rate = "low" /\ CostMature(e, st[a])
    <3>1. n = [Over(r) EXCEPT !.want = r.anchor, !.done = TRUE, !.needed = FALSE,
                              !.outcome = "success", !.atOnce = FALSE]
      BY <1>8, <2>1 DEF RecoveryNext
    <3>. HIDE DEF n
    <3>2. n.done
      BY <1>2, <3>1, Zenon DEF Recommendation
    <3>. QED BY <1>8, <3>2 DEF n, OneStep
  <2>2. CASE ~(e.rate = "low" /\ CostMature(e, st[a]))
    <3>. DEFINE want == IF Estimated(e) \/ Reliable(e)
                        THEN RecoveryRamp(r.cur, r.anchor, e.rate = "low") ELSE r.cur
    <3>1. PICK outcome, once :
            n = [Over(r) EXCEPT !.want = want, !.atOnce = once, !.outcome = outcome]
      BY <1>8, <2>2 DEF RecoveryNext
    <3>2. want < r.cur => want >= r.cur - RecoveryStep
      <4>1. Estimated(e) \/ Reliable(e) => r.anchor > 0
        BY <1>8 DEF Estimated, Reliable
      <4>2. (e.rate = "low") \in BOOLEAN
        OBVIOUS
      <4>3. ~(r.cur < r.cur)
        BY <1>1 DEF Priority
      <4>. QED BY <1>6, <4>1, <4>2, <4>3
    <3>. HIDE DEF n, want
    <3>3. n.want = want /\ n.cur = r.cur
      BY <1>2, <3>1, Zenon DEF Recommendation
    <3>4. n.want < n.cur => OneStep(n)
      BY <3>2, <3>3 DEF OneStep
    <3>. QED BY <1>8, <3>4 DEF n
  <2>. QED BY <2>1, <2>2
<1>. QED BY <1>1, <1>3, <1>4, <1>5, <1>7, <1>8, Zenon

\* An account that comes from a recovery is promoted by its score only when it
\* graduates.
LEMMA HeldStep ==
  ASSUME Typed, NEW a \in Accounts
  PROVE  LET h == Held(a)
         IN h.want < h.cur => ~Shown(a).hard /\ (h.done \/ st[a].original = 0)
<1>. DEFINE e == Shown(a)
            cur == Current(a)
            r == ScoreOf(e, cur)
            h == Held(a)
<1>1. e \in Evidence /\ cur \in Priority
  BY ShownType, CurrentType DEF Typed
<1>2. /\ r \in Recommendation /\ r.cur = cur /\ r.anchor = Anchor(e, cur)
      /\ r.want < cur => ~e.hard /\ Measured(e)
  BY <1>1, ScoreType, Zenon
<1>3. CASE e.hard
  <2>1. h = r
    BY <1>3 DEF Held, Scored
  <2>. HIDE DEF r, h
  <2>. QED BY <1>2, <1>3, <2>1, Zenon DEF h
<1>4. CASE ~e.hard
  <2>1. PICK done \in BOOLEAN : done = Graduated(a)
    BY DEF Graduated
  <2>2. h = HeldBack(st[a], r, done)
    BY <1>4, <2>1 DEF Held, Scored
  <2>3. LET b == HeldBack(st[a], r, done)
        IN b.cur = r.cur /\ b.done = done /\ (b.want < b.cur => r.want < r.cur)
    <3>1. r \in Recommendation
      BY <1>2
    <3>. HIDE DEF r
    <3>. QED BY <3>1, HeldBackType
  <2>4. OnItsWay(st[a], r, done) => h.want = r.cur
    <3>. HIDE DEF r
    <3>1. ASSUME OnItsWay(st[a], r, done)
          PROVE  \E needed : h = [r EXCEPT !.done = done, !.needed = needed, !.want = r.cur]
      BY <2>2, <3>1 DEF HeldBack
    <3>. HIDE DEF h
    <3>. QED BY <1>2, <3>1, Zenon DEF Recommendation
  <2>5. ASSUME Measured(e)
        PROVE  r.want = e.goal /\ r.anchor = e.goal
    BY <1>2, <1>4, <2>5 DEF ScoreOf, Anchor, Reevaluated, Measured
  <2>6. e.goal \in 1..Poor /\ cur \in Int /\ st[a].original \in 0..Unavailable
    <3>1. e.goal \in Best..Poor
      BY <1>1 DEF Evidence
    <3>2. cur \in Int
      BY <1>1 DEF Priority
    <3>3. st[a].original \in 0..Unavailable
      BY DEF Typed, TypeOK, AccountState
    <3>4. e.goal \in 1..Poor
      <4>. HIDE DEF e
      <4>. QED BY <3>1, OnScale DEF Priority
    <3>. QED BY <3>2, <3>3, <3>4
  <2>. HIDE DEF r, h
  <2>7. ASSUME h.want < h.cur, st[a].original # 0, ~done
        PROVE  FALSE
    <3>1. h.cur = cur /\ r.want < r.cur /\ r.cur = cur
      BY <1>2, <2>2, <2>3, <2>7, Zenon
    <3>2. r.want = e.goal /\ r.anchor = e.goal
      BY <1>2, <2>5, <3>1
    <3>3. r.anchor \in 1..(r.cur - 1) /\ st[a].original > 0
      BY <2>6, <2>7, <3>1, <3>2
    <3>4. h.want = r.cur
      BY <2>4, <2>7, <3>3 DEF OnItsWay
    <3>. QED BY <1>1, <2>7, <3>1, <3>4 DEF Priority
  <2>8. h.done = done
    BY <2>2, <2>3, Zenon
  <2>. QED BY <1>4, <2>7, <2>8, Zenon DEF h
<1>. QED BY <1>3, <1>4

\* Judging moves a trial by one step, and promotes no other account that is still
\* on its way back, unless it has graduated.
LEMMA JudgedStep ==
  ASSUME Typed, NEW a \in Accounts, Holds(a) => lease.recovery
  PROVE  LET j == Judged(a)
         IN /\ j.want < j.cur => ~Shown(a).hard
            /\ Holds(a) => j.trial /\ j.recovery /\ (j.want < j.cur => OneStep(j))
            /\ ~Holds(a) => /\ j.atOnce = Shown(a).hard /\ ~j.recovery
                            /\ j.want < j.cur => j.done \/ st[a].original = 0
<1>. DEFINE h == Held(a)
            j == Judged(a)
            e == Shown(a)
<1>1. /\ h \in Recommendation /\ h.atOnce = e.hard /\ h.anchor = Anchor(e, Current(a))
      /\ ~h.recovery
  BY HeldType, Zenon
<1>2. h.want < h.cur => ~e.hard /\ (h.done \/ st[a].original = 0)
  BY HeldStep, Zenon
<1>3. CASE ~Holds(a)
  <2>1. j = h
    BY <1>3 DEF Judged
  <2>. QED BY <1>1, <1>2, <1>3, <2>1, Zenon
<1>4. CASE Holds(a)
  <2>. DEFINE r == OnTrial(h)
  <2>1. /\ r \in Recommendation /\ r.trial /\ r.recovery /\ ~r.done
        /\ h.anchor > 0 => r.anchor > 0
    <3>1. lease.target \in 0..Poor
      BY DEF Typed, TypeOK, Lease
    <3>2. ~h.done
      BY <1>4, HeldType, Zenon DEF Graduated
    <3>. HIDE DEF h
    <3>. QED BY <1>1, <3>1, <3>2, OnTrialType
  <2>2. PICK fresh \in BOOLEAN : fresh = (e.enough /\ e.ok > lease.started)
                                 /\ (fresh => e.enough)
    OBVIOUS
  <2>3. j = RecoveryNext(a, r, Over(r), fresh)
    BY <1>4, <2>2 DEF Judged, RecoveryTrial
  <2>4. e \in Evidence /\ (~e.hard /\ e.cost # "none" => r.anchor > 0)
    <3>1. e \in Evidence /\ Current(a) \in Priority
      BY ShownType, CurrentType DEF Typed
    <3>. QED BY <1>1, <2>1, <3>1, AnchorType
  <2>5. LET n == RecoveryNext(a, r, Over(r), fresh)
        IN /\ n.trial = r.trial /\ n.recovery = r.recovery
           /\ e.hard => ~(n.want < n.cur)
           /\ n.want < n.cur => OneStep(n)
    <3>. HIDE DEF r
    <3>. QED BY <2>1, <2>2, <2>4, RecoveryNextType, RecoveryNextStep, Zenon
  <2>. HIDE DEF r
  <2>. QED BY <1>4, <2>1, <2>3, <2>5, Zenon
<1>. QED BY <1>3, <1>4

\* The review: a rollback has a place to go to and is followed by a back-off, a
\* back-off lets nothing rise, and nothing rises further than was asked for.
LEMMA AnsweredStep ==
  ASSUME NEW a \in Accounts, NEW r \in Recommendation, ~r.rollback, NEW action \in Actions
  PROVE  LET n == Answered(a, r, action)
         IN /\ n.rollback => /\ n.outcome = "unreliable" /\ n.recovery /\ n.end = Holds(a)
                             /\ n.want = RollbackTo(a, r)
            /\ n.want < n.cur => n.rollback \/ n.want >= r.want
<1>. DEFINE n == Answered(a, r, action)
<1>1. r.cur \in Priority /\ r.want \in Priority
  BY DEF Recommendation, Priority
<1>2. CASE action = "rollback"
  <2>1. n = [r EXCEPT !.want = RollbackTo(a, r), !.recovery = TRUE, !.rollback = TRUE,
                      !.atOnce = TRUE, !.start = FALSE, !.end = Holds(a),
                      !.outcome = "unreliable", !.done = FALSE]
    BY <1>2, Zenon DEF Answered
  <2>. HIDE DEF n
  <2>2. /\ n.outcome = "unreliable" /\ n.recovery /\ n.end = Holds(a) /\ n.rollback
        /\ n.want = RollbackTo(a, r)
    BY <2>1, Zenon DEF Recommendation
  <2>. QED BY <2>2, Zenon DEF n
<1>3. CASE action # "rollback"
  <2>1. \E want, needed, start, done, outcome :
          /\ n = [r EXCEPT !.needed = needed, !.start = start, !.want = want,
                           !.done = done, !.outcome = outcome]
          /\ want >= r.want
    <3>1. CASE action \in {"pause", "observe"}
      <4>1. \E outcome : n = [r EXCEPT !.needed = FALSE, !.start = FALSE,
                             !.want = Larger(r.want, r.cur), !.done = FALSE, !.outcome = outcome]
        BY <3>1 DEF Answered
      <4>2. Larger(r.want, r.cur) >= r.want
        BY <1>1, OnScale DEF Larger, Priority
      <4>. QED BY <4>1, <4>2
    <3>2. CASE action = "slow"
      <4>. DEFINE want == IF r.want < r.cur THEN Larger(r.want, r.cur - SlowStep(r)) ELSE r.want
      <4>1. n = [r EXCEPT !.want = want, !.done = FALSE]
        BY <3>2 DEF Answered
      <4>2. want >= r.want
        <5>1. SlowStep(r) \in Nat \ {0}
          BY OnScale DEF SlowStep
        <5>. QED BY <1>1, <5>1, OnScale DEF Larger, Priority
      <4>. HIDE DEF want, n
      <4>3. n = [r EXCEPT !.needed = r.needed, !.start = r.start, !.want = want,
                          !.done = FALSE, !.outcome = r.outcome]
        BY <4>1, Zenon DEF Recommendation
      <4>. QED BY <4>2, <4>3
    <3>3. CASE action = "cost"
      <4>1. n = r
        BY <3>3 DEF Answered
      <4>. HIDE DEF n
      <4>2. n = [r EXCEPT !.needed = r.needed, !.start = r.start, !.want = r.want,
                          !.done = r.done, !.outcome = r.outcome]
        BY <4>1, Zenon DEF Recommendation
      <4>3. r.want >= r.want
        BY <1>1 DEF Priority
      <4>. QED BY <4>2, <4>3
    <3>. QED BY <1>3, <3>1, <3>2, <3>3 DEF Actions
  <2>2. PICK want, needed, start, done, outcome :
          /\ n = [r EXCEPT !.needed = needed, !.start = start, !.want = want,
                           !.done = done, !.outcome = outcome]
          /\ want >= r.want
    BY <2>1
  <2>. HIDE DEF n
  <2>3. n.want = want /\ n.rollback = r.rollback
    BY <2>2, Zenon DEF Recommendation
  <2>. QED BY <2>2, <2>3, Zenon DEF n
<1>. QED BY <1>2, <1>3

\* The review makes a rollback of that, or promotes no further than it did, and
\* not in the back-off.
LEMMA ReviewedStep ==
  ASSUME Typed, NEW a \in Accounts, NEW r \in Recommendation, ~r.rollback
  PROVE  LET n == Reviewed(a, r)
         IN /\ n.rollback => /\ n.outcome = "unreliable" /\ n.recovery /\ n.end = Holds(a)
                             /\ n.want = RollbackTo(a, r)
            /\ n.want < n.cur =>
                 n.want >= r.want /\ (Shown(a).hard \/ ~Blocked(st[a].retryAt))
<1>. DEFINE n == Reviewed(a, r)
            x == Answered(a, r, Assessment(a))
            y == BackedOff(st[a], x)
<1>1. r.cur \in Priority /\ r.want \in Priority
  BY DEF Recommendation, Priority
<1>2. CASE Shown(a).hard
  <2>1. n = [r EXCEPT !.done = FALSE]
    BY <1>2 DEF Reviewed
  <2>. HIDE DEF n
  <2>2. n.want = r.want /\ n.rollback = r.rollback
    BY <2>1, Zenon DEF Recommendation
  <2>3. r.want >= r.want
    BY <1>1 DEF Priority
  <2>. QED BY <1>2, <2>2, <2>3, Zenon DEF n
<1>3. CASE ~Shown(a).hard
  <2>1. /\ x \in Recommendation /\ x.cur = r.cur
        /\ x.rollback => x.want >= x.cur
        /\ x.want < x.cur => ~x.rollback
    <3>1. lease.original \in 0..Unavailable /\ st[a].original \in 0..Unavailable
      BY DEF Typed, TypeOK, Lease, AccountState
    <3>. QED BY <3>1, AnsweredType, AssessmentType
  <2>2. /\ x.rollback => /\ x.outcome = "unreliable" /\ x.recovery /\ x.end = Holds(a)
                         /\ x.want = RollbackTo(a, r)
        /\ x.want < x.cur => x.rollback \/ x.want >= r.want
    BY AssessmentType, AnsweredStep, Zenon
  <2>. HIDE DEF x
  <2>3. x.cur \in Priority /\ x.want \in Priority
    BY <2>1 DEF Recommendation, Priority
  <2>4. ASSUME Blocked(st[a].retryAt), x.want < x.cur
        PROVE  ~(y.want < y.cur) /\ ~y.rollback
    <3>1. y = [x EXCEPT !.want = x.cur, !.start = FALSE, !.needed = FALSE]
      BY <2>4 DEF BackedOff
    <3>. HIDE DEF y
    <3>2. y.want = x.cur /\ y.cur = x.cur /\ y.rollback = x.rollback
      BY <2>1, <3>1, Zenon DEF Recommendation
    <3>. QED BY <2>1, <2>3, <2>4, <3>2 DEF Priority
  <2>5. ~(Blocked(st[a].retryAt) /\ x.want < x.cur) => y = x
    BY DEF BackedOff
  <2>6. y \in Recommendation
    BY <2>1, BackedOffType, Zenon
  <2>. HIDE DEF y
  <2>7. n = NotSoon(Shown(a), st[a], y)
    BY <1>3 DEF Reviewed, x, y
  <2>. HIDE DEF n
  <2>8. n.want = y.want /\ n.cur = y.cur /\ n.rollback = y.rollback /\ n.recovery = y.recovery
        /\ n.end = y.end
    BY <2>6, <2>7, NotSoonType
  <2>9. y.outcome = "unreliable" => n.outcome = "unreliable"
    BY <2>7 DEF NotSoon
  <2>10. n.rollback => y = x
    BY <2>4, <2>5, <2>8, Zenon
  <2>11. n.want < n.cur => y = x /\ (Shown(a).hard \/ ~Blocked(st[a].retryAt))
    BY <2>4, <2>5, <2>8, Zenon
  <2>. QED BY <2>1, <2>2, <2>8, <2>9, <2>10, <2>11, Zenon DEF n
<1>. QED BY <1>2, <1>3

\* A recovery starts with one step at most.
LEMMA StartRecoveryStep ==
  ASSUME Typed, NEW a \in Accounts, Recoverable(a, Held(a))
  PROVE  LET r == StartRecovery(a, Held(a)) IN r.want < r.cur => OneStep(r)
<1>. DEFINE h == Held(a)
            r == StartRecovery(a, h)
            healthy == Assessment(a) # "slow"
            want == IF st[a].original > h.cur THEN h.cur ELSE RecoveryRamp(h.cur, h.anchor, healthy)
<1>1. /\ h \in Recommendation
      /\ h.needed => h.anchor > 0
  BY HeldType, Zenon
<1>2. h.needed
  BY DEF Recoverable
<1>3. r = [h EXCEPT !.want = want, !.trial = TRUE, !.recovery = TRUE, !.start = TRUE,
                    !.atOnce = TRUE]
  BY DEF StartRecovery
<1>. HIDE DEF r, h
<1>4. h.cur \in Priority /\ h.anchor \in Priority
  <2>1. h.cur \in Priority /\ h.anchor \in 0..Poor
    BY <1>1 DEF Recommendation, Priority
  <2>2. h.anchor > 0
    BY <1>1, <1>2, Zenon
  <2>. QED BY <2>1, <2>2, OnScale DEF Priority
<1>5. want < h.cur => want >= h.cur - RecoveryStep
  <2>1. ~(h.cur < h.cur)
    BY <1>4 DEF Priority
  <2>. HIDE DEF healthy
  <2>. QED BY <1>4, <2>1, RecoveryRampStep
<1>. HIDE DEF want
<1>6. r.want = want /\ r.cur = h.cur
  BY <1>1, <1>3, Zenon DEF Recommendation
<1>. QED BY <1>5, <1>6 DEF OneStep, r, h

\* What may be said of a recommendation without exploration.
LEMMA StepFacts ==
  ASSUME Grounded, TrialsAreRecoveries, NEW a \in left
  PROVE  LET r == rec[a]
         IN /\ r.want < r.cur => ~Blocked(st[a].retryAt)
            /\ r.start => /\ r.recovery /\ ~Blocked(st[a].retryAt)
                          /\ r.want < r.cur => OneStep(r)
            /\ Holds(a) => r.trial /\ r.recovery /\ (r.want < r.cur => OneStep(r))
            /\ ~Holds(a) /\ ~r.start /\ r.want < r.cur =>
                 ~r.atOnce /\ ~r.recovery /\ (r.done \/ st[a].original = 0)
            /\ r.rollback => /\ r.outcome = "unreliable" /\ r.recovery /\ r.end = Holds(a)
                             /\ r.want = RollbackTo(a, r)
            /\ Blocked(st[a].retryAt) /\ ~Holds(a) /\ r.recovery => r.rollback
            /\ r.done => Holds(a) \/ ~Blocked(st[a].retryAt)
<1>. DEFINE n == rec[a]
<1>1. /\ a \in Accounts /\ Typed /\ Stands(a)
      /\ n.start => n.recovery
      /\ n \in Recommendation
      /\ n.done => Graduated(a) \/ (RecoveryOf(a) /\ Expired)
  <2>1. n \in Recommendation /\ (n.done => Graduated(a) \/ (RecoveryOf(a) /\ Expired))
    BY TurnFacts, Zenon
  <2>. QED BY <2>1 DEF Grounded, Standing, Typed, TypeOK, TrialsAreRecoveries
<1>2. Holds(a) => lease.recovery
  BY <1>1, NoneTypes DEF TrialsAreRecoveries, Holds
<1>3. n.done => Holds(a) \/ ~Blocked(st[a].retryAt)
  BY <1>1 DEF Graduated, CostMature, RecoveryOf
<1>4. ASSUME NEW r \in Recommendation, ~r.rollback, n = Reviewed(a, r)
      PROVE  /\ n.cur = r.cur /\ n.trial = r.trial
             /\ ~n.rollback => n.recovery = r.recovery /\ n.atOnce = r.atOnce
             /\ n.rollback => /\ n.outcome = "unreliable" /\ n.recovery /\ n.end = Holds(a)
                              /\ n.want = RollbackTo(a, n) /\ ~n.start
             /\ n.start => r.start
             /\ n.want < n.cur =>
                  /\ r.want < r.cur /\ ~n.rollback /\ n.want >= r.want
                  /\ n.start = r.start
                  /\ Shown(a).hard \/ ~Blocked(st[a].retryAt)
                  /\ r.done => n.done \/ Shown(a).rate = "mid" \/ Shown(a).hard
  <2>. HIDE DEF n
  <2>1. /\ n.cur = r.cur /\ n.trial = r.trial
        /\ n.rollback => ~n.start
        /\ ~n.rollback => n.recovery = r.recovery /\ n.atOnce = r.atOnce
        /\ n.start => r.start
        /\ n.want < n.cur =>
             /\ r.want < r.cur /\ ~n.rollback
             /\ r.done => n.done \/ Shown(a).rate = "mid" \/ Shown(a).hard
    BY <1>1, <1>4, ReviewedType
  <2>2. n.want < n.cur => n.start = r.start
    BY <1>1, <1>4, ReviewedStart
  <2>3. LET m == Reviewed(a, r)
        IN /\ m.rollback => /\ m.outcome = "unreliable" /\ m.recovery /\ m.end = Holds(a)
                            /\ m.want = RollbackTo(a, r)
           /\ m.want < m.cur => m.want >= r.want /\ (Shown(a).hard \/ ~Blocked(st[a].retryAt))
    BY <1>1, <1>4, ReviewedStep, Zenon
  <2>4. RollbackTo(a, r) = RollbackTo(a, n)
    BY <2>1, Zenon DEF RollbackTo
  <2>. QED BY <1>4, <2>1, <2>2, <2>3, <2>4, Zenon
<1>5. ASSUME NEW r \in Recommendation, n.cur = r.cur, n.want >= r.want, n.want < n.cur,
             r.want < r.cur, r.done => n.done, OneStep(r)
      PROVE  OneStep(n)
  <2>. HIDE DEF n
  <2>1. /\ r.cur \in Priority /\ r.want \in Priority /\ n.want \in Priority /\ n.cur \in Priority
    BY <1>1 DEF Recommendation, Priority
  <2>2. r.want >= r.cur - RecoveryStep => n.want >= n.cur - RecoveryStep
    BY <1>5, <2>1, OnScale DEF Priority
  <2>. QED BY <1>5, <2>2, Zenon DEF OneStep
<1>6. CASE n = Reviewed(a, Judged(a))
  <2>. DEFINE r == Judged(a)
  <2>1. /\ r \in Recommendation /\ ~r.start /\ ~r.rollback
        /\ (r.done => ~Shown(a).hard /\ (Graduated(a) \/ (RecoveryOf(a) /\ Expired)))
        /\ (r.done /\ RecoveryOf(a) => Shown(a).rate = "low")
    BY <1>1, JudgedType, Zenon
  <2>2. /\ r.want < r.cur => ~Shown(a).hard
        /\ Holds(a) => r.trial /\ r.recovery /\ (r.want < r.cur => OneStep(r))
        /\ ~Holds(a) => /\ r.atOnce = Shown(a).hard /\ ~r.recovery
                        /\ r.want < r.cur => r.done \/ st[a].original = 0
    BY <1>1, <1>2, JudgedStep, Zenon
  <2>3. Graduated(a) => Shown(a).rate # "mid"
    BY DEF Graduated, Assessment, Verdict
  <2>4. r.done => Shown(a).rate # "mid" /\ ~Shown(a).hard
    <3>1. Shown(a).rate = "low" => Shown(a).rate # "mid"
      OBVIOUS
    <3>. QED BY <2>1, <2>3, <3>1, Zenon
  <2>5. n = Reviewed(a, r)
    BY <1>6
  <2>. HIDE DEF n, r
  <2>6. /\ n.cur = r.cur /\ n.trial = r.trial
        /\ ~n.rollback => n.recovery = r.recovery /\ n.atOnce = r.atOnce
        /\ n.rollback => /\ n.outcome = "unreliable" /\ n.recovery /\ n.end = Holds(a)
                         /\ n.want = RollbackTo(a, n) /\ ~n.start
        /\ n.start => r.start
        /\ n.want < n.cur =>
             /\ r.want < r.cur /\ ~n.rollback /\ n.want >= r.want
             /\ n.start = r.start
             /\ Shown(a).hard \/ ~Blocked(st[a].retryAt)
             /\ r.done => n.done \/ Shown(a).rate = "mid" \/ Shown(a).hard
    BY <1>4, <2>1, <2>5
  <2>7. n.want < n.cur /\ OneStep(r) => OneStep(n)
    <3>1. n.want < n.cur => (r.done => n.done)
      BY <2>4, <2>6, Zenon
    <3>. QED BY <1>5, <2>1, <2>6, <3>1
  <2>8. Holds(a) => n.trial /\ n.recovery /\ (n.want < n.cur => OneStep(n))
    BY <2>2, <2>6, <2>7, Zenon
  <2>9. ~Holds(a) /\ n.want < n.cur =>
          ~n.atOnce /\ ~n.recovery /\ (n.done \/ st[a].original = 0)
    BY <2>2, <2>4, <2>6, Zenon
  <2>10. n.want < n.cur => ~Blocked(st[a].retryAt)
    BY <2>2, <2>6, Zenon
  <2>11. ~Holds(a) /\ n.recovery => n.rollback
    BY <2>2, <2>6, Zenon
  <2>12. ~n.start
    BY <2>1, <2>6, Zenon
  <2>. QED BY <1>3, <2>6, <2>8, <2>9, <2>10, <2>11, <2>12, Zenon DEF n
<1>7. CASE StartsRecovery(a)
  <2>. DEFINE r == StartRecovery(a, Held(a))
  <2>1. ~Holds(a) /\ Recoverable(a, Held(a)) /\ n = Reviewed(a, r)
    BY <1>7 DEF StartsRecovery
  <2>2. r \in Recommendation /\ r.start /\ r.recovery /\ ~r.done /\ ~r.rollback
    BY <1>1, <2>1, StartRecoveryType, Zenon
  <2>3. r.want < r.cur => OneStep(r)
    BY <1>1, <2>1, StartRecoveryStep, Zenon
  <2>4. ~Blocked(st[a].retryAt)
    BY <2>1 DEF Recoverable
  <2>. HIDE DEF n, r
  <2>6. /\ n.cur = r.cur
        /\ n.rollback => /\ n.outcome = "unreliable" /\ n.recovery /\ n.end = Holds(a)
                         /\ n.want = RollbackTo(a, n) /\ ~n.start
        /\ n.want < n.cur =>
             /\ r.want < r.cur /\ ~n.rollback /\ n.want >= r.want
             /\ n.start = r.start
    BY <1>4, <2>1, <2>2
  <2>7. n.want < n.cur => OneStep(n)
    BY <1>5, <2>2, <2>3, <2>6
  <2>. QED BY <1>1, <1>3, <2>1, <2>2, <2>4, <2>6, <2>7, Zenon DEF n
<1>8. CASE StartsExploring(a)
  <2>. DEFINE r == StartExploring(Held(a))
  <2>1. ~Holds(a) /\ Cold(a) /\ n = Reviewed(a, r)
    BY <1>8 DEF StartsExploring
  <2>2. r \in Recommendation /\ r.start /\ ~r.recovery /\ ~r.rollback
    BY <1>1, <2>1, StartExploringType, Zenon
  <2>. HIDE DEF n, r
  <2>6. /\ ~n.rollback => n.recovery = r.recovery
        /\ n.rollback => /\ n.outcome = "unreliable" /\ n.recovery /\ n.end = Holds(a)
                         /\ n.want = RollbackTo(a, n) /\ ~n.start
        /\ n.want < n.cur => ~n.rollback /\ n.start = r.start
    BY <1>4, <2>1, <2>2
  <2>7. ~n.start
    BY <1>1, <2>2, <2>6, Zenon
  <2>8. ~(n.want < n.cur)
    BY <2>2, <2>6, <2>7, Zenon
  <2>. QED BY <1>3, <2>1, <2>2, <2>6, <2>7, <2>8, Zenon DEF n
<1>. QED BY <1>1, <1>6, <1>7, <1>8 DEF Stands

-----------------------------------------------------------------------------
(* The back-off of an account in its turn.                                  *)

\* Counting confirmations and forgetting them leave the back-off alone.
LEMMA SameRetry ==
  ASSUME TypeOK, NEW a \in Accounts, NEW s \in AccountState, NEW r
  PROVE  /\ SeenNow(a).retryAt = st[a].retryAt
         /\ Noted(s, r).retryAt = s.retryAt
         /\ Forget(s).retryAt = s.retryAt
<1>1. st[a] \in AccountState
  BY DEF TypeOK
<1>2. SeenNow(a).retryAt = st[a].retryAt
  BY <1>1, Zenon DEF SeenNow, AccountState
<1>3. Forget(s).retryAt = s.retryAt
  BY Zenon DEF Forget, AccountState
<1>4. Noted(s, r).retryAt = s.retryAt
  <2>1. \E count, since : Noted(s, r) = [s EXCEPT !.cand = r.want, !.count = count,
                                                  !.since = since]
    BY DEF Noted
  <2>. DEFINE o == Noted(s, r)
  <2>. HIDE DEF o
  <2>2. \E count, since : o = [s EXCEPT !.cand = r.want, !.count = count, !.since = since]
    BY <2>1 DEF o
  <2>3. o.retryAt = s.retryAt
    BY <2>2, Zenon DEF AccountState
  <2>. QED BY <2>3 DEF o
<1>. QED BY <1>2, <1>3, <1>4

\* As long as the failures a rollback answered are in the window, an observation
\* does not end the back-off.
LEMMA ObservedRetry ==
  ASSUME TypeOK, NEW a \in Accounts, NEW s \in AccountState, NEW r \in Recommendation,
         ~r.done, Set(s.rolledAt), Since(s.rolledAt) < Window
  PROVE  Observed(s, a, r).retryAt = s.retryAt
<1>. DEFINE e == Shown(a)
            n == Noticed(s, e)
<1>1. e \in Evidence
  BY ShownType
<1>2. /\ n \in AccountState /\ n.rolledAt = s.rolledAt
  <2>1. RollbackBase(s) = s.rolledAt
    BY DEF RollbackBase
  <2>. QED BY <1>1, <2>1, NoticedType
<1>3. n.retryAt = s.retryAt
  <2>1. \E base, seen, high :
          n = [s EXCEPT !.rolledAt = base, !.failSeen = seen, !.highSince = high]
    BY DEF Noticed
  <2>. HIDE DEF n
  <2>. QED BY <2>1, Zenon DEF AccountState
<1>4. ~Proven(n, e, FailureBase(n))
  <2>1. FailureBase(n) = s.rolledAt
    BY <1>2 DEF FailureBase
  <2>2. ~(Since(s.rolledAt) >= Window)
    <3>1. s.rolledAt \in Stamps
      BY StateFields
    <3>2. Since(s.rolledAt) \in Int /\ Window \in Int
      BY <3>1, Times DEF Since, Stamps, Never
    <3>3. \A i, j \in Int : i < j => ~(i >= j)
      OBVIOUS
    <3>. QED BY <3>2, <3>3, Zenon
  <2>. QED BY <2>1, <2>2 DEF Proven
<1>5. Observed(s, a, r) = Settled(n, e, r)
  BY DEF Observed
<1>6. Settled(n, e, r) = (IF r.rollback THEN Rolled(n, e) ELSE n)
  BY <1>4 DEF Settled
<1>7. Rolled(n, e).retryAt = n.retryAt
  <2>1. \E base : Rolled(n, e) = [n EXCEPT !.rolledAt = base, !.highSince = Now]
    BY DEF Rolled
  <2>. DEFINE o == Rolled(n, e)
  <2>. HIDE DEF n
  <2>2. \E base : o = [n EXCEPT !.rolledAt = base, !.highSince = Now]
    BY <2>1
  <2>. HIDE DEF o
  <2>3. o.retryAt = n.retryAt
    BY <1>2, <2>2, Zenon DEF AccountState
  <2>. QED BY <2>3 DEF o
<1>. QED BY <1>3, <1>5, <1>6, <1>7

\* A write that succeeded leaves the back-off of the observation.
LEMMA CommittedRetry ==
  ASSUME TypeOK, NEW a \in Accounts, NEW s \in AccountState, NEW r \in Recommendation
  PROVE  Committed(s, a, r).retryAt = Observed(s, a, r).retryAt
<1>. DEFINE b == Observed(s, a, r)
            f == Forget(b)
            o == Committed(s, a, r)
<1>1. b \in AccountState
  BY ObservedType
<1>2. f \in AccountState /\ f.retryAt = b.retryAt
  <2>. HIDE DEF b
  <2>. QED BY <1>1, ForgetType, SameRetry
<1>3. o = [f EXCEPT !.applied = Now]
  BY DEF Committed
<1>. HIDE DEF f, b, o
<1>4. o.retryAt = f.retryAt
  BY <1>2, <1>3, Zenon DEF AccountState
<1>. QED BY <1>2, <1>4 DEF o, b

Lasting(s) == Set(s.retryAt) /\ s.retryAt >= Now + Backoffs[1]

\* An unreliable trial begins a back-off, of one tier at least.
LEMMA JudgementRetry ==
  ASSUME NEW s \in AccountState
  PROVE  Lasting(Judgement(s, "unreliable"))
<1>. DEFINE o == Judgement(s, "unreliable")
<1>1. PICK n \in 1..Len(Backoffs) :
        n = IF Set(s.failedAt) /\ Since(s.failedAt) >= ResetAfter
            THEN 1 ELSE Smaller(s.failures + 1, Len(Backoffs))
  BY Tiers, StateFields DEF Smaller
<1>2. o = [s EXCEPT !.failures = n, !.failedAt = Now, !.retryAt = Now + Backoff(n)]
  BY <1>1 DEF Judgement
<1>. DEFINE until == Now + Backoff(n)
<1>3. until >= Now + Backoffs[1] /\ Set(until)
  BY <1>1, Tiers, Times DEF Set, Never
<1>. HIDE DEF o, until
<1>4. o.retryAt = until
  <2>1. o = [s EXCEPT !.failures = n, !.failedAt = Now, !.retryAt = until]
    BY <1>2 DEF until
  <2>. QED BY <2>1, Zenon DEF AccountState
<1>. QED BY <1>3, <1>4 DEF o, Lasting
\* During the back-off that follows a rollback the account gets no trial, and
\* only another rollback begins another back-off.
LEMMA RestTurn ==
  ASSUME Grounded, TrialsAreRecoveries, NEW a \in Accounts, NEW outcome, Apply(a, outcome),
         ~Holds(a), Blocked(st[a].retryAt), Set(st[a].rolledAt), Since(st[a].rolledAt) < Window
  PROVE  ~Holds(a)' /\ (st'[a].retryAt = st[a].retryAt \/ Lasting(st'[a]))
<1>. DEFINE r == rec[a]
            z == SeenNow(a)
            w == [r EXCEPT !.done = FALSE]
            n == Noted(z, r)
<1>1. /\ a \in left /\ Typed /\ TypeOK /\ r \in Recommendation
      /\ st \in [Accounts -> AccountState]
  BY StampsOfTurn DEF Grounded, Typed, TypeOK
<1>2. /\ ~r.start /\ ~r.done
      /\ r.recovery => r.rollback
      /\ r.rollback => r.outcome = "unreliable"
  BY <1>1, StepFacts, Zenon
<1>3. ~Holds(a)'
  <2>1. lease' = lease
    BY <1>1, <1>2, TurnParts
  <2>. QED BY <2>1 DEF Holds
<1>4. /\ z \in AccountState /\ z.retryAt = st[a].retryAt /\ z.rolledAt = st[a].rolledAt
  BY <1>1, SeenType, SameRetry DEF SameMarks
<1>5. w \in Recommendation /\ ~w.done
  <2>. HIDE DEF r
  <2>. QED BY <1>1, Zenon DEF Recommendation
<1>6. n \in AccountState /\ n.retryAt = z.retryAt /\ n.rolledAt = z.rolledAt
  <2>. HIDE DEF z, r
  <2>. QED BY <1>1, <1>4, NotedType, SameRetry DEF SameMarks
<1>7. ASSUME NEW s \in {z, n}, NEW q \in {r, w}
      PROVE  /\ Observed(s, a, q) \in AccountState /\ Observed(s, a, q).retryAt = st[a].retryAt
             /\ Committed(s, a, q) \in AccountState /\ Committed(s, a, q).retryAt = st[a].retryAt
             /\ Forget(Observed(s, a, q)) \in AccountState
             /\ Forget(Observed(s, a, q)).retryAt = st[a].retryAt
  <2>1. /\ s \in AccountState /\ s.retryAt = st[a].retryAt /\ s.rolledAt = st[a].rolledAt
        /\ q \in Recommendation /\ ~q.done
    BY <1>1, <1>2, <1>4, <1>5, <1>6
  <2>2. /\ Observed(s, a, q) \in AccountState /\ Observed(s, a, q).retryAt = st[a].retryAt
        /\ Committed(s, a, q) \in AccountState /\ Committed(s, a, q).retryAt = st[a].retryAt
    <3>1. Set(s.rolledAt) /\ Since(s.rolledAt) < Window
      BY <2>1
    <3>. HIDE DEF r, w, z, n
    <3>2. Observed(s, a, q) \in AccountState /\ Committed(s, a, q) \in AccountState
      BY <1>1, <2>1, ObservedType, CommittedType
    <3>3. Observed(s, a, q).retryAt = s.retryAt
      BY <1>1, <2>1, <3>1, ObservedRetry
    <3>4. Committed(s, a, q).retryAt = Observed(s, a, q).retryAt
      BY <1>1, <2>1, CommittedRetry
    <3>. QED BY <2>1, <3>2, <3>3, <3>4
  <2>3. /\ Forget(Observed(s, a, q)) \in AccountState
        /\ Forget(Observed(s, a, q)).retryAt = st[a].retryAt
    <3>. DEFINE o == Observed(s, a, q)
    <3>. HIDE DEF o
    <3>. QED BY <1>1, <2>2, ForgetType, SameRetry DEF o
  <2>. QED BY <2>2, <2>3
<1>8. ~Ends(a, r)
  BY DEF Ends
<1>9. CASE ApplySame(a)
  <2>. DEFINE f == Forget(Observed(z, a, r))
  <2>1. f \in AccountState /\ f.retryAt = st[a].retryAt
    BY <1>7
  <2>2. st'[a] = IF r.rollback THEN Judgement(f, r.outcome) ELSE f
    BY <1>1, <1>8, <1>9 DEF ApplySame, Becomes
  <2>. HIDE DEF f
  <2>. QED BY <1>2, <1>3, <2>1, <2>2, JudgementRetry
<1>10. CASE ApplyAtOnce(a, outcome)
  <2>. DEFINE c == Committed(z, a, r)
  <2>1. c \in AccountState /\ c.retryAt = st[a].retryAt
    BY <1>7
  <2>2. st'[a] = z \/ st'[a] = IF r.recovery THEN Judgement(c, r.outcome) ELSE c
    BY <1>1, <1>8, <1>10 DEF ApplyAtOnce, Becomes
  <2>. HIDE DEF c
  <2>. QED BY <1>2, <1>3, <1>4, <2>1, <2>2, JudgementRetry
<1>11. CASE ApplyStep(a, outcome)
  <2>1. st'[a] \in {n, Observed(n, a, w), Committed(n, a, r)}
    BY <1>1, <1>8, <1>11 DEF ApplyStep, Becomes
  <2>2. /\ n.retryAt = st[a].retryAt
        /\ Observed(n, a, w).retryAt = st[a].retryAt
        /\ Committed(n, a, r).retryAt = st[a].retryAt
    BY <1>4, <1>6, <1>7
  <2>. HIDE DEF n, w, r
  <2>. QED BY <1>3, <2>1, <2>2
<1>12. ~ApplyStart(a, outcome)
  BY <1>2 DEF ApplyStart
<1>. QED BY <1>9, <1>10, <1>11, <1>12 DEF Apply

\* A rollback that was written ends the trial of the account, if it has one, and
\* begins a back-off.
LEMMA RollbackRests ==
  ASSUME Grounded, TrialsAreRecoveries, NEW a \in Accounts, ApplyAtOnce(a, "ok"), rec[a].rollback
  PROVE  ~Holds(a)' /\ Lasting(st'[a])
<1>. DEFINE r == rec[a]
            z == SeenNow(a)
            c == Committed(z, a, r)
<1>1. /\ a \in left /\ Typed /\ TypeOK /\ r \in Recommendation
      /\ st \in [Accounts -> AccountState]
  BY StampsOfTurn DEF Grounded, Typed, TypeOK, Apply
<1>2. /\ Holds(a) => r.trial
      /\ r.outcome = "unreliable" /\ r.recovery /\ r.end = Holds(a)
  BY <1>1, StepFacts, Zenon
<1>3. ~r.done /\ ~(r.want < r.cur)
  BY <1>1, TurnFacts, Zenon
<1>4. Ends(a, r) <=> Holds(a)
  BY <1>2 DEF Ends
<1>5. c \in AccountState
  <2>1. z \in AccountState
    BY <1>1, SeenType
  <2>. HIDE DEF z, r
  <2>. QED BY <1>1, <2>1, CommittedType
<1>6. Holds(a) => lease.recovery
  BY NoneTypes DEF TrialsAreRecoveries, Holds
<1>7. st'[a] = Judgement(c, "unreliable")
  <2>1. Holds(a) => Finished(c, r) = Judgement(c, "unreliable")
    BY <1>2, <1>3, <1>6 DEF Finished
  <2>2. st'[a] = IF Ends(a, r) THEN Finished(c, r)
                 ELSE IF r.recovery THEN Judgement(c, r.outcome) ELSE c
    BY <1>1 DEF ApplyAtOnce, Becomes
  <2>. HIDE DEF c, r
  <2>. QED BY <1>2, <1>4, <2>1, <2>2
<1>8. ~Holds(a)'
  <2>1. lease' = IF Ends(a, r) THEN NoLease ELSE lease
    BY DEF ApplyAtOnce
  <2>. QED BY <1>4, <2>1, NoneTypes DEF Holds, NoLease
<1>. HIDE DEF c
<1>. QED BY <1>5, <1>7, <1>8, JudgementRetry

-----------------------------------------------------------------------------
(* The quiet after a rollback, and where the next one would lead.           *)

\* An account that has not rested is in the back-off of its last rollback, and
\* the failures that called for it are in the window.
LEMMA Restless ==
  ASSUME TypeOK, NEW a \in Accounts, BlameBehind(a), Resting(a), ~Rested(hist[a])
  PROVE  /\ Set(hist[a].fell) /\ Since(hist[a].fell) < Backoffs[1]
         /\ hist[a].fell \in 0..Now
         /\ ~Holds(a) /\ Blocked(st[a].retryAt)
         /\ st[a].retryAt \in Later /\ st[a].retryAt >= hist[a].fell + Backoffs[1]
         /\ Set(st[a].rolledAt) /\ Since(st[a].rolledAt) < Window
         /\ Since(st[a].seen) < Window
<1>1. /\ hist[a].blamed \in Stamps /\ hist[a].fell \in Stamps /\ st[a].seen \in Stamps
      /\ st[a].rolledAt \in Stamps /\ st[a].retryAt \in Later
  BY HistoryFields, StateFields
<1>2. /\ Set(hist[a].fell) /\ ~(Since(hist[a].fell) >= Backoffs[1])
      /\ ~(Since(hist[a].blamed) >= Window)
  BY DEF Rested
<1>3. ~Holds(a) /\ Set(st[a].retryAt) /\ st[a].retryAt >= hist[a].fell + Backoffs[1]
  BY DEF Resting
<1>4. Backoffs[1] \in Nat
  BY Tiers
<1>5. /\ Since(hist[a].fell) < Backoffs[1] /\ hist[a].fell \in 0..Now
      /\ Blocked(st[a].retryAt)
  BY <1>1, <1>2, <1>3, <1>4, Times DEF Since, Set, Stamps, Later, Never, Blocked
<1>6. /\ Set(hist[a].blamed) /\ ~(hist[a].blamed < Now - Window)
  BY <1>1, <1>2, Times DEF Since, Set, Stamps, Never
<1>7. hist[a].blamed <= st[a].rolledAt /\ hist[a].blamed < st[a].seen
  BY <1>6 DEF BlameBehind
<1>8. /\ Set(st[a].rolledAt) /\ Since(st[a].rolledAt) < Window /\ Since(st[a].seen) < Window
  BY <1>1, <1>2, <1>6, <1>7, Times DEF Since, Set, Stamps, Never
<1>. QED BY <1>1, <1>2, <1>3, <1>5, <1>8

\* The turn of an account keeps its rest.
LEMMA RestingTurn ==
  ASSUME Grounded, Undisturbed, TrialsAreRecoveries, NEW a \in Watched, NEW outcome,
         Apply(a, outcome), BlameBehind(a), Resting(a)
  PROVE  Resting(a)'
<1>. DEFINE r == rec[a]
            h == hist[a]
<1>1. a \in Accounts /\ TypeOK
  BY CycleAssumption DEF Grounded, Typed
<1>2. h.fell \in Stamps /\ st'[a].retryAt \in Later /\ Backoffs[1] \in Nat
  <2>1. st'[a] \in AccountState
    BY <1>1, TurnMarks DEF Grounded
  <2>. QED BY <1>1, <2>1, HistoryFields, StateFields, Tiers
<1>3. CASE hist'[a].fell = Now /\ r.rollback /\ ApplyAtOnce(a, "ok")
  <2>1. ~Holds(a)' /\ Lasting(st'[a])
    BY <1>1, <1>3, RollbackRests
  <2>. QED BY <1>3, <2>1 DEF Lasting, Resting
<1>4. CASE hist'[a].fell = h.fell /\ hist'[a].blamed = h.blamed
  <2>1. CASE Rested(h)
    <3>1. Rested(hist'[a])
      BY <1>4, <2>1 DEF Rested
    <3>. QED BY <3>1 DEF Resting, Rested
  <2>2. CASE ~Rested(h)
    <3>1. /\ ~Holds(a) /\ Blocked(st[a].retryAt) /\ Set(st[a].retryAt)
          /\ Set(st[a].rolledAt) /\ Since(st[a].rolledAt) < Window
          /\ st[a].retryAt >= h.fell + Backoffs[1]
      BY <1>1, <2>2, Restless DEF Blocked
    <3>2. ~Holds(a)' /\ (st'[a].retryAt = st[a].retryAt \/ Lasting(st'[a]))
      BY <1>1, <3>1, RestTurn
    <3>3. Set(st'[a].retryAt) /\ st'[a].retryAt >= h.fell + Backoffs[1]
      <4>1. CASE st'[a].retryAt = st[a].retryAt
        BY <3>1, <4>1
      <4>2. CASE Lasting(st'[a])
        BY <1>2, <4>2, Times DEF Lasting, Stamps, Later, Never
      <4>. QED BY <3>2, <4>1, <4>2
    <3>. QED BY <1>4, <3>2, <3>3 DEF Resting
  <2>. QED BY <2>1, <2>2
<1>5. CASE hist'[a] = h
  BY <1>4, <1>5
<1>6. CASE \E p \in Priority :
             hist'[a] = Recorded(a, r, p) /\ (r.rollback => ApplyAtOnce(a, "ok"))
  <2>1. /\ hist'[a].fell = IF r.rollback THEN Now ELSE h.fell
        /\ hist'[a].blamed = IF r.rollback THEN Shown(a).fail ELSE h.blamed
    BY <1>1, <1>6, HistoryFields DEF Recorded, History
  <2>. QED BY <1>3, <1>4, <1>6, <2>1
<1>. QED BY <1>5, <1>6, TurnHistory

\* What is known of the trial of an account follows from its lease.
LEMMA OneStepFrom ==
  ASSUME TypeOK, NEW a \in Accounts, OneStepUp(a), prio'[a] \in Priority,
         prio'[a] >= prio[a], lease' = lease \/ lease' = NoLease,
         st'[a].original \in {0, st[a].original}
  PROVE  OneStepUp(a)'
<1>1. /\ prio[a] \in Priority /\ st[a].original \in 0..Unavailable
      /\ lease.original \in 0..Unavailable
  BY HistoryFields DEF TypeOK, Lease
<1>2. st'[a].original <= prio'[a] + RecoveryStep
  BY <1>1, OnScale DEF OneStepUp, Priority
<1>3. ASSUME Holds(a)'
      PROVE  lease'.original <= prio'[a] + RecoveryStep
  <2>1. lease' = lease
    BY <1>3, NoneTypes DEF Holds, NoLease
  <2>2. Holds(a)
    BY <1>3, <2>1 DEF Holds
  <2>. QED BY <1>1, <2>1, <2>2, OnScale DEF OneStepUp, Priority
<1>. QED BY <1>2, <1>3 DEF OneStepUp

\* The origins stay one step behind through each branch.
LEMMA OneStepStart ==
  ASSUME Grounded, Undisturbed, TrialsAreRecoveries, NEW a \in Watched, NEW outcome,
         ApplyStart(a, outcome), OneStepUp(a)
  PROVE  OneStepUp(a)'
<1>. DEFINE r == rec[a]
            z == SeenNow(a)
<1>1. /\ a \in Accounts /\ a \in left /\ Typed /\ TypeOK /\ r \in Recommendation
      /\ r.cur \in Priority /\ r.want \in Priority /\ prio[a] \in Priority /\ prio'[a] \in Priority
  <2>1. a \in Accounts /\ Typed /\ TypeOK
    BY CycleAssumption DEF Grounded, Typed
  <2>2. a \in left /\ r \in Recommendation
    BY <2>1, StampsOfTurn DEF Apply
  <2>3. TypeOK'
    BY <2>1, TypedApply DEF Apply, Typed
  <2>. QED BY <2>1, <2>2, <2>3 DEF TypeOK, Recommendation, Priority
<1>2. r.start
  BY DEF ApplyStart
<1>3. /\ ~r.done /\ ~Holds(a) /\ r.cur = Current(a)
      /\ r.recovery /\ (r.want < r.cur => OneStep(r))
  <2>1. ~r.done /\ ~Holds(a) /\ r.cur = Current(a)
    BY <1>1, <1>2, TurnFacts, Zenon
  <2>2. r.recovery /\ (r.want < r.cur => OneStep(r))
    BY <1>1, <1>2, StepFacts, Zenon
  <2>. QED BY <2>1, <2>2
<1>4. r.cur = prio[a]
  BY <1>1, <1>3, CurrentHere
<1>5. z \in AccountState /\ z.original = st[a].original /\ st[a].original \in 0..Unavailable
  BY <1>1, SeenType, HistoryFields
<1>6. CASE outcome # "ok"
  <2>1. st'[a] = z /\ lease' = lease
    BY <1>1, <1>6 DEF ApplyStart, Becomes, TypeOK
  <2>2. Put(a, r.want, outcome)
    BY <1>6 DEF ApplyStart, NoPut
  <2>3. prio' = prio
    BY <1>1, <1>6, <2>2, PutWritten
  <2>4. prio'[a] >= prio[a]
    BY <1>1, <2>3 DEF Priority
  <2>5. st'[a].original \in {0, st[a].original}
    BY <1>5, <2>1
  <2>. QED BY <1>1, <2>1, <2>4, <2>5, OneStepFrom
<1>7. CASE outcome = "ok"
  <2>. DEFINE b == IF r.want # r.cur THEN Committed(z, a, r) ELSE Observed(z, a, r)
              s == Begun(b, r)
  <2>1. st'[a] = s /\ lease' = NewLease(a, r, s)
    <3>1. st' = [st EXCEPT ![a] = s] /\ lease' = NewLease(a, r, st'[a])
      BY <1>7 DEF ApplyStart, Becomes
    <3>2. st'[a] = s
      BY <1>1, <3>1 DEF TypeOK
    <3>. QED BY <3>1, <3>2
  <2>2. b \in AccountState /\ b.original = st[a].original
    <3>. HIDE DEF z, r
    <3>1. /\ Observed(z, a, r) \in AccountState /\ Observed(z, a, r).original = z.original
      BY <1>1, <1>3, <1>5, ObservedType DEF r
    <3>2. /\ Committed(z, a, r) \in AccountState
          /\ Committed(z, a, r).original = Observed(z, a, r).original
      BY <1>1, <1>5, CommittedType
    <3>. QED BY <1>5, <3>1, <3>2
  <2>3. s.original = IF r.want # r.cur THEN r.cur ELSE st[a].original
    <3>. HIDE DEF b, r
    <3>1. s.original = IF r.recovery /\ r.want # r.cur THEN r.cur ELSE b.original
      BY <1>1, <2>2, BegunType
    <3>. QED BY <1>3, <2>2, <3>1 DEF r
  <2>4. lease'.original \in {s.original, r.cur}
    BY <2>1 DEF NewLease
  <2>5. IF r.want # r.cur THEN prio'[a] = r.want ELSE prio' = prio
    <3>1. IF r.want # r.cur THEN Put(a, r.want, outcome) ELSE prio' = prio
      BY DEF ApplyStart, NoPut
    <3>. QED BY <1>1, <1>7, <3>1, PutWritten
  <2>. HIDE DEF s, r
  <2>6. r.want < r.cur => r.want >= r.cur - RecoveryStep
    BY <1>3 DEF OneStep, r
  <2>7. r.cur <= prio'[a] + RecoveryStep
    BY <1>1, <1>4, <2>5, <2>6, OnScale DEF Priority, r
  <2>8. s.original <= prio'[a] + RecoveryStep
    <3>1. CASE r.want # r.cur
      BY <2>3, <2>7, <3>1
    <3>2. CASE r.want = r.cur
      BY <2>3, <2>5, <3>2 DEF OneStepUp
    <3>. QED BY <3>1, <3>2
  <2>. QED BY <2>1, <2>4, <2>7, <2>8 DEF OneStepUp
<1>. QED BY <1>6, <1>7

LEMMA OneStepSame ==
  ASSUME Grounded, NEW a \in Watched, ApplySame(a), OneStepUp(a)
  PROVE  OneStepUp(a)'
<1>. DEFINE r == rec[a]
            z == SeenNow(a)
<1>1. a \in Accounts /\ Typed /\ TypeOK /\ r \in Recommendation
  BY CycleAssumption, StampsOfTurn DEF Grounded, Typed, Apply
<1>2. prio' = prio /\ prio[a] \in Priority
  BY <1>1, HistoryFields DEF ApplySame
<1>3. /\ st'[a].original = Observed(z, a, r).original
      /\ lease' = lease \/ lease' = NoLease
  BY <1>1, SameParts DEF TypeOK
<1>4. Observed(z, a, r).original \in {0, st[a].original}
  <2>1. z \in AccountState /\ z.original = st[a].original
    BY <1>1, SeenType
  <2>. HIDE DEF z, r
  <2>2. Observed(z, a, r).original = IF r.done THEN 0 ELSE z.original
    BY <1>1, <2>1, ObservedType
  <2>. QED BY <2>1, <2>2
<1>5. prio'[a] >= prio[a]
  BY <1>2 DEF Priority
<1>. QED BY <1>1, <1>2, <1>3, <1>4, <1>5, OneStepFrom

LEMMA OneStepAtOnce ==
  ASSUME Grounded, Undisturbed, TrialsAreRecoveries, NEW a \in Watched, NEW outcome,
         ApplyAtOnce(a, outcome), OneStepUp(a)
  PROVE  OneStepUp(a)'
<1>. DEFINE r == rec[a]
            z == SeenNow(a)
            o == Observed(z, a, r)
<1>1. /\ a \in Accounts /\ a \in left /\ Typed /\ TypeOK /\ r \in Recommendation
      /\ r.cur \in Priority /\ r.want \in Priority /\ prio[a] \in Priority
  <2>1. a \in Accounts /\ Typed /\ TypeOK
    BY CycleAssumption DEF Grounded, Typed
  <2>2. a \in left /\ r \in Recommendation
    BY <2>1, StampsOfTurn DEF Apply
  <2>. QED BY <2>1, <2>2 DEF TypeOK, Recommendation, Priority
<1>2. ~r.start /\ r.want # r.cur /\ r.atOnce /\ Put(a, r.want, outcome)
  BY DEF ApplyAtOnce
<1>3. /\ r.cur = prio[a]
      /\ r.want < r.cur => /\ Holds(a) /\ r.trial /\ r.end /\ lease.recovery
                           /\ OneStep(r)
  <2>1. /\ r.want # r.cur => r.cur = prio[a]
        /\ r.recovery /\ r.want < r.cur /\ ~r.start => RecoveryOf(a) /\ r.end
    BY <1>1, TurnFacts, Zenon
  <2>2. /\ Holds(a) => r.trial /\ r.recovery /\ (r.want < r.cur => OneStep(r))
        /\ ~Holds(a) /\ ~r.start /\ r.want < r.cur => ~r.atOnce
    BY <1>1, StepFacts, Zenon
  <2>. QED BY <1>2, <2>1, <2>2, Zenon DEF RecoveryOf
<1>4. z \in AccountState /\ z.original = st[a].original /\ st[a].original \in 0..Unavailable
  BY <1>1, SeenType, HistoryFields
<1>5. o.original = IF r.done THEN 0 ELSE st[a].original
  <2>1. o.original = IF r.done THEN 0 ELSE z.original
    <3>. HIDE DEF z, r
    <3>. QED BY <1>1, <1>4, ObservedType
  <2>. QED BY <1>4, <2>1
<1>6. \/ /\ outcome = "ok"
         /\ st'[a].original = IF Ends(a, r) /\ lease.recovery /\ ~r.done /\ r.want < r.cur
                              THEN r.cur ELSE o.original
         /\ lease' = IF Ends(a, r) THEN NoLease ELSE lease
      \/ outcome # "ok" /\ st'[a] = z /\ lease' = lease
  BY <1>1, AtOnceParts DEF TypeOK
<1>7. CASE outcome # "ok"
  <2>1. prio' = prio
    BY <1>1, <1>2, <1>7, PutWritten
  <2>2. prio'[a] >= prio[a] /\ prio'[a] \in Priority
    BY <1>1, <2>1 DEF Priority
  <2>3. st'[a].original \in {0, st[a].original} /\ lease' = lease
    BY <1>4, <1>6, <1>7
  <2>. QED BY <1>1, <2>2, <2>3, OneStepFrom
<1>8. CASE outcome = "ok" /\ ~(r.want < r.cur)
  <2>1. prio'[a] = r.want
    BY <1>1, <1>2, <1>8, PutWritten
  <2>2. prio'[a] >= prio[a] /\ prio'[a] \in Priority
    BY <1>1, <1>3, <1>8, <2>1 DEF Priority
  <2>3. st'[a].original \in {0, st[a].original} /\ (lease' = lease \/ lease' = NoLease)
    BY <1>5, <1>6, <1>8
  <2>. QED BY <1>1, <2>2, <2>3, OneStepFrom
<1>9. CASE outcome = "ok" /\ r.want < r.cur
  <2>1. prio'[a] = r.want
    BY <1>1, <1>2, <1>9, PutWritten
  <2>2. Ends(a, r) /\ lease.recovery
    BY <1>3, <1>9 DEF Ends
  <2>3. /\ st'[a].original = IF ~r.done THEN r.cur ELSE 0
        /\ lease' = NoLease
    BY <1>5, <1>6, <1>9, <2>2
  <2>4. ~Holds(a)'
    BY <1>1, <2>3, NoneTypes DEF Holds, NoLease
  <2>5. ~r.done => r.cur <= r.want + RecoveryStep
    <3>1. OneStep(r)
      BY <1>3, <1>9
    <3>2. ~r.done => r.want >= r.cur - RecoveryStep
      BY <3>1, Zenon DEF OneStep
    <3>. HIDE DEF r
    <3>. QED BY <1>1, <3>2, OnScale DEF Priority
  <2>6. 0 <= r.want + RecoveryStep
    <3>. HIDE DEF r
    <3>. QED BY <1>1, OnScale DEF Priority
  <2>. QED BY <2>1, <2>3, <2>4, <2>5, <2>6 DEF OneStepUp
<1>. QED BY <1>7, <1>8, <1>9

LEMMA OneStepStep ==
  ASSUME Grounded, Undisturbed, TrialsAreRecoveries, NEW a \in Watched, NEW outcome,
         ApplyStep(a, outcome), OneStepUp(a)
  PROVE  OneStepUp(a)'
<1>. DEFINE r == rec[a]
            z == SeenNow(a)
            n == Noted(z, r)
            w == [r EXCEPT !.done = FALSE]
            o == Observed(n, a, r)
            p == RampPriority(r.cur, r.want)
<1>1. /\ a \in Accounts /\ a \in left /\ Typed /\ TypeOK /\ r \in Recommendation
      /\ r.cur \in Priority /\ r.want \in Priority /\ prio[a] \in Priority
  <2>1. a \in Accounts /\ Typed /\ TypeOK
    BY CycleAssumption DEF Grounded, Typed
  <2>2. a \in left /\ r \in Recommendation
    BY <2>1, StampsOfTurn DEF Apply
  <2>. QED BY <2>1, <2>2 DEF TypeOK, Recommendation, Priority
<1>2. ~r.start /\ r.want # r.cur /\ ~r.atOnce
  BY DEF ApplyStep
<1>3. /\ r.cur = prio[a]
      /\ r.want < r.cur /\ Holds(a) => r.done /\ r.trial /\ r.end
      /\ r.want < r.cur /\ ~Holds(a) => r.done \/ st[a].original = 0
  <2>1. /\ r.want # r.cur => r.cur = prio[a]
        /\ r.recovery /\ r.want < r.cur /\ ~r.start => r.end /\ (r.atOnce \/ r.done)
    BY <1>1, TurnFacts, Zenon
  <2>2. /\ Holds(a) => r.trial /\ r.recovery
        /\ ~Holds(a) /\ ~r.start /\ r.want < r.cur => r.done \/ st[a].original = 0
    BY <1>1, StepFacts, Zenon
  <2>. QED BY <1>2, <2>1, <2>2, Zenon
<1>4. z \in AccountState /\ z.original = st[a].original /\ st[a].original \in 0..Unavailable
  BY <1>1, SeenType, HistoryFields
<1>5. n \in AccountState /\ n.original = st[a].original
  <2>1. n \in AccountState /\ n.original = z.original
    <3>. HIDE DEF z, r
    <3>. QED BY <1>1, <1>4, NotedType
  <2>. QED BY <1>4, <2>1
<1>6. w \in Recommendation /\ ~w.done
  <2>. HIDE DEF r
  <2>. QED BY <1>1, Zenon DEF Recommendation
<1>7. /\ o.original = IF r.done THEN 0 ELSE st[a].original
      /\ Observed(n, a, w).original = st[a].original
  <2>1. /\ o.original = IF r.done THEN 0 ELSE n.original
        /\ Observed(n, a, w).original = n.original
    <3>. HIDE DEF n, r, w
    <3>. QED BY <1>1, <1>5, <1>6, ObservedType
  <2>. QED BY <1>5, <2>1
<1>8. \/ lease' = lease /\ prio' = prio /\ st'[a].original = st[a].original
      \/ /\ Put(a, p, outcome) /\ outcome = "ok"
         /\ st'[a].original = IF Ends(a, r) /\ lease.recovery /\ ~r.done /\ r.want < r.cur
                              THEN r.cur ELSE o.original
         /\ lease' = IF Ends(a, r) THEN NoLease ELSE lease
  <2>1. PICK s \in AccountState :
           /\ st' = [st EXCEPT ![a] = s]
           /\ \/ NoPut(outcome) /\ lease' = lease /\ s = Observed(n, a, w)
              \/ NoPut(outcome) /\ lease' = lease /\ s = n
              \/ Put(a, p, outcome) /\ outcome # "ok" /\ s = n /\ lease' = lease
              \/ /\ Put(a, p, outcome) /\ outcome = "ok"
                 /\ s.original = IF Ends(a, r) /\ lease.recovery /\ ~r.done /\ r.want < r.cur
                                 THEN r.cur ELSE o.original
                 /\ lease' = IF Ends(a, r) THEN NoLease ELSE lease
    BY <1>1, StepParts
  <2>2. st'[a] = s
    BY <1>1, <2>1 DEF TypeOK
  <2>3. Put(a, p, outcome) /\ outcome # "ok" => prio' = prio
    BY <1>1, PutWritten
  <2>4. NoPut(outcome) => prio' = prio
    BY DEF NoPut
  <2>. HIDE DEF n, o, w, r, p
  <2>. QED BY <1>5, <1>7, <2>1, <2>2, <2>3, <2>4
<1>9. CASE lease' = lease /\ prio' = prio /\ st'[a].original = st[a].original
  <2>1. prio'[a] >= prio[a] /\ prio'[a] \in Priority
    BY <1>1, <1>9 DEF Priority
  <2>. QED BY <1>1, <1>9, <2>1, OneStepFrom
<1>10. CASE /\ Put(a, p, outcome) /\ outcome = "ok"
            /\ st'[a].original = IF Ends(a, r) /\ lease.recovery /\ ~r.done /\ r.want < r.cur
                                 THEN r.cur ELSE o.original
            /\ lease' = IF Ends(a, r) THEN NoLease ELSE lease
  <2>1. prio'[a] = p /\ p \in Priority
    BY <1>1, <1>10, PutWritten, RampMoves
  <2>2. CASE ~(r.want < r.cur)
    <3>1. ~(p < r.cur)
      BY <1>1, <2>2, RampMoves
    <3>2. prio'[a] >= prio[a]
      BY <1>1, <1>3, <2>1, <3>1 DEF Priority
    <3>3. st'[a].original \in {0, st[a].original} /\ (lease' = lease \/ lease' = NoLease)
      BY <1>7, <1>10, <2>2
    <3>. QED BY <1>1, <2>1, <3>2, <3>3, OneStepFrom
  <2>3. CASE r.want < r.cur
    <3>1. st'[a].original = 0
      BY <1>3, <1>7, <1>10, <2>3 DEF Ends
    <3>2. ~Holds(a)'
      <4>1. Holds(a) => Ends(a, r)
        BY <1>3, <2>3 DEF Ends
      <4>2. Ends(a, r) => ~Holds(a)'
        BY <1>1, <1>10, NoneTypes DEF Holds, NoLease
      <4>3. ~Ends(a, r) => (Holds(a)' <=> Holds(a))
        BY <1>10 DEF Holds
      <4>. QED BY <4>1, <4>2, <4>3
    <3>3. 0 <= p + RecoveryStep
      <4>. HIDE DEF p
      <4>. QED BY <2>1, OnScale DEF Priority
    <3>. QED BY <2>1, <3>1, <3>2, <3>3 DEF OneStepUp
  <2>. QED BY <2>2, <2>3
<1>. QED BY <1>8, <1>9, <1>10

\* So they do whichever branch the turn takes.
LEMMA OneStepTurn ==
  ASSUME Grounded, Undisturbed, TrialsAreRecoveries, NEW a \in Watched, NEW outcome,
         Apply(a, outcome), OneStepUp(a)
  PROVE  OneStepUp(a)'
BY OneStepStart, OneStepSame, OneStepAtOnce, OneStepStep DEF Apply

\* The turn of an account starts no trial but a recovery, and leaves the other
\* accounts' recommendations as they were.
LEMMA TrialsTurn ==
  ASSUME Grounded, TrialsAreRecoveries, NEW b \in Accounts, NEW outcome, Apply(b, outcome)
  PROVE  TrialsAreRecoveries'
<1>1. Typed /\ b \in left /\ left' \subseteq left /\ rec' = rec /\ rec[b] \in Recommendation
  BY StampsOfTurn DEF Grounded
<1>2. PICK s \in AccountState :
        \/ lease' = lease \/ lease' = NoLease
        \/ rec[b].start /\ lease' = NewLease(b, rec[b], s)
  BY <1>1, TurnParts
<1>3. lease'.account # None => lease'.recovery
  <2>1. CASE lease' = lease
    BY <2>1 DEF TrialsAreRecoveries
  <2>2. CASE lease' = NoLease
    BY <2>2 DEF NoLease
  <2>3. CASE rec[b].start /\ lease' = NewLease(b, rec[b], s)
    BY <1>1, <2>3 DEF NewLease, TrialsAreRecoveries
  <2>. QED BY <1>2, <2>1, <2>2, <2>3
<1>. QED BY <1>1, <1>3 DEF TrialsAreRecoveries

\* Without exploration a cycle starts recoveries only.
LEMMA TrialsLoad ==
  ASSUME Typed, Load, ~Exploration, TrialsAreRecoveries
  PROVE  TrialsAreRecoveries'
<1>1. left' = Listed /\ (lease' = lease \/ lease' = NoLease)
  BY DEF Load, Prepare
<1>2. ASSUME NEW a \in Listed, rec'[a].start
      PROVE  rec'[a].recovery
  <2>. DEFINE n == rec'[a]
  <2>1. a \in Accounts
    BY DEF Listed
  <2>2. PICK r : Asked(a, r) /\ n = Reviewed(a, r)
    BY LoadAsks
  <2>3. r \in Recommendation /\ ~r.rollback
    BY <2>1, <2>2, AskedType
  <2>4. r.recovery \/ ~r.start
    <3>1. CASE r = Judged(a)
      <4>1. LET j == Judged(a) IN ~j.start
        BY <2>1, JudgedType, Zenon
      <4>. QED BY <3>1, <4>1, Zenon
    <3>2. CASE Recoverable(a, Held(a)) /\ r = StartRecovery(a, Held(a))
      <4>1. LET j == StartRecovery(a, Held(a)) IN j.recovery
        BY <2>1, <3>2, StartRecoveryType, Zenon
      <4>. QED BY <3>2, <4>1, Zenon
    <3>. QED BY <2>2, <3>1, <3>2 DEF Asked
  <2>5. LET m == Reviewed(a, r)
        IN /\ m.start => r.start
           /\ m.rollback => ~m.start
           /\ ~m.rollback => m.recovery = r.recovery
    BY <2>1, <2>3, ReviewedType, Zenon
  <2>6. /\ n.start => r.start
        /\ n.rollback => ~n.start
        /\ ~n.rollback => n.recovery = r.recovery
    BY <2>2, <2>5, Zenon
  <2>. QED BY <1>2, <2>4, <2>6
<1>3. lease'.account # None => lease'.recovery
  BY <1>1 DEF TrialsAreRecoveries, NoLease
<1>. QED BY <1>1, <1>2, <1>3 DEF TrialsAreRecoveries

LEMMA RollbackInit == Init => RollbackInv
<1>. SUFFICES ASSUME Init, NEW a \in Watched
              PROVE  TrialsAreRecoveries /\ OneStepUp(a) /\ Resting(a)
  BY DEF RollbackInv, Init, TrialsAreRecoveries, NoLease
<1>1. a \in Accounts
  BY CycleAssumption
<1>2. /\ hist[a] = NoHistory /\ st[a] = NoState /\ lease = NoLease /\ left = {}
      /\ prio[a] \in Priority
  BY <1>1, CycleAssumption DEF Init, Priority
<1>3. TrialsAreRecoveries
  BY <1>2 DEF TrialsAreRecoveries, NoLease
<1>4. ~Holds(a)
  BY <1>1, <1>2, NoneTypes DEF Holds, NoLease
<1>5. OneStepUp(a)
  BY <1>2, <1>4, OnScale DEF OneStepUp, NoState, Priority
<1>6. Resting(a)
  BY <1>2 DEF Resting, Rested, NoHistory, Set
<1>. QED BY <1>3, <1>5, <1>6

\* An account that leaves the program's care leaves no promise behind.
LEMMA CalmFresh ==
  ASSUME TypeOK', NEW a \in Accounts, st'[a] = NoState, Rested(hist'[a]),
         ~Holds(a)' \/ (lease' = lease /\ prio' = prio /\ OneStepUp(a))
  PROVE  OneStepUp(a)' /\ Resting(a)'
<1>1. prio'[a] \in Priority
  BY DEF TypeOK, Priority
<1>2. st'[a].original = 0
  BY DEF NoState
<1>3. Resting(a)'
  BY DEF Resting, Rested
<1>4. st'[a].original <= prio'[a] + RecoveryStep
  BY <1>1, <1>2, OnScale DEF Priority
<1>. QED BY <1>3, <1>4 DEF OneStepUp, Holds

\* What neither moves the account nor touches its state keeps both.
LEMMA CalmKept ==
  ASSUME NEW a \in Accounts, a # None, OneStepUp(a), Resting(a), st'[a] = st[a], prio' = prio,
         hist'[a].fell = hist[a].fell, hist'[a].blamed = hist[a].blamed,
         lease' = lease \/ lease' = NoLease
  PROVE  OneStepUp(a)' /\ Resting(a)'
<1>1. Holds(a)' => lease' = lease /\ Holds(a)
  BY DEF Holds, NoLease
<1>2. OneStepUp(a)'
  BY <1>1 DEF OneStepUp
<1>3. Rested(hist[a]) => Rested(hist'[a])
  BY DEF Rested
<1>. QED BY <1>1, <1>2, <1>3 DEF Resting, Rested

\* Loading keeps them, also where it forgets an entry or ends a lease;
LEMMA CalmLoad ==
  ASSUME Typed, Load, NEW a \in Watched, OneStepUp(a), Resting(a)
  PROVE  OneStepUp(a)' /\ Resting(a)'
<1>1. a \in Accounts /\ a # None /\ TypeOK /\ TypeOK'
  BY CycleAssumption, NoneTypes, TypedLoad DEF Typed
<1>2. /\ prio' = prio /\ st' = Kept
      /\ lease' = lease \/ lease' = NoLease
      /\ lease.account \in Excluded => lease' = NoLease
      /\ hist' = [b \in Accounts |-> IF b \in Listed \cap Watched THEN Witnessed(b, rec'[b])
                                     ELSE Remembered[b]]
  BY DEF Load, Prepare
<1>3. CASE a \in Excluded
  <2>1. a \notin Listed
    BY <1>3 DEF Excluded, Listed, Placeholder
  <2>2. st'[a] = NoState /\ hist'[a] = NoHistory
    BY <1>1, <1>2, <1>3, <2>1 DEF Kept, Remembered
  <2>3. ~Holds(a)'
    BY <1>1, <1>2, <1>3 DEF Holds, NoLease
  <2>4. Rested(hist'[a])
    BY <2>2 DEF Rested, NoHistory, Set
  <2>. QED BY <1>1, <2>2, <2>3, <2>4, CalmFresh
<1>4. CASE a \notin Excluded
  <2>1. st'[a] = st[a]
    BY <1>1, <1>2, <1>4 DEF Kept
  <2>2. hist'[a] = hist[a] \/ hist'[a] = Witnessed(a, rec'[a])
    BY <1>1, <1>2, <1>4 DEF Remembered
  <2>3. hist'[a].fell = hist[a].fell /\ hist'[a].blamed = hist[a].blamed
    BY <1>1, <2>2, HistoryFields DEF Witnessed, History
  <2>. QED BY <1>1, <1>2, <2>1, <2>3, CalmKept
<1>. QED BY <1>3, <1>4

\* a load that fails forgets an account or leaves it as it is;
LEMMA CalmLoadFails ==
  ASSUME Typed, LoadFails, NEW a \in Watched, OneStepUp(a), Resting(a)
  PROVE  OneStepUp(a)' /\ Resting(a)'
<1>1. a \in Accounts /\ a # None /\ TypeOK /\ TypeOK'
  BY CycleAssumption, NoneTypes, TypedLoadFails DEF Typed
<1>2. prio' = prio /\ lease' = lease
  BY DEF LoadFails
<1>3. CASE st'[a] = st[a] /\ hist'[a] = hist[a]
  BY <1>1, <1>2, <1>3, CalmKept
<1>4. CASE st'[a] = NoState /\ hist'[a] = NoHistory
  <2>1. Rested(hist'[a])
    BY <1>4 DEF Rested, NoHistory, Set
  <2>. QED BY <1>1, <1>2, <1>4, <2>1, CalmFresh
<1>. QED BY <1>1, <1>3, <1>4 DEF LoadFails, Kept, Remembered

\* a save forgets what is older than the window;
LEMMA CalmSave ==
  ASSUME Typed, NEW outcome, Save(outcome), NEW a \in Watched, BlameBehind(a), OneStepUp(a),
         Resting(a)
  PROVE  OneStepUp(a)' /\ Resting(a)'
<1>1. a \in Accounts /\ a # None /\ TypeOK /\ TypeOK'
  BY CycleAssumption, NoneTypes, TypedSave DEF Typed
<1>2. prio' = prio /\ lease' = lease /\ hist' = hist /\ st' = Pruned
  BY DEF Save
<1>3. CASE st'[a] = st[a]
  BY <1>1, <1>2, <1>3, CalmKept
<1>4. CASE st'[a] = NoState /\ Since(st[a].seen) >= Retention
  <2>1. st[a].seen \in Stamps
    BY <1>1, HistoryFields
  <2>2. ~(Since(st[a].seen) < Window)
    BY <1>4, <2>1, Times DEF Since, Stamps, Never
  <2>3. Rested(hist[a])
    BY <1>1, <2>2, Restless
  <2>. QED BY <1>1, <1>2, <1>4, <2>3, CalmFresh
<1>. QED BY <1>1, <1>2, <1>3, <1>4 DEF Pruned

\* an interval ages both sides of each comparison.
LEMMA CalmTick ==
  ASSUME Typed, Tick, NEW a \in Watched, BlameBehind(a), OneStepUp(a), Resting(a)
  PROVE  OneStepUp(a)' /\ Resting(a)'
<1>. DEFINE s == st[a]
            h == hist[a]
            s1 == st'[a]
            h1 == hist'[a]
<1>1. a \in Accounts /\ TypeOK
  BY CycleAssumption DEF Typed
<1>2. /\ prio' = prio /\ lease' = AgedLease(lease) /\ s1 = AgedState(s) /\ h1 = AgedHistory(h)
  BY <1>1, TickParts
<1>3. /\ h.fell \in Stamps /\ h.blamed \in Stamps /\ s \in AccountState /\ h \in History
  BY <1>1, HistoryFields
<1>4. /\ s1.original = s.original /\ s1.retryAt = Aged(s.retryAt)
      /\ h1.fell = Aged(h.fell) /\ h1.blamed = Aged(h.blamed)
  BY <1>2, <1>3, AgedStateType, AgedHistoryType
<1>5. lease'.account = lease.account /\ lease'.original = lease.original
  BY <1>1, <1>2, AgedLeaseType DEF TypeOK
<1>6. Holds(a)' <=> Holds(a)
  BY <1>5 DEF Holds
<1>7. OneStepUp(a)'
  BY <1>2, <1>4, <1>5, <1>6 DEF OneStepUp
<1>. HIDE DEF s, h, s1, h1
<1>8. Resting(a)'
  <2>1. Backoffs[1] \in 1..Now
    BY Tiers
  <2>2. Rested(h) => Rested(h1)
    BY <1>3, <1>4, <2>1, Times DEF Rested, Aged, Larger, Since, Set, Stamps, Never
  <2>3. CASE Rested(h)
    BY <2>2, <2>3 DEF Resting, Rested, h1
  <2>4. CASE ~Rested(h)
    <3>1. /\ ~Holds(a) /\ h.fell \in 0..Now /\ s.retryAt \in Later
          /\ s.retryAt >= h.fell + Backoffs[1]
      BY <1>1, <2>4, Restless DEF s, h
    <3>2. \/ Since(h1.fell) >= Backoffs[1]
          \/ Set(s1.retryAt) /\ s1.retryAt >= h1.fell + Backoffs[1]
      BY <1>4, <2>1, <3>1, Times DEF Aged, Larger, Since, Set, Later, Never
    <3>. QED BY <1>6, <3>1, <3>2 DEF Resting, Rested, s1, h1
  <2>. QED BY <2>3, <2>4
<1>. QED BY <1>7, <1>8

\* So no step breaks the invariant.
LEMMA RollbackStep == CycleInv /\ RollbackInv /\ [Next]_vars => RollbackInv'
<1>. SUFFICES ASSUME CycleInv, RollbackInv, [Next]_vars, Calm'
              PROVE  TrialsAreRecoveries' /\ \A a \in Watched : OneStepUp(a)' /\ Resting(a)'
  BY DEF RollbackInv
<1>1. Grounded /\ Typed /\ InPhase
  BY DEF CycleInv, Grounded
<1>2. CASE Crash
  <2>1. crashes \in Nat /\ crashes' = crashes + 1 /\ crashes' = 0
    BY <1>1, <1>2, EnvironmentTypes DEF Crash, Calm, Undisturbed, Typed, TypeOK
  <2>. QED BY <2>1
<1>3. CASE ~Crash
  <2>1. crashes' = crashes /\ env' = env
    BY <1>1, <1>3, StampsOfTurn
    DEF Next, vars, Load, Prepare, LoadFails, Tick, Save
  <2>2. Undisturbed /\ ~Exploration
    BY <2>1 DEF Calm, Undisturbed, Outcomes, Exploration
  <2>3. TrialsAreRecoveries /\ \A a \in Watched : OneStepUp(a) /\ Resting(a) /\ BlameBehind(a)
    BY <2>2 DEF RollbackInv, Calm, CycleInv, Followed, WatchedOK
  <2>4. CASE UNCHANGED vars
    BY <2>3, <2>4 DEF vars, memory, cycle, TrialsAreRecoveries, OneStepUp, Resting, Rested, Holds
  <2>5. CASE Load
    BY <1>1, <2>2, <2>3, <2>5, CalmLoad, TrialsLoad
  <2>6. CASE LoadFails
    <3>1. TrialsAreRecoveries'
      BY <2>3, <2>6 DEF LoadFails, TrialsAreRecoveries
    <3>. QED BY <1>1, <2>3, <2>6, <3>1, CalmLoadFails
  <2>7. CASE Tick
    <3>1. /\ lease'.account = lease.account /\ lease'.recovery = lease.recovery
          /\ left' = left /\ rec' = rec
      BY <1>1, <2>7, TickParts, AgedLeaseType DEF Typed, TypeOK
    <3>2. TrialsAreRecoveries'
      BY <2>3, <3>1 DEF TrialsAreRecoveries
    <3>. QED BY <1>1, <2>3, <2>7, <3>2, CalmTick
  <2>8. CASE \E b \in Accounts, o \in WriteOutcome : Apply(b, o)
    <3>1. PICK b \in Accounts, o \in WriteOutcome : Apply(b, o)
      BY <2>8
    <3>2. TrialsAreRecoveries'
      BY <1>1, <2>3, <3>1, TrialsTurn
    <3>3. ASSUME NEW a \in Watched
          PROVE  OneStepUp(a)' /\ Resting(a)'
      <4>1. a \in Accounts /\ OneStepUp(a) /\ Resting(a) /\ BlameBehind(a)
        BY <2>3, CycleAssumption
      <4>2. CASE a = b
        BY <1>1, <2>2, <2>3, <3>1, <4>1, <4>2, OneStepTurn, RestingTurn
      <4>3. CASE a # b
        <5>1. Untouched(a) /\ hist'[a] = hist[a]
          BY <1>1, <3>1, <4>1, <4>3, TurnUntouched DEF Grounded
        <5>. QED BY <4>1, <5>1 DEF Untouched, OneStepUp, Resting, Rested
      <4>. QED BY <4>2, <4>3
    <3>. QED BY <3>2, <3>3
  <2>9. CASE \E o \in {"ok", "failed"} : Save(o)
    <3>1. TrialsAreRecoveries'
      BY <2>3, <2>9 DEF Save, TrialsAreRecoveries
    <3>. QED BY <1>1, <2>3, <2>9, <3>1, CalmSave
  <2>. QED BY <1>3, <2>4, <2>5, <2>6, <2>7, <2>8, <2>9 DEF Next
<1>. QED BY <1>2, <1>3

LEMMA RollbackInvariant == Spec => []RollbackInv
<1>1. Init => RollbackInv
  BY RollbackInit
<1>2. CycleInv /\ RollbackInv /\ [Next]_vars => RollbackInv'
  BY RollbackStep
<1>. QED BY <1>1, <1>2, CycleInvariant, PTL DEF Spec

\* A rollback returns to an origin that is one step behind.
LEMMA RollbackUndoes ==
  ASSUME CycleInv, RollbackInv, [Next]_vars, NEW a \in Watched, RollsBack(a), RecoveryOf(a),
         Undisturbed, ~Exploration
  PROVE  prio'[a] - prio[a] <= RecoveryStep
<1>. DEFINE r == rec[a]
<1>1. /\ a \in Accounts /\ Grounded /\ Typed /\ TypeOK /\ TrialsAreRecoveries /\ OneStepUp(a)
  BY CycleAssumption DEF CycleInv, RollbackInv, Calm, Grounded, Typed
<1>2. /\ a \in left /\ r.cur = prio[a]
      /\ \/ prio'[a] = r.want
         \/ ~r.atOnce
  BY <1>1, MoveFacts DEF RollsBack
<1>3. r.atOnce
  <2>1. r.rollback => r.atOnce
    BY <1>1, <1>2, TurnFacts, Zenon
  <2>. QED BY <2>1 DEF RollsBack
<1>4. r.want = RollbackTo(a, r)
  <2>1. r.rollback => r.want = RollbackTo(a, r)
    BY <1>1, <1>2, StepFacts, Zenon
  <2>. QED BY <2>1 DEF RollsBack
<1>5. prio'[a] = Larger(prio[a], lease.original)
  <2>1. RollbackTo(a, r) = Larger(r.cur, lease.original)
    BY DEF RollbackTo
  <2>. QED BY <1>2, <1>3, <1>4, <2>1
<1>6. /\ prio[a] \in Priority /\ lease.original \in 0..Unavailable
      /\ lease.original <= prio[a] + RecoveryStep
  BY <1>1, HistoryFields DEF OneStepUp, RecoveryOf, TypeOK, Lease
<1>. QED BY <1>5, <1>6, OnScale DEF Larger, Priority

\* A promotion finds an account that has rested.
LEMMA QuietKept ==
  ASSUME CycleInv, RollbackInv, [Next]_vars, NEW a \in Watched, Moves(a), prio'[a] < prio[a],
         Undisturbed, ~Exploration
  PROVE  Rested(hist[a])
<1>. DEFINE r == rec[a]
<1>1. /\ a \in Accounts /\ Grounded /\ TypeOK /\ TrialsAreRecoveries /\ Resting(a)
      /\ BlameBehind(a)
  BY CycleAssumption DEF CycleInv, RollbackInv, Calm, Grounded, Typed, Followed, WatchedOK
<1>2. /\ a \in left /\ r.cur = prio[a]
      /\ prio'[a] = r.want \/ prio'[a] = RampPriority(r.cur, r.want)
  BY <1>1, MoveFacts
<1>3. r.want < r.cur
  <2>1. r \in Recommendation
    BY <1>1, <1>2, StampsOfTurn DEF Grounded, Typed, TypeOK
  <2>2. r.cur \in Priority /\ r.want \in Priority
    BY <2>1 DEF Recommendation, Priority
  <2>. QED BY <1>2, <2>2, RampMoves
<1>4. ~Blocked(st[a].retryAt)
  <2>1. r.want < r.cur => ~Blocked(st[a].retryAt)
    BY <1>1, <1>2, StepFacts, Zenon
  <2>. QED BY <1>3, <2>1
<1>. QED BY <1>1, <1>4, Restless

\* A rollback is earned, takes a recovery back by one step only and is followed by
\* quiet, whatever the evidence, the tiers and the number of accounts.
THEOREM RollbacksSound == Spec => RollbacksAreSound
<1>1. CycleInv /\ RollbackInv /\ [Next]_vars =>
        [\A a \in Watched : RollsBack(a) /\ RecoveryOf(a) /\ Undisturbed /\ ~Exploration =>
           prio'[a] - prio[a] <= RecoveryStep]_vars
  BY RollbackUndoes
<1>2. CycleInv /\ RollbackInv /\ [Next]_vars =>
        [\A a \in Watched :
           Moves(a) /\ prio'[a] < prio[a] /\ Set(hist[a].fell) /\ Undisturbed /\ ~Exploration =>
             Since(hist[a].fell) >= Backoffs[1] \/ Since(hist[a].blamed) >= Window]_vars
  BY QuietKept DEF Rested
<1>3. Spec => RollbackUndoesOneStep /\ QuietAfterRollback
  BY <1>1, <1>2, CycleInvariant, RollbackInvariant, PTL
  DEF Spec, RollbackUndoesOneStep, QuietAfterRollback
<1>. QED BY <1>3, RollbacksEarned, PTL DEF RollbacksAreSound
=============================================================================
