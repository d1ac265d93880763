----------------------- MODULE PriorityScoresProofs -----------------------
(***************************************************************************)
(* Facts about the scoring of priority-sync, for every environment: what    *)
(* the queries count, what moves a priority, how costs are ranked, and how  *)
(* far one write goes.                                                      *)
(***************************************************************************)
EXTENDS PriorityScores, FiniteSetTheorems, WellFoundedInduction, TLAPS

Priority == 1..Unavailable

\* The step of a ramp is positive and, unless it is the ordinary one, a quarter
\* of the distance rounded up, so never more than the distance.
LEMMA RampSizePositive ==
  ASSUME NEW d \in Nat
  PROVE  RampSize(d) \in Nat \ {0}
<1>1. CASE d > RampStep * RampMaxSteps
  <2>1. RampStep * RampMaxSteps \in Nat
    BY ScaleAssumption
  <2>2. d + RampMaxSteps - 1 >= RampMaxSteps /\ d + RampMaxSteps - 1 \in Nat
    BY <1>1, <2>1, ScaleAssumption
  <2>. QED BY <1>1, <2>2, ScaleAssumption DEF RampSize
<1>2. CASE ~(d > RampStep * RampMaxSteps)
  BY <1>2, ScaleAssumption DEF RampSize
<1>. QED BY <1>1, <1>2

\* A step towards a target comes closer and stops there.
LEMMA TowardBetween ==
  ASSUME NEW from \in Nat, NEW to \in Nat, NEW step \in Nat \ {0}, from # to
  PROVE  /\ Toward(from, to, step) \in Nat
         /\ from < to => from < Toward(from, to, step) /\ Toward(from, to, step) <= to
         /\ from > to => from > Toward(from, to, step) /\ Toward(from, to, step) >= to
BY DEF Toward, Smaller, Larger

\* An ordinary write stays on the scale, comes closer to its target and never
\* passes it, from whatever gap; from unavailable it lands at neutral or worse.
LEMMA RampPriorityMoves ==
  ASSUME NEW from \in Priority, NEW to \in Priority, from # to
  PROVE  /\ RampPriority(from, to) \in Priority
         /\ from < Unavailable =>
              \/ from < RampPriority(from, to) /\ RampPriority(from, to) <= to
              \/ from > RampPriority(from, to) /\ RampPriority(from, to) >= to
         /\ from >= Unavailable => RampPriority(from, to) >= Neutral
<1>0. from \in Nat \ {0} /\ to \in Nat \ {0} /\ from <= Unavailable /\ to <= Unavailable
  BY ScaleAssumption DEF Priority
<1>1. CASE to >= Unavailable
  BY <1>0, <1>1, ScaleAssumption DEF RampPriority, Priority
<1>2. CASE to < Unavailable /\ from >= Unavailable
  BY <1>0, <1>2, ScaleAssumption DEF RampPriority, Larger, Priority
<1>3. CASE to < Unavailable /\ from < Unavailable
  <2>. DEFINE step == RampSize(Distance(from, to))
  <2>1. step \in Nat \ {0}
    BY <1>0, RampSizePositive DEF Distance
  <2>2. RampPriority(from, to) = Toward(from, to, step)
    BY <1>0, <1>3, ScaleAssumption DEF RampPriority
  <2>. HIDE DEF step
  <2>3. /\ Toward(from, to, step) \in Nat
        /\ from < to => from < Toward(from, to, step) /\ Toward(from, to, step) <= to
        /\ from > to => from > Toward(from, to, step) /\ Toward(from, to, step) >= to
    BY <1>0, <2>1, TowardBetween
  <2>4. from < to \/ from > to
    BY <1>0
  <2>. QED BY <1>0, <1>3, <2>2, <2>3, <2>4, ScaleAssumption DEF Priority
<1>. QED BY <1>0, <1>1, <1>2, <1>3, ScaleAssumption

\* A step of a recovery to a better priority goes towards it, by no more than a
\* step of a healthy recovery.
LEMMA RecoveryRampStep ==
  ASSUME NEW from \in Priority, NEW to \in Priority, to < from, NEW healthy \in BOOLEAN
  PROVE  /\ to <= RecoveryRamp(from, to, healthy)
         /\ RecoveryRamp(from, to, healthy) < from
         /\ from - RecoveryRamp(from, to, healthy) <= RecoveryStep
BY ScaleAssumption DEF Priority, RecoveryRamp, Larger

-----------------------------------------------------------------------------
(* Ranks and scores.                                                       *)

\* Rounding is monotone and does not leave the interval.
LEMMA RoundDivBounds ==
  ASSUME NEW n \in Nat, NEW d \in Nat \ {0}, NEW m \in Nat, n <= m * d
  PROVE  RoundDiv(n, d) \in 0..m
<1>1. 2 * n + d < (m + 1) * (2 * d)
  OBVIOUS
<1>2. (2 * n + d) \div (2 * d) < m + 1
  BY <1>1
<1>. QED BY <1>2 DEF RoundDiv

\* Rounding does not swap two numbers.
LEMMA RoundDivMonotone ==
  ASSUME NEW n \in Nat, NEW k \in Nat, NEW d \in Nat \ {0}, n <= k
  PROVE  RoundDiv(n, d) <= RoundDiv(k, d)
BY DEF RoundDiv

\* A rank among n accounts is between 0 and n - 1, and grows with the cost.
LEMMA RankBounds ==
  ASSUME NEW costs, IsFiniteSet(Priced(costs)),
         NEW a \in Priced(costs), costs[a] \in Nat
  PROVE  /\ Cardinality(Priced(costs)) \in Nat \ {0}
         /\ TwiceRank(costs, a) \in 0..(2 * (Cardinality(Priced(costs)) - 1))
<1>. DEFINE P == Priced(costs)
            C == Cheaper(costs, a)
            Same == Equal(costs, a)
<1>1. C \subseteq P /\ Same \subseteq P /\ C \cap Same = {} /\ a \in Same
  BY DEF Cheaper, Equal, Priced
<1>2. IsFiniteSet(C) /\ IsFiniteSet(Same) /\ IsFiniteSet(C \cup Same)
  BY <1>1, FS_Subset, FS_Union
<1>3. /\ Cardinality(P) \in Nat /\ Cardinality(C) \in Nat /\ Cardinality(Same) \in Nat
      /\ Cardinality(Same) # 0
  BY <1>1, <1>2, FS_CardinalityType, FS_EmptySet
<1>4. Cardinality(C \cup Same) = Cardinality(C) + Cardinality(Same)
  <2>1. Cardinality(C \cap Same) = 0
    BY <1>1, FS_EmptySet
  <2>2. Cardinality(C \cup Same) = Cardinality(C) + Cardinality(Same) - Cardinality(C \cap Same)
    BY <1>2, FS_Union
  <2>. QED BY <1>3, <2>1, <2>2
<1>5. Cardinality(C \cup Same) <= Cardinality(P)
  BY <1>1, FS_Subset
<1>. HIDE DEF P, C, Same
<1>6. 2 * Cardinality(C) + Cardinality(Same) - 1 \in 0..(2 * (Cardinality(P) - 1))
  BY <1>3, <1>4, <1>5
<1>. QED
  BY <1>3, <1>4, <1>5, <1>6 DEF TwiceRank, P, C, Same

\* A dearer account has the higher rank, by one at least (ranks are doubled).
LEMMA RankFollowsCost ==
  ASSUME NEW costs, IsFiniteSet(Priced(costs)),
         \A x \in Priced(costs) : costs[x] \in Nat,
         NEW a \in Priced(costs), NEW b \in Priced(costs), costs[a] < costs[b]
  PROVE  TwiceRank(costs, a) + 2 <= TwiceRank(costs, b)
<1>. DEFINE NoMore == Cheaper(costs, a) \cup Equal(costs, a)
<1>1. /\ Cheaper(costs, a) \cap Equal(costs, a) = {} /\ a \in Equal(costs, a)
      /\ NoMore \subseteq Cheaper(costs, b) /\ b \in Equal(costs, b)
      /\ NoMore \subseteq Priced(costs) /\ Equal(costs, b) \subseteq Priced(costs)
      /\ Cheaper(costs, b) \subseteq Priced(costs)
      /\ Cheaper(costs, a) \subseteq Priced(costs) /\ Equal(costs, a) \subseteq Priced(costs)
  BY DEF Cheaper, Equal, Priced
<1>2. /\ IsFiniteSet(Cheaper(costs, a)) /\ IsFiniteSet(Equal(costs, a))
      /\ IsFiniteSet(Cheaper(costs, b)) /\ IsFiniteSet(Equal(costs, b))
  BY <1>1, FS_Subset
<1>3. /\ Cardinality(Cheaper(costs, a)) \in Nat /\ Cardinality(Equal(costs, a)) \in Nat \ {0}
      /\ Cardinality(Cheaper(costs, b)) \in Nat /\ Cardinality(Equal(costs, b)) \in Nat \ {0}
  BY <1>1, <1>2, FS_CardinalityType, FS_EmptySet
<1>4. Cardinality(NoMore) = Cardinality(Cheaper(costs, a)) + Cardinality(Equal(costs, a))
  <2>1. Cardinality(Cheaper(costs, a) \cap Equal(costs, a)) = 0
    BY <1>1, FS_EmptySet
  <2>2. Cardinality(NoMore) = Cardinality(Cheaper(costs, a)) + Cardinality(Equal(costs, a))
                              - Cardinality(Cheaper(costs, a) \cap Equal(costs, a))
    BY <1>2, FS_Union
  <2>. QED BY <1>3, <2>1, <2>2
<1>5. Cardinality(NoMore) <= Cardinality(Cheaper(costs, b))
  BY <1>1, <1>2, FS_Subset
<1>. QED
  BY <1>3, <1>4, <1>5 DEF TwiceRank

\* The priority of a rank is on the scale, not the slot of the exploration, and
\* does not fall when the rank grows.
LEMMA PriorityOfOnScale ==
  ASSUME NEW last \in Nat, NEW rank \in 0..(2 * last)
  PROVE  PriorityOf(rank, last) \in (Best..Poor) \ {Explore}
<1>0. /\ Best \in Nat /\ Explore \in Nat /\ Neutral \in Nat /\ Poor \in Nat
      /\ Best < Explore /\ Explore < Neutral /\ Neutral < Poor
  BY ScaleAssumption
<1>1. ASSUME NEW p \in Best..Poor
      PROVE  OffExplore(p) \in (Best..Poor) \ {Explore}
  BY <1>0, <1>1 DEF OffExplore
<1>2. CASE last = 0
  BY <1>0, <1>1, <1>2 DEF PriorityOf
<1>3. CASE last # 0 /\ rank <= last
  <2>1. RoundDiv(rank * (Neutral - Best), last) \in 0..(Neutral - Best)
    <3>1. rank * (Neutral - Best) \in Nat /\ Neutral - Best \in Nat
      BY <1>0
    <3>2. rank * (Neutral - Best) <= (Neutral - Best) * last
      BY <1>0, <1>3
    <3>. QED BY <1>3, <3>1, <3>2, RoundDivBounds
  <2>. QED BY <1>0, <1>1, <1>3, <2>1 DEF PriorityOf
<1>4. CASE last # 0 /\ rank > last
  <2>1. RoundDiv((rank - last) * (Poor - Neutral), last) \in 0..(Poor - Neutral)
    <3>1. (rank - last) * (Poor - Neutral) \in Nat /\ Poor - Neutral \in Nat
      BY <1>0, <1>4
    <3>2. (rank - last) * (Poor - Neutral) <= (Poor - Neutral) * last
      BY <1>0, <1>4
    <3>. QED BY <1>4, <3>1, <3>2, RoundDivBounds
  <2>. QED BY <1>0, <1>1, <1>4, <2>1 DEF PriorityOf
<1>. QED BY <1>2, <1>3, <1>4

\* A later rank has no better priority, across both segments and the shift off
\* the exploration slot.
LEMMA PriorityOfMonotone ==
  ASSUME NEW last \in Nat, NEW low \in 0..(2 * last), NEW high \in 0..(2 * last), low <= high
  PROVE  PriorityOf(low, last) <= PriorityOf(high, last)
<1>0. /\ Best \in Nat /\ Explore \in Nat /\ Neutral \in Nat /\ Poor \in Nat
      /\ Best < Explore /\ Explore < Neutral /\ Neutral < Poor
  BY ScaleAssumption
<1>1. ASSUME NEW p \in Nat, NEW q \in Nat, p <= q
      PROVE  OffExplore(p) <= OffExplore(q)
  BY <1>0, <1>1 DEF OffExplore
<1>2. CASE last = 0
  <2>1. PriorityOf(low, last) = OffExplore(Best) /\ PriorityOf(high, last) = OffExplore(Best)
    BY <1>2 DEF PriorityOf
  <2>. QED BY <1>0, <1>1, <2>1
<1>3. CASE last # 0
  <2>. DEFINE First(r) == RoundDiv(r * (Neutral - Best), last)
              Second(r) == RoundDiv((r - last) * (Poor - Neutral), last)
  <2>1. ASSUME NEW r \in 0..(2 * last), r <= last
        PROVE  First(r) \in 0..(Neutral - Best) /\ r * (Neutral - Best) \in Nat
    <3>1. r * (Neutral - Best) \in Nat /\ r * (Neutral - Best) <= (Neutral - Best) * last
      BY <1>0, <2>1
    <3>. QED BY <1>0, <1>3, <3>1, RoundDivBounds
  <2>2. ASSUME NEW r \in 0..(2 * last), r > last
        PROVE  Second(r) \in 0..(Poor - Neutral) /\ (r - last) * (Poor - Neutral) \in Nat
    <3>1. /\ (r - last) * (Poor - Neutral) \in Nat
          /\ (r - last) * (Poor - Neutral) <= (Poor - Neutral) * last
      BY <1>0, <2>2
    <3>. QED BY <1>0, <1>3, <3>1, RoundDivBounds
  <2>3. ASSUME high <= last
        PROVE  First(low) <= First(high)
    <3>1. low * (Neutral - Best) <= high * (Neutral - Best)
      BY <1>0
    <3>. QED BY <1>3, <2>1, <2>3, <3>1, RoundDivMonotone
  <2>4. ASSUME low > last
        PROVE  Second(low) <= Second(high)
    <3>1. (low - last) * (Poor - Neutral) <= (high - last) * (Poor - Neutral)
      BY <1>0, <2>4
    <3>. QED BY <1>3, <2>2, <2>4, <3>1, RoundDivMonotone
  <2>. DEFINE Point(r) == IF r <= last THEN Best + First(r) ELSE Neutral + Second(r)
  <2>5. ASSUME NEW r \in 0..(2 * last)
        PROVE  PriorityOf(r, last) = OffExplore(Point(r))
    BY <1>3 DEF PriorityOf
  <2>. HIDE DEF First, Second
  <2>6. Point(low) \in Nat /\ Point(high) \in Nat /\ Point(low) <= Point(high)
    BY <1>0, <2>1, <2>2, <2>3, <2>4
  <2>. HIDE DEF Point
  <2>. QED BY <1>1, <2>5, <2>6
<1>. QED BY <1>2, <1>3

-----------------------------------------------------------------------------
(* Many writes.                                                            *)

WalkInv ==
  /\ WalkTypeOK
  /\ \A a \in hard : want[a] = Unavailable

\* A write keeps every account on the scale and every account that cannot be
\* used at the wish to be unavailable.
LEMMA WalkWrite ==
  ASSUME NEW a \in Accounts
  PROVE  WalkInv /\ Write(a) => WalkInv'
<1>. SUFFICES ASSUME WalkInv, Write(a) PROVE WalkInv'
  OBVIOUS
<1>1. prio[a] \in Priority /\ want[a] \in Priority
  BY DEF WalkInv, WalkTypeOK, Priority, Priorities
<1>2. RampPriority(prio[a], want[a]) \in Priority
  BY <1>1, RampPriorityMoves DEF Write
<1>3. prio' \in [Accounts -> Priority]
  BY <1>1, <1>2 DEF Write, WalkInv, WalkTypeOK, Priority, Priorities
<1>. QED BY <1>3 DEF Write, WalkInv, WalkTypeOK, Priority, Priorities

\* Priorities and scores stay between 1 and unavailable, and an account that
\* cannot be used wants to be unavailable, for any number of accounts.
THEOREM WalkInvariant == WalkSpec => []WalkInv
<1>1. WalkInit => WalkInv
  BY DEF WalkInit, WalkInv, WalkTypeOK, Scored
<1>2. WalkInv /\ [WalkNext]_walk => WalkInv'
  <2>. SUFFICES ASSUME WalkInv, [WalkNext]_walk PROVE WalkInv'
    OBVIOUS
  <2>1. CASE \E a \in Accounts : Write(a)
    BY <2>1, WalkWrite
  <2>2. CASE Rescore
    BY <2>2 DEF Rescore, Scored, WalkInv, WalkTypeOK
  <2>3. CASE UNCHANGED walk
    BY <2>3 DEF walk, WalkInv, WalkTypeOK
  <2>. QED BY <2>1, <2>2, <2>3 DEF WalkNext
<1>. QED BY <1>1, <1>2, PTL DEF WalkSpec

\* The type invariant of PriorityWalk, for every scale and set of accounts.
THEOREM WalkTypeCorrect == WalkSpec => []WalkTypeOK
BY WalkInvariant, PTL DEF WalkInv

\* No ordinary write passes its target or moves away from it, for any gap, scale
\* and number of accounts (priorityRampStep and applyRecommendations, runner.go).
THEOREM WritesNeverOvershoot == WalkSpec => NeverOvershoots
<1>1. ASSUME WalkInv, [WalkNext]_walk, NEW a \in Accounts, prio'[a] # prio[a], prio[a] < Unavailable
      PROVE  \/ prio[a] < prio'[a] /\ prio'[a] <= want[a]
             \/ prio[a] > prio'[a] /\ prio'[a] >= want[a]
  <2>0. prio[a] \in Priority /\ want[a] \in Priority
    BY <1>1 DEF WalkInv, WalkTypeOK, Priority, Priorities
  <2>1. Write(a)
    BY <1>1 DEF WalkNext, Write, Rescore, walk, WalkInv, WalkTypeOK
  <2>2. CASE a \in hard
    BY <1>1, <2>0, <2>1, <2>2, ScaleAssumption DEF Write, WalkInv, WalkTypeOK, Priority, Priorities
  <2>3. CASE a \notin hard
    <3>1. prio'[a] = RampPriority(prio[a], want[a])
      BY <2>1, <2>3, <1>1 DEF Write, WalkInv, WalkTypeOK
    <3>2. prio[a] # want[a]
      BY <2>1, <2>3, <1>1 DEF Write, WalkInv, WalkTypeOK
    <3>. QED BY <1>1, <2>0, <2>1, <3>1, <3>2, RampPriorityMoves
  <2>. QED BY <2>2, <2>3
<1>2. WalkInv /\ [WalkNext]_walk => [\A a \in Accounts : Approaches(a)]_walk
  BY <1>1 DEF Approaches
<1>. QED BY <1>2, WalkInvariant, PTL DEF WalkSpec, NeverOvershoots

\* An account that was unavailable re-enters at neutral or worse, for every scale
\* and number of accounts.
THEOREM ReturnsBehindNeutral == WalkSpec => ReturnsAtNeutralOrWorse
<1>1. ASSUME WalkInv, [WalkNext]_walk, NEW a \in Accounts,
             prio[a] >= Unavailable, prio'[a] < Unavailable
      PROVE  prio'[a] >= Neutral
  <2>0. prio[a] \in Priority /\ want[a] \in Priority
    BY <1>1 DEF WalkInv, WalkTypeOK, Priority, Priorities
  <2>1. prio'[a] # prio[a]
    BY <1>1, <2>0, ScaleAssumption DEF Priority
  <2>2. Write(a)
    BY <1>1, <2>1 DEF WalkNext, Write, Rescore, walk, WalkInv, WalkTypeOK
  <2>3. CASE a \in hard
    BY <1>1, <2>0, <2>1, <2>2, <2>3, ScaleAssumption DEF Write, WalkInv, WalkTypeOK, Priority, Priorities
  <2>4. CASE a \notin hard
    <3>1. prio'[a] = RampPriority(prio[a], want[a])
      BY <2>2, <2>4, <1>1 DEF Write, WalkInv, WalkTypeOK
    <3>2. prio[a] # want[a]
      BY <2>2, <2>4, <1>1 DEF Write, WalkInv, WalkTypeOK
    <3>. QED BY <1>1, <2>0, <2>2, <3>1, <3>2, RampPriorityMoves
  <2>. QED BY <2>3, <2>4
<1>2. WalkInv /\ [WalkNext]_walk => [\A a \in Accounts : ComesBackBehind(a)]_walk
  BY <1>1 DEF ComesBackBehind
<1>. QED BY <1>2, WalkInvariant, PTL DEF WalkSpec, ReturnsAtNeutralOrWorse

\* Scores never put a dearer account in front of a cheaper one and never use the
\* slot of the exploration, for any number of accounts (rankLowerBetter and
\* priorityForScoreRange, scoring.go).  With many accounts, two costs may share
\* a priority.
THEOREM ScoresKeepOrder ==
  ASSUME NEW costs, IsFiniteSet(Priced(costs)),
         \A x \in Priced(costs) : costs[x] \in Nat,
         NEW a \in Priced(costs), NEW b \in Priced(costs), costs[a] < costs[b]
  PROVE  /\ ScoredPriority(costs, a) <= ScoredPriority(costs, b)
         /\ ScoredPriority(costs, a) \in (Best..Poor) \ {Explore}
<1>. DEFINE last == Cardinality(Priced(costs)) - 1
<1>1. /\ last \in Nat
      /\ TwiceRank(costs, a) \in 0..(2 * last) /\ TwiceRank(costs, b) \in 0..(2 * last)
  BY RankBounds
<1>2. TwiceRank(costs, a) <= TwiceRank(costs, b)
  <2>1. TwiceRank(costs, a) + 2 <= TwiceRank(costs, b)
    BY RankFollowsCost
  <2>. HIDE DEF last
  <2>. QED BY <1>1, <2>1
<1>3. /\ ScoredPriority(costs, a) = PriorityOf(TwiceRank(costs, a), last)
      /\ ScoredPriority(costs, b) = PriorityOf(TwiceRank(costs, b), last)
  BY DEF ScoredPriority
<1>. HIDE DEF last
<1>. QED BY <1>1, <1>2, <1>3, PriorityOfOnScale, PriorityOfMonotone

\* Rounding keeps a gap of whole units.
LEMMA RoundDivGap ==
  ASSUME NEW n \in Nat, NEW k \in Nat, NEW d \in Nat \ {0}, NEW j \in Nat, n + j * d <= k
  PROVE  RoundDiv(n, d) + j <= RoundDiv(k, d)
<1>. DEFINE q == (2 * n + d) \div (2 * d)
<1>1. q \in Nat /\ q * (2 * d) <= 2 * n + d
  OBVIOUS
<1>2. (q + j) * (2 * d) <= 2 * k + d
  <2>. HIDE DEF q
  <2>1. (q + j) * (2 * d) = q * (2 * d) + j * (2 * d) /\ j * (2 * d) = 2 * (j * d)
    BY <1>1
  <2>2. j * d \in Nat /\ q * (2 * d) \in Nat
    BY <1>1
  <2>. QED BY <1>1, <2>1, <2>2
<1>3. q + j <= (2 * k + d) \div (2 * d)
  <2>. DEFINE r == (2 * k + d) \div (2 * d)
  <2>1. r \in Nat /\ 2 * k + d < (r + 1) * (2 * d)
    OBVIOUS
  <2>. HIDE DEF q, r
  <2>2. (q + j) * (2 * d) < (r + 1) * (2 * d)
    BY <1>1, <1>2, <2>1
  <2>3. q + j < r + 1
    BY <1>1, <2>1, <2>2
  <2>. QED BY <1>1, <2>1, <2>3 DEF r
<1>. QED BY <1>3 DEF RoundDiv

\* Where no segment of the scale has more ranks than priorities, two accounts
\* whose ranks differ by one do not share a priority, not even next to the slot
\* of the exploration.
LEMMA PriorityOfStrict ==
  ASSUME NEW last \in Nat, NEW low \in 0..(2 * last), NEW high \in 0..(2 * last), low + 2 <= high,
         last <= Neutral - Best, last <= Poor - Neutral
  PROVE  PriorityOf(low, last) < PriorityOf(high, last)
<1>0. /\ Best \in Nat /\ Explore \in Nat /\ Neutral \in Nat /\ Poor \in Nat
      /\ Best < Explore /\ Explore < Neutral /\ Neutral < Poor
  BY ScaleAssumption
<1>. DEFINE m == Neutral - Best
            k == Poor - Neutral
            First(r) == RoundDiv(r * m, last)
            Second(r) == RoundDiv((r - last) * k, last)
            Point(r) == IF r <= last THEN Best + First(r) ELSE Neutral + Second(r)
<1>1. m \in Nat \ {0} /\ k \in Nat \ {0} /\ last \in Nat \ {0} /\ last <= m /\ last <= k
  BY <1>0
<1>2. \A r \in 0..(2 * last) : PriorityOf(r, last) = OffExplore(Point(r))
  BY <1>1 DEF PriorityOf
<1>3. Best + m = Neutral
  BY <1>0
<1>. HIDE DEF m, k
<1>4. ASSUME NEW r \in Nat, r <= last
      PROVE  r * m \in Nat /\ First(r) \in 0..m
  <2>1. r * m \in Nat /\ r * m <= m * last
    BY <1>1, <1>4
  <2>. QED BY <1>1, <2>1, RoundDivBounds
<1>5. ASSUME NEW r \in Nat, NEW s \in Nat, r <= s, s <= last, NEW j \in 0..2, r + j <= s
      PROVE  First(r) + j <= First(s)
  <2>1. r * m + j * m <= s * m
    <3>1. (r + j) * m <= s * m
      BY <1>1, <1>5
    <3>. QED BY <1>1, <1>5, <3>1
  <2>2. j * last <= j * m
    BY <1>1, <1>5
  <2>3. r * m \in Nat /\ s * m \in Nat /\ j * last \in Nat /\ j * m \in Nat
    BY <1>1
  <2>4. r * m + j * last <= s * m
    BY <2>1, <2>2, <2>3
  <2>. QED BY <1>1, <2>3, <2>4, RoundDivGap
<1>6. ASSUME NEW r \in Nat, NEW s \in Nat, last <= r, r <= s, NEW j \in 0..2, r + j <= s
      PROVE  Second(r) + j <= Second(s) /\ Second(r) \in Nat
  <2>. DEFINE x == r - last
              y == s - last
  <2>1. x \in Nat /\ y \in Nat /\ x + j <= y
    BY <1>1, <1>6
  <2>. HIDE DEF x, y
  <2>2. x * k + j * k <= y * k
    <3>1. (x + j) * k <= y * k
      BY <1>1, <2>1
    <3>. QED BY <1>1, <2>1, <3>1
  <2>3. j * last <= j * k
    BY <1>1, <1>6
  <2>4. x * k \in Nat /\ y * k \in Nat /\ j * last \in Nat /\ j * k \in Nat
    BY <1>1, <2>1
  <2>5. x * k + j * last <= y * k
    BY <2>2, <2>3, <2>4
  <2>6. RoundDiv(x * k, last) + j <= RoundDiv(y * k, last)
    BY <1>1, <2>4, <2>5, RoundDivGap
  <2>7. RoundDiv(x * k, last) \in Nat
    BY <1>1, <2>4 DEF RoundDiv
  <2>. QED BY <2>6, <2>7 DEF x, y
<1>. HIDE DEF First, Second
<1>7. Point(low) \in Nat /\ Point(high) \in Nat /\ Point(low) + 2 <= Point(high)
  <2>1. low \in Nat /\ high \in Nat
    OBVIOUS
  <2>2. CASE high <= last
    BY <1>0, <1>4, <1>5, <2>1, <2>2
  <2>3. CASE last < low
    BY <1>0, <1>6, <2>1, <2>3
  <2>4. CASE low <= last /\ last < high
    <3>1. First(low) \in Nat /\ First(low) <= m /\ First(last) <= m
      BY <1>1, <1>4, <2>1, <2>4
    <3>2. Second(last) \in Nat /\ Second(high) \in Nat
      BY <1>1, <1>6, <2>1, <2>4
    <3>3. CASE low + 1 <= last
      <4>1. First(low) + 1 <= First(last)
        BY <1>1, <1>5, <2>1, <3>3
      <4>2. Second(last) + 1 <= Second(high)
        BY <1>1, <1>6, <2>1, <2>4
      <4>. QED BY <1>0, <1>1, <1>3, <1>4, <2>1, <2>4, <3>1, <3>2, <4>1, <4>2
    <3>4. CASE low = last
      <4>1. Second(last) + 2 <= Second(high)
        BY <1>1, <1>6, <2>1, <2>4, <3>4
      <4>. QED BY <1>0, <1>1, <1>3, <2>1, <2>4, <3>1, <3>2, <3>4, <4>1
    <3>. QED BY <1>1, <2>1, <2>4, <3>3, <3>4
  <2>. QED BY <1>1, <2>1, <2>2, <2>3, <2>4
<1>. HIDE DEF Point
<1>8. OffExplore(Point(low)) < OffExplore(Point(high))
  BY <1>0, <1>7 DEF OffExplore
<1>. QED BY <1>2, <1>8

\* Accounts that cost the same get the same score, and one that costs more gets
\* a worse one, as long as the scale has room for so many.
LEMMA ScoresStrict ==
  ASSUME NEW costs, IsFiniteSet(Priced(costs)),
         \A x \in Priced(costs) : costs[x] \in Nat,
         Cardinality(Priced(costs)) - 1 <= Neutral - Best,
         Cardinality(Priced(costs)) - 1 <= Poor - Neutral,
         NEW a \in Priced(costs), NEW b \in Priced(costs)
  PROVE  ScoredPriority(costs, a) < ScoredPriority(costs, b) <=> costs[a] < costs[b]
<1>. DEFINE last == Cardinality(Priced(costs)) - 1
<1>1. /\ last \in Nat /\ last <= Neutral - Best /\ last <= Poor - Neutral
      /\ TwiceRank(costs, a) \in 0..(2 * last) /\ TwiceRank(costs, b) \in 0..(2 * last)
  BY RankBounds
<1>2. \A x : ScoredPriority(costs, x) = PriorityOf(TwiceRank(costs, x), last)
  BY DEF ScoredPriority
<1>. HIDE DEF last
<1>3. CASE costs[a] < costs[b]
  <2>1. TwiceRank(costs, a) + 2 <= TwiceRank(costs, b)
    BY <1>3, RankFollowsCost
  <2>. QED BY <1>1, <1>2, <1>3, <2>1, PriorityOfStrict
<1>4. CASE costs[b] < costs[a]
  <2>1. TwiceRank(costs, b) + 2 <= TwiceRank(costs, a)
    BY <1>4, RankFollowsCost
  <2>2. PriorityOf(TwiceRank(costs, b), last) < PriorityOf(TwiceRank(costs, a), last)
    BY <1>1, <2>1, PriorityOfStrict
  <2>3. \A r \in 0..(2 * last) : PriorityOf(r, last) \in Int
    <3>1. (Best..Poor) \subseteq Int
      OBVIOUS
    <3>. QED BY <1>1, <3>1, PriorityOfOnScale
  <2>. QED BY <1>1, <1>2, <1>4, <2>2, <2>3
<1>5. CASE costs[a] = costs[b]
  <2>1. Cheaper(costs, a) = Cheaper(costs, b) /\ Equal(costs, a) = Equal(costs, b)
    BY <1>5 DEF Cheaper, Equal
  <2>2. TwiceRank(costs, a) = TwiceRank(costs, b)
    BY <2>1 DEF TwiceRank
  <2>3. PriorityOf(TwiceRank(costs, a), last) \in Int
    <3>1. (Best..Poor) \subseteq Int
      OBVIOUS
    <3>. QED BY <1>1, <3>1, PriorityOfOnScale
  <2>. QED BY <1>2, <1>5, <2>2, <2>3
<1>. QED BY <1>3, <1>4, <1>5

-----------------------------------------------------------------------------
(* Sums and folds over finite sets, by well-founded induction on inclusion. *)

\* Among subsets of a finite set there is one that contains no other.
LEMMA SmallestSubset ==
  ASSUME NEW S, IsFiniteSet(S), NEW T \in SUBSET (SUBSET S), T # {}
  PROVE  \E x \in T : \A y \in T : ~(y \subseteq x /\ y # x)
<1>1. IsWellFoundedOn(StrictSubsetOrdering(S), FiniteSubsetsOf(S))
  BY FS_StrictSubsetOrderingWellFounded
<1>2. T \subseteq FiniteSubsetsOf(S)
  BY FS_FiniteSubsetsOfFinite
<1>3. \E x \in T : \A y \in T : ~(<<y, x>> \in StrictSubsetOrdering(S))
  BY <1>1, <1>2, WFMin
<1>. QED BY <1>3 DEF StrictSubsetOrdering

\* A set of numbers has a smallest one.
LEMMA Smallest ==
  ASSUME NEW T \in SUBSET Nat, T # {}
  PROVE  \E n \in T : \A m \in T : n <= m
<1>1. PICK top \in T : TRUE
  OBVIOUS
<1>. DEFINE Below == {0..n : n \in {m \in T : m <= top}}
            Top == 0..top
<1>2. IsFiniteSet(Top) /\ Below \in SUBSET (SUBSET Top) /\ Below # {}
  <2>1. IsFiniteSet(Top)
    BY <1>1, FS_Interval
  <2>2. ASSUME NEW n \in T, n <= top PROVE 0..n \subseteq Top
    BY <2>2
  <2>3. 0..top \in Below
    BY <1>1
  <2>. QED BY <2>1, <2>2, <2>3
<1>3. PICK x \in Below : \A y \in Below : ~(y \subseteq x /\ y # x)
  <2>. HIDE DEF Below, Top
  <2>. QED BY <1>2, SmallestSubset
<1>4. PICK n \in T : n <= top /\ x = 0..n
  OBVIOUS
<1>5. ASSUME NEW m \in T, m < n PROVE FALSE
  <2>1. 0..m \in Below /\ 0..m \subseteq x /\ n \in x /\ n \notin 0..m
    BY <1>1, <1>4, <1>5
  <2>. QED BY <1>3, <2>1
<1>. QED BY <1>5

Picks(c, S) == \A s \in (SUBSET S) \ {{}} : c[s] \in s

\* h folds f over each part of S, as far as parts of n elements.
Folded(h, n, S, base, f, c) ==
  \A s \in SUBSET S :
    Cardinality(s) <= n => h[s] = IF s = {} THEN base ELSE f[<<c[s], h[s \ {c[s]}]>>]
Folds(h, S, W, base, f, c) ==
  /\ h \in [SUBSET S -> W]
  /\ \A s \in SUBSET S : h[s] = IF s = {} THEN base ELSE f[<<c[s], h[s \ {c[s]}]>>]

\* What is picked from a part that is not empty leaves a part with one element
\* less: the step of every sum of rows by induction.
LEMMA PickedOut ==
  ASSUME NEW S, IsFiniteSet(S), NEW s \in SUBSET S, NEW c, Picks(c, S), s # {}
  PROVE  /\ c[s] \in s /\ s \ {c[s]} \in SUBSET S
         /\ Cardinality(s) \in Nat \ {0} /\ Cardinality(s \ {c[s]}) = Cardinality(s) - 1
<1>1. IsFiniteSet(s) /\ c[s] \in s
  BY FS_Subset DEF Picks
<1>. QED BY <1>1, FS_RemoveElement, FS_CardinalityType, FS_EmptySet

\* What a fold over a finite set computes exists.
LEMMA FoldExists ==
  ASSUME NEW S, IsFiniteSet(S), NEW W, NEW base \in W, NEW f \in [S \X W -> W],
         NEW c, Picks(c, S)
  PROVE  \E h : Folds(h, S, W, base, f, c)
<1>. DEFINE Bad == {n \in Nat : ~\E h \in [SUBSET S -> W] : Folded(h, n, S, base, f, c)}
<1>1. \A s \in SUBSET S : Cardinality(s) \in Nat /\ (Cardinality(s) = 0 <=> s = {})
  BY FS_Subset, FS_CardinalityType, FS_EmptySet
<1>2. ASSUME Bad # {} PROVE FALSE
  <2>1. PICK n \in Bad : \A m \in Bad : n <= m
    <3>1. Bad \in SUBSET Nat
      OBVIOUS
    <3>. HIDE DEF Bad
    <3>. QED BY <1>2, <3>1, Smallest
  <2>2. CASE n = 0
    <3>. DEFINE h == [s \in SUBSET S |-> base]
    <3>1. Folded(h, 0, S, base, f, c)
      BY <1>1 DEF Folded
    <3>. QED BY <2>1, <2>2, <3>1
  <2>3. CASE n # 0
    <3>1. n - 1 \in Nat /\ n - 1 \notin Bad
      <4>1. n \in Nat /\ n - 1 \in Nat /\ ~(n <= n - 1)
        BY <2>3
      <4>. HIDE DEF Bad
      <4>. QED BY <2>1, <4>1
    <3>2. PICK g \in [SUBSET S -> W] : Folded(g, n - 1, S, base, f, c)
      BY <3>1
    <3>. DEFINE h == [s \in SUBSET S |-> IF Cardinality(s) < n \/ s = {} THEN g[s]
                                         ELSE f[<<c[s], g[s \ {c[s]}]>>]]
    <3>3. h \in [SUBSET S -> W]
      <4>1. ASSUME NEW s \in SUBSET S, s # {} PROVE f[<<c[s], g[s \ {c[s]}]>>] \in W
        <5>1. c[s] \in S /\ g[s \ {c[s]}] \in W
          BY <4>1, PickedOut
        <5>. QED BY <5>1
      <4>. QED BY <4>1
    <3>4. ASSUME NEW s \in SUBSET S, Cardinality(s) <= n
          PROVE  h[s] = IF s = {} THEN base ELSE f[<<c[s], h[s \ {c[s]}]>>]
      <4>1. CASE s = {}
        <5>1. {} \in SUBSET S /\ Cardinality({}) <= n - 1
          BY <3>1, FS_EmptySet
        <5>2. g[{}] = base
          BY <3>2, <5>1 DEF Folded
        <5>. QED BY <4>1, <5>2
      <4>2. CASE s # {}
        <5>1. /\ s \ {c[s]} \in SUBSET S
              /\ Cardinality(s) \in Nat \ {0} /\ Cardinality(s \ {c[s]}) = Cardinality(s) - 1
          BY <4>2, PickedOut
        <5>2. h[s \ {c[s]}] = g[s \ {c[s]}]
          BY <2>1, <3>4, <5>1
        <5>3. CASE Cardinality(s) < n
          <6>1. Cardinality(s) <= n - 1
            BY <2>1, <5>1, <5>3
          <6>2. g[s] = f[<<c[s], g[s \ {c[s]}]>>]
            <7>. HIDE DEF h
            <7>. QED BY <3>2, <4>2, <6>1 DEF Folded
          <6>3. h[s] = g[s]
            BY <5>3
          <6>. HIDE DEF h
          <6>. QED BY <4>2, <5>2, <6>2, <6>3
        <5>4. CASE ~(Cardinality(s) < n)
          BY <2>1, <4>2, <5>1, <5>2, <5>4
        <5>. QED BY <5>3, <5>4
      <4>. QED BY <4>1, <4>2
    <3>5. Folded(h, n, S, base, f, c)
      <4>. HIDE DEF h
      <4>. QED BY <3>4 DEF Folded
    <3>. HIDE DEF h
    <3>. QED BY <2>1, <3>3, <3>5
  <2>. QED BY <2>2, <2>3
<1>3. Cardinality(S) \in Nat /\ \A s \in SUBSET S : Cardinality(s) <= Cardinality(S)
  BY FS_Subset, FS_CardinalityType
<1>4. PICK h \in [SUBSET S -> W] : Folded(h, Cardinality(S), S, base, f, c)
  BY <1>2, <1>3
<1>. QED BY <1>3, <1>4 DEF Folded, Folds

\* A function that goes on like a fold is that fold.
GoesOn(k, h, c, S) ==
  /\ k[{}] = h[{}]
  /\ \A s \in SUBSET S : s # {} /\ k[s \ {c[s]}] = h[s \ {c[s]}] => k[s] = h[s]

\* There is no other such function: what FoldLeft goes through, story by story
\* or row by row, is what the fold says.
LEMMA FoldUnique ==
  ASSUME NEW S, IsFiniteSet(S), NEW c, Picks(c, S), NEW h, NEW k, GoesOn(k, h, c, S)
  PROVE  \A s \in SUBSET S : k[s] = h[s]
<1>. DEFINE Bad == {Cardinality(s) : s \in {t \in SUBSET S : k[t] # h[t]}}
<1>1. \A s \in SUBSET S : Cardinality(s) \in Nat
  BY FS_Subset, FS_CardinalityType
<1>2. SUFFICES ASSUME Bad # {} PROVE FALSE
  OBVIOUS
<1>3. PICK n \in Bad : \A m \in Bad : n <= m
  <2>1. Bad \in SUBSET Nat
    BY <1>1
  <2>. HIDE DEF Bad
  <2>. QED BY <1>2, <2>1, Smallest
<1>4. PICK s \in SUBSET S : k[s] # h[s] /\ n = Cardinality(s)
  OBVIOUS
<1>5. s # {}
  BY <1>4 DEF GoesOn
<1>6. /\ s \ {c[s]} \in SUBSET S
      /\ Cardinality(s) \in Nat \ {0} /\ Cardinality(s \ {c[s]}) = Cardinality(s) - 1
  BY <1>5, PickedOut
<1>7. k[s \ {c[s]}] = h[s \ {c[s]}]
  <2>1. ~(n <= Cardinality(s \ {c[s]}))
    BY <1>4, <1>6
  <2>. QED BY <1>3, <1>6, <2>1
<1>. QED BY <1>4, <1>5, <1>7 DEF GoesOn

\* h is the sum of g over each part of S, whatever is added first.
Adds(h, g, S) ==
  /\ h \in [SUBSET S -> Nat] /\ h[{}] = 0
  /\ \A s \in SUBSET S : \A x \in s : h[s] = g[x] + h[s \ {x}]

\* Natural numbers, as the tokens or the costs of rows are, have a sum over each
\* part of a finite set.
LEMMA AddsExists ==
  ASSUME NEW S, IsFiniteSet(S), NEW g \in [S -> Nat], NEW c, Picks(c, S)
  PROVE  \E h : Adds(h, g, S)
<1>. DEFINE f == [p \in S \X Nat |-> g[p[1]] + p[2]]
<1>1. f \in [S \X Nat -> Nat]
  OBVIOUS
<1>2. PICK h : Folds(h, S, Nat, 0, f, c)
  <2>. HIDE DEF f
  <2>. QED BY <1>1, FoldExists
<1>3. ASSUME NEW s \in SUBSET S, s # {}
      PROVE  h[s] = g[c[s]] + h[s \ {c[s]}]
  <2>1. c[s] \in S /\ h[s \ {c[s]}] \in Nat
    BY <1>2, <1>3, PickedOut DEF Folds
  <2>. QED BY <1>2, <1>3, <2>1 DEF Folds
<1>. HIDE DEF f
<1>. DEFINE Odd == {s \in SUBSET S : \E x \in s : h[s] # g[x] + h[s \ {x}]}
<1>4. ASSUME Odd # {} PROVE FALSE
  <2>1. PICK s \in Odd : \A t \in Odd : ~(t \subseteq s /\ t # s)
    <3>1. Odd \in SUBSET (SUBSET S)
      OBVIOUS
    <3>. HIDE DEF Odd
    <3>. QED BY <1>4, <3>1, SmallestSubset
  <2>2. PICK x \in s : h[s] # g[x] + h[s \ {x}]
    OBVIOUS
  <2>. DEFINE y == c[s]
  <2>3. y \in s /\ h[s] = g[y] + h[s \ {y}]
    BY <1>3, PickedOut
  <2>4. x # y
    BY <2>2, <2>3
  <2>. HIDE DEF y
  <2>5. /\ s \ {y} \notin Odd /\ s \ {y} \in SUBSET S /\ x \in s \ {y}
        /\ s \ {x} \notin Odd /\ s \ {x} \in SUBSET S /\ y \in s \ {x}
    <3>. HIDE DEF Odd
    <3>1. s \in SUBSET S
      BY DEF Odd
    <3>. QED BY <2>1, <2>3, <2>4, <3>1
  <2>6. /\ h[s \ {y}] = g[x] + h[(s \ {y}) \ {x}]
        /\ h[s \ {x}] = g[y] + h[(s \ {x}) \ {y}]
    BY <2>5
  <2>7. (s \ {y}) \ {x} = (s \ {x}) \ {y} /\ (s \ {y}) \ {x} \in SUBSET S
    OBVIOUS
  <2>8. g[x] \in Nat /\ g[y] \in Nat /\ h[(s \ {y}) \ {x}] \in Nat
    BY <1>2, <2>3, <2>7 DEF Folds
  <2>. HIDE DEF Odd
  <2>9. h[s] = g[y] + (g[x] + h[(s \ {y}) \ {x}])
    BY <2>3, <2>6
  <2>10. g[x] + h[s \ {x}] = g[x] + (g[y] + h[(s \ {y}) \ {x}])
    BY <2>6, <2>7
  <2>. QED BY <2>2, <2>8, <2>9, <2>10
<1>5. \A s \in SUBSET S : \A x \in s : h[s] = g[x] + h[s \ {x}]
  BY <1>4
<1>6. h[{}] = 0 /\ h \in [SUBSET S -> Nat]
  BY <1>2 DEF Folds
<1>. HIDE DEF Odd
<1>. QED BY <1>5, <1>6 DEF Adds

\* A part adds up to no more than the whole, and to as much if the rest is nothing.
LEMMA AddsParts ==
  ASSUME NEW S, IsFiniteSet(S), NEW g \in [S -> Nat], NEW h, Adds(h, g, S),
         NEW T \in SUBSET S, NEW U \in SUBSET T
  PROVE  /\ h[U] \in Nat /\ h[T] \in Nat /\ h[U] <= h[T]
         /\ (\A x \in T \ U : g[x] = 0) => h[U] = h[T]
<1>. DEFINE Odd == {V \in SUBSET T : /\ U \subseteq V
                                     /\ ~(/\ h[U] <= h[V]
                                          /\ (\A x \in V \ U : g[x] = 0) => h[U] = h[V])}
<1>1. \A V \in SUBSET T : h[V] \in Nat
  BY DEF Adds
<1>2. ASSUME Odd # {} PROVE FALSE
  <2>1. PICK V \in Odd : \A W \in Odd : ~(W \subseteq V /\ W # V)
    <3>1. Odd \in SUBSET (SUBSET S)
      OBVIOUS
    <3>. HIDE DEF Odd
    <3>. QED BY <1>2, <3>1, SmallestSubset
  <2>2. V \in SUBSET T /\ U \subseteq V
    OBVIOUS
  <2>3. PICK x \in V : x \notin U
    <3>1. V # U
      BY <1>1
    <3>. QED BY <2>2, <3>1
  <2>4. V \ {x} \notin Odd /\ V \ {x} \in SUBSET T /\ U \subseteq V \ {x}
    <3>. HIDE DEF Odd
    <3>. QED BY <2>1, <2>2, <2>3
  <2>5. h[V] = g[x] + h[V \ {x}] /\ g[x] \in Nat
    BY <2>2 DEF Adds
  <2>6. /\ h[U] <= h[V \ {x}]
        /\ (\A z \in (V \ {x}) \ U : g[z] = 0) => h[U] = h[V \ {x}]
    BY <2>4
  <2>7. h[U] \in Nat /\ h[V] \in Nat /\ h[V \ {x}] \in Nat
    BY <1>1, <2>2, <2>4
  <2>8. (\A z \in V \ U : g[z] = 0) => h[U] = h[V]
    BY <2>3, <2>5, <2>6, <2>7
  <2>. QED BY <2>5, <2>6, <2>7, <2>8
<1>. QED BY <1>1, <1>2

\* What the community modules compute by MapThenSumSet is this sum.
One(s) == CHOOSE x \in s : TRUE
Sums(k, g, T) == k = [s \in SUBSET T |-> IF s = {} THEN 0 ELSE g[One(s)] + k[s \ {One(s)}]]
SumOf(h, g, S) ==
  /\ Adds(h, g, S)
  /\ \A T \in SUBSET S : (\E k : Sums(k, g, T)) /\ \A k : Sums(k, g, T) => k[T] = h[T]

\* MapThenSumSet, by which the model sums rows as the queries do (SUM, store.go),
\* computes that sum for each part of a finite set.
LEMMA SumsExist ==
  ASSUME NEW S, IsFiniteSet(S), NEW g \in [S -> Nat]
  PROVE  \E h : SumOf(h, g, S)
<1>. DEFINE c == [s \in (SUBSET S) \ {{}} |-> One(s)]
<1>1. Picks(c, S)
  BY DEF Picks, One
<1>2. PICK h : Adds(h, g, S)
  <2>. HIDE DEF c
  <2>. QED BY <1>1, AddsExists
<1>3. ASSUME NEW s \in SUBSET S, s # {}
      PROVE  h[s] = g[One(s)] + h[s \ {One(s)}]
  BY <1>2, <1>3 DEF Adds, One
<1>4. ASSUME NEW T \in SUBSET S
      PROVE  \E k : Sums(k, g, T)
  <2>1. h[{}] = 0
    BY <1>2 DEF Adds
  <2>2. ASSUME NEW s \in SUBSET T, s # {}
        PROVE  h[s] = g[One(s)] + h[s \ {One(s)}] /\ s \ {One(s)} \in SUBSET T
    BY <1>3, <2>2
  <2>3. Sums([s \in SUBSET T |-> h[s]], g, T)
    BY <2>1, <2>2 DEF Sums
  <2>. QED BY <2>3
<1>5. ASSUME NEW T \in SUBSET S, NEW k, Sums(k, g, T)
      PROVE  k[T] = h[T]
  <2>1. k[{}] = h[{}]
    BY <1>2, <1>5 DEF Adds, Sums
  <2>2. ASSUME NEW s \in SUBSET T, s # {}, k[s \ {c[s]}] = h[s \ {c[s]}]
        PROVE  k[s] = h[s]
    <3>1. c[s] = One(s)
      BY <2>2
    <3>. HIDE DEF c
    <3>2. k[s] = g[One(s)] + k[s \ {One(s)}]
      BY <1>5, <2>2 DEF Sums
    <3>3. h[s] = g[One(s)] + h[s \ {One(s)}]
      BY <1>3, <2>2
    <3>. QED BY <2>2, <3>1, <3>2, <3>3
  <2>3. IsFiniteSet(T) /\ Picks(c, T)
    BY <1>1, FS_Subset DEF Picks
  <2>. HIDE DEF c
  <2>4. \A s \in SUBSET T : s # {} /\ k[s \ {c[s]}] = h[s \ {c[s]}] => k[s] = h[s]
    BY <2>2
  <2>5. GoesOn(k, h, c, T)
    BY <2>1, <2>4 DEF GoesOn
  <2>. QED BY <2>3, <2>5, FoldUnique
<1>. QED BY <1>2, <1>4, <1>5 DEF SumOf

\* SumOver is that sum, of whatever function.
LEMMA SumOverIs ==
  ASSUME NEW S, NEW g, NEW h, SumOf(h, g, S),
         NEW f, DOMAIN f \in SUBSET S, \A x \in DOMAIN f : f[x] = g[x]
  PROVE  SumOver(f) = h[DOMAIN f]
<1>. DEFINE T == DOMAIN f
            Run(k) == k = [s \in SUBSET T |-> IF s = {} THEN 0 ELSE f[One(s)] + k[s \ {One(s)}]]
            it == CHOOSE k : Run(k)
<1>1. SumOver(f) = it[T]
  BY DEF SumOver, MapThenSumSet, MapThenFoldSet, One
<1>2. ASSUME NEW s \in SUBSET T, s # {} PROVE g[One(s)] = f[One(s)]
  BY <1>2 DEF One
<1>3. ASSUME NEW k PROVE Run(k) <=> Sums(k, g, T)
  BY <1>2 DEF Sums
<1>4. (\E k : Sums(k, g, T)) /\ \A k : Sums(k, g, T) => k[T] = h[T]
  BY DEF SumOf
<1>. HIDE DEF Run, T
<1>5. Run(it)
  BY <1>3, <1>4
<1>. QED BY <1>1, <1>3, <1>4, <1>5 DEF T

\* Sums of natural numbers are natural numbers, and positive if one of them is.
LEMMA SumOverIsNat ==
  ASSUME NEW S, IsFiniteSet(S), NEW f \in [S -> Nat]
  PROVE  /\ SumOver(f) \in Nat
         /\ \A x \in S : SumOver(f) >= f[x]
<1>1. PICK h : SumOf(h, f, S)
  BY SumsExist
<1>2. SumOver(f) = h[S]
  BY <1>1, SumOverIs
<1>3. h[S] \in Nat /\ \A x \in S : h[S \ {x}] \in Nat /\ h[S] = f[x] + h[S \ {x}]
  <2>1. S \in SUBSET S /\ \A x \in S : S \ {x} \in SUBSET S
    OBVIOUS
  <2>. QED BY <1>1, <2>1 DEF SumOf, Adds
<1>4. ASSUME NEW x \in S PROVE SumOver(f) >= f[x]
  <2>1. f[x] \in Nat /\ h[S \ {x}] \in Nat /\ h[S] = f[x] + h[S \ {x}]
    BY <1>3
  <2>. QED BY <1>2, <1>3, <2>1
<1>. QED BY <1>2, <1>3, <1>4

\* The tokens of a set of rows are their sum (store.go: SUM of the tokens).
LEMMA TotalTokens ==
  ASSUME NEW S, NEW h, SumOf(h, [x \in S |-> Tokens(x)], S), NEW T \in SUBSET S
  PROVE  Total(Tokens, T) = h[T]
<1>. DEFINE f == [x \in T |-> Tokens(x)]
            g == [x \in S |-> Tokens(x)]
<1>1. DOMAIN f = T /\ \A x \in T : f[x] = g[x]
  OBVIOUS
<1>2. Total(Tokens, T) = SumOver(f)
  BY DEF Total
<1>. HIDE DEF f, g
<1>3. SumOver(f) = h[T]
  <2>1. SumOf(h, g, S)
    BY DEF g
  <2>. QED BY <1>1, <2>1, SumOverIs
<1>. QED BY <1>2, <1>3
-----------------------------------------------------------------------------
(* What the logs say.                                                       *)

IdRecords == {NoId} \cup {Named(n, p) : n \in Nat, p \in BOOLEAN}
UsageRecords ==
  [id : Nat, req : Nat, account : Accounts, at : Int, pool : Pools,
   input : Nat, output : Nat, inCost : Nat, outCost : Nat,
   rate : Nat, actual : Nat, final : BOOLEAN, client : IdRecords, request : IdRecords]
ErrorRecords ==
  [id : Nat, req : Nat, account : Accounts, at : Int, kind : ErrorKinds,
   client : IdRecords, request : IdRecords]

\* The ids of a row are those of its request, in one of the forms, or none.
Names(r) == \E f \in Forms : r.client = Ids(f, r.req).client /\ r.request = Ids(f, r.req).request
Nameless(r) == r.client = NoId /\ r.request = NoId

RowOK(r, w) ==
  /\ r.req <= w.req /\ r.id <= w.id
  /\ r.at \in (-TrafficWindow)..(-1)
  /\ Names(r)
OneEach(rows) == \A r, s \in rows : r.id = s.id => r = s
LastIn(r, rows) == \A s \in rows : s.account = r.account /\ s.req = r.req => Before(s, r)
Lonely(r, rows, others) ==
  /\ \A s \in rows : s.req = r.req => s = r
  /\ \A e \in others : e.req # r.req
LogTypes(w) ==
  /\ w.usage \subseteq UsageRecords /\ w.errors \subseteq ErrorRecords
  /\ IsFiniteSet(w.usage) /\ IsFiniteSet(w.errors)
  /\ w.req \in Nat /\ w.id \in Nat
LogsOK(w) ==
  /\ LogTypes(w)
  /\ \A r \in w.usage : RowOK(r, w)
  /\ \A e \in w.errors : RowOK(e, w)
  /\ OneEach(w.usage) /\ OneEach(w.errors)
  /\ \A r \in w.usage : r.final <=> LastIn(r, w.usage)
  /\ \A r \in w.usage : Nameless(r) => Lonely(r, w.usage, w.errors)
  /\ \A e \in w.errors : Nameless(e) => Lonely(e, w.errors, w.usage)

\* A row that names its request is keyed by it, whichever of the ids it has and
\* with or without the prefix; one that names none, by its own id (store.go:50).
LEMMA RowKeys ==
  ASSUME NEW r, NEW table, r.req \in Nat, Names(r)
  PROVE  /\ Nameless(r) => RequestKey(table, r) = <<table, r.id>>
         /\ ~Nameless(r) => RequestKey(table, r) = <<"request", r.req>>
<1>1. PICK f \in Forms : r.client = Ids(f, r.req).client /\ r.request = Ids(f, r.req).request
  BY DEF Names
<1>2. \A p \in BOOLEAN : Named(r.req, p) # NoId /\ NameOf(Named(r.req, p)) = <<"request", r.req>>
  BY DEF Named, NoId, NameOf
<1>3. \/ r.client = NoId /\ r.request = NoId
      \/ r.client = NoId /\ r.request = Named(r.req, FALSE)
      \/ r.client \in {Named(r.req, FALSE), Named(r.req, TRUE)}
  BY <1>1 DEF Ids, Forms
<1>. QED BY <1>2, <1>3 DEF RequestKey, Nameless

\* Two rows carry the same key if and only if they belong to the same request.
LEMMA Keys ==
  ASSUME NEW w, LogsOK(w)
  PROVE  /\ \A r, s \in w.usage : UsageKey(r) = UsageKey(s) <=> r.req = s.req
         /\ \A r, s \in w.errors : ErrorKey(r) = ErrorKey(s) <=> r.req = s.req
         /\ \A r \in w.usage, e \in w.errors : UsageKey(r) = ErrorKey(e) <=> r.req = e.req
<1>1. \A r \in w.usage : r.req \in Nat /\ r.id \in Nat /\ Names(r)
  BY DEF LogsOK, LogTypes, RowOK, UsageRecords
<1>2. \A r \in w.errors : r.req \in Nat /\ r.id \in Nat /\ Names(r)
  BY DEF LogsOK, LogTypes, RowOK, ErrorRecords
<1>3. ASSUME NEW r \in w.usage
      PROVE  /\ Nameless(r) => UsageKey(r) = <<"usage", r.id>>
             /\ ~Nameless(r) => UsageKey(r) = <<"request", r.req>>
  BY <1>1, RowKeys DEF UsageKey
<1>4. ASSUME NEW r \in w.errors
      PROVE  /\ Nameless(r) => ErrorKey(r) = <<"error", r.id>>
             /\ ~Nameless(r) => ErrorKey(r) = <<"request", r.req>>
  BY <1>2, RowKeys DEF ErrorKey
<1>5. ASSUME NEW r \in w.usage, NEW s \in w.usage
      PROVE  UsageKey(r) = UsageKey(s) <=> r.req = s.req
  <2>1. CASE Nameless(r) /\ Nameless(s)
    BY <1>3, <2>1 DEF LogsOK, OneEach, Lonely
  <2>2. CASE ~Nameless(r) /\ ~Nameless(s)
    BY <1>3, <2>2
  <2>3. CASE Nameless(r) /\ ~Nameless(s)
    BY <1>3, <2>3 DEF LogsOK, Lonely
  <2>4. CASE ~Nameless(r) /\ Nameless(s)
    BY <1>3, <2>4 DEF LogsOK, Lonely
  <2>. QED BY <2>1, <2>2, <2>3, <2>4
<1>6. ASSUME NEW r \in w.errors, NEW s \in w.errors
      PROVE  ErrorKey(r) = ErrorKey(s) <=> r.req = s.req
  <2>1. CASE Nameless(r) /\ Nameless(s)
    BY <1>4, <2>1 DEF LogsOK, OneEach, Lonely
  <2>2. CASE ~Nameless(r) /\ ~Nameless(s)
    BY <1>4, <2>2
  <2>3. CASE Nameless(r) /\ ~Nameless(s)
    BY <1>4, <2>3 DEF LogsOK, Lonely
  <2>4. CASE ~Nameless(r) /\ Nameless(s)
    BY <1>4, <2>4 DEF LogsOK, Lonely
  <2>. QED BY <2>1, <2>2, <2>3, <2>4
<1>7. ASSUME NEW r \in w.usage, NEW e \in w.errors
      PROVE  UsageKey(r) = ErrorKey(e) <=> r.req = e.req
  <2>1. CASE ~Nameless(r) /\ ~Nameless(e)
    BY <1>3, <1>4, <2>1
  <2>2. CASE Nameless(r)
    BY <1>3, <1>4, <2>2 DEF LogsOK, Lonely
  <2>3. CASE Nameless(e)
    BY <1>3, <1>4, <2>3 DEF LogsOK, Lonely
  <2>. QED BY <2>1, <2>2, <2>3
<1>. QED BY <1>5, <1>6, <1>7

\* A set of numbers with a bound has a largest one.
LEMMA Largest ==
  ASSUME NEW S \in SUBSET Int, S # {}, NEW b \in Int, \A x \in S : x <= b
  PROVE  \E x \in S : \A y \in S : x >= y
<1>. DEFINE T == {b - x : x \in S}
<1>1. T \in SUBSET Nat /\ T # {}
  <2>1. ASSUME NEW x \in S PROVE b - x \in Nat
    OBVIOUS
  <2>. QED BY <2>1
<1>2. PICK n \in T : \A m \in T : n <= m
  <2>. HIDE DEF T
  <2>. QED BY <1>1, Smallest
<1>3. PICK x \in S : n = b - x
  OBVIOUS
<1>4. ASSUME NEW y \in S PROVE x >= y
  <2>1. b - y \in T
    OBVIOUS
  <2>2. n <= b - y
    <3>. HIDE DEF T
    <3>. QED BY <1>2, <2>1
  <2>. QED BY <1>3, <2>2
<1>. QED BY <1>4

\* A set of stamps is as late as a part of it that leaves out no later one.
LEMMA LatestOfPart ==
  ASSUME NEW S \in SUBSET Int, NEW b \in Int, \A x \in S : x <= b,
         NEW P \in SUBSET S, \A x \in S : \E y \in P : x <= y
  PROVE  /\ Latest(P) = Latest(S)
         /\ Latest(S) \in S \cup {Never} /\ \A x \in S : x <= Latest(S)
<1>. DEFINE top == IF b >= Never THEN b ELSE Never
            A == P \cup {Never}
            B == S \cup {Never}
<1>0. Never \in Int /\ top \in Int /\ A \in SUBSET Int /\ A # {} /\ \A x \in A : x <= top
  BY DEF Never
<1>1. PICK m \in A : \A y \in A : m >= y
  <2>. HIDE DEF A, top
  <2>. QED BY <1>0, Largest
<1>2. m \in B /\ \A y \in B : m >= y
  BY <1>0, <1>1
<1>3. B \in SUBSET Int
  BY <1>0
<1>4. Max(A) \in A /\ \A y \in A : Max(A) >= y
  BY <1>1 DEF Max
<1>5. Max(B) \in B /\ \A y \in B : Max(B) >= y
  BY <1>2 DEF Max
<1>. HIDE DEF A, B
<1>6. Max(A) = m
  <2>1. m \in Int /\ Max(A) \in Int /\ m >= Max(A) /\ Max(A) >= m
    BY <1>0, <1>1, <1>4
  <2>. QED BY <2>1
<1>7. Max(B) = m
  <2>1. m \in Int /\ Max(B) \in Int /\ m >= Max(B) /\ Max(B) >= m
    BY <1>2, <1>3, <1>5
  <2>. QED BY <2>1
<1>. USE DEF A, B
<1>. QED BY <1>2, <1>3, <1>6, <1>7 DEF Latest

\* Of some rows one was written last.
LEMMA LastExists ==
  ASSUME NEW S, S # {}, NEW n \in Int, \A r \in S : r.id \in Nat /\ r.id <= n /\ r.at \in Int /\ r.at < 0
  PROVE  \E r \in S : \A s \in S : Before(s, r)
<1>. DEFINE Stamps == {r.at : r \in S}
<1>1. PICK t \in Stamps : \A y \in Stamps : t >= y
  <2>1. Stamps \in SUBSET Int /\ Stamps # {} /\ 0 \in Int /\ \A x \in Stamps : x <= 0
    OBVIOUS
  <2>. HIDE DEF Stamps
  <2>. QED BY <2>1, Largest
<1>. DEFINE Latter == {r \in S : r.at = t}
            Numbers == {r.id : r \in Latter}
<1>2. PICK i \in Numbers : \A y \in Numbers : i >= y
  <2>1. Numbers \in SUBSET Int /\ Numbers # {} /\ \A x \in Numbers : x <= n
    OBVIOUS
  <2>. HIDE DEF Numbers
  <2>. QED BY <2>1, Largest
<1>3. PICK r \in S : r.at = t /\ r.id = i
  OBVIOUS
<1>4. ASSUME NEW s \in S PROVE Before(s, r)
  <2>1. t >= s.at
    BY <1>1
  <2>2. s.at = t => i >= s.id
    BY <1>2
  <2>. QED BY <1>3, <2>1, <2>2 DEF Before
<1>. QED BY <1>4

\* Two finite sets have as many elements if each of one belongs to one of the other.
LEMMA Paired ==
  ASSUME NEW S, NEW T, IsFiniteSet(T), NEW R,
         \A x \in S : \E q \in T : <<x, q>> \in R,
         \A q \in T : \E x \in S : <<x, q>> \in R,
         \A x \in S : \A q, p \in T : <<x, q>> \in R /\ <<x, p>> \in R => q = p,
         \A x, y \in S : \A q \in T : <<x, q>> \in R /\ <<y, q>> \in R => x = y
  PROVE  IsFiniteSet(S) /\ Cardinality(S) = Cardinality(T)
<1>. DEFINE f == [q \in T |-> CHOOSE x \in S : <<x, q>> \in R]
<1>1. \A q \in T : f[q] \in S /\ <<f[q], q>> \in R
  OBVIOUS
<1>2. f \in [T -> S]
  BY <1>1
<1>. HIDE DEF f
<1>3. ASSUME NEW x \in S PROVE \E q \in T : f[q] = x
  BY <1>1
<1>4. ASSUME NEW q \in T, NEW p \in T, f[q] = f[p] PROVE q = p
  BY <1>1, <1>4
<1>5. f \in Bijection(T, S)
  BY <1>2, <1>3, <1>4 DEF Bijection, Injection, Surjection, IsInjective
<1>. QED BY <1>5, FS_Bijection DEF ExistsBijection

\* The cost of a set of rows is their sum (store.go: SUM of the costs).
LEMMA TotalCost ==
  ASSUME NEW S, NEW h, SumOf(h, [x \in S |-> CostOf(x)], S), NEW T \in SUBSET S
  PROVE  Total(CostOf, T) = h[T]
<1>. DEFINE f == [x \in T |-> CostOf(x)]
            g == [x \in S |-> CostOf(x)]
<1>1. DOMAIN f = T /\ \A x \in T : f[x] = g[x]
  OBVIOUS
<1>2. Total(CostOf, T) = SumOver(f)
  BY DEF Total
<1>. HIDE DEF f, g
<1>3. SumOver(f) = h[T]
  <2>1. SumOf(h, g, S)
    BY DEF g
  <2>. QED BY <1>1, <2>1, SumOverIs
<1>. QED BY <1>2, <1>3

-----------------------------------------------------------------------------
(* What the queries say of them.                                            *)

Now == [usage |-> usage, errors |-> errors, req |-> count.req, id |-> count.id]

\* What LogsOK says of the rows of both logs, one field at a time.
LEMMA RowTypes ==
  ASSUME LogsOK(Now)
  PROVE  /\ IsFiniteSet(usage) /\ IsFiniteSet(errors)
         /\ count.req \in Nat /\ count.id \in Nat
         /\ \A r \in usage : /\ r.id \in Nat /\ r.id <= count.id /\ r.req \in 0..count.req
                             /\ r.account \in Accounts /\ r.at \in Int /\ r.at < 0
                             /\ Tokens(r) \in Nat /\ CostOf(r) \in Nat /\ ListCost(r) \in Nat
                             /\ r.final \in BOOLEAN
         /\ \A e \in errors : /\ e.id \in Nat /\ e.req \in 0..count.req
                              /\ e.account \in Accounts /\ e.at \in Int /\ e.at < 0
<1>1. /\ usage \subseteq UsageRecords /\ errors \subseteq ErrorRecords
      /\ IsFiniteSet(usage) /\ IsFiniteSet(errors)
      /\ count.req \in Nat /\ count.id \in Nat
  BY DEF LogsOK, LogTypes, Now
<1>2. ASSUME NEW r \in usage
      PROVE  /\ r.id \in Nat /\ r.id <= count.id /\ r.req \in 0..count.req
             /\ r.account \in Accounts /\ r.at \in Int /\ r.at < 0 /\ r.final \in BOOLEAN
             /\ r.input \in Nat /\ r.output \in Nat /\ r.inCost \in Nat /\ r.outCost \in Nat
             /\ r.rate \in Nat /\ r.actual \in Nat
  <2>1. RowOK(r, Now)
    BY DEF LogsOK, Now
  <2>2. TrafficWindow \in Nat
    BY CostsAssumption
  <2>. QED BY <1>1, <2>1, <2>2 DEF RowOK, Now, UsageRecords
<1>3. ASSUME NEW e \in errors
      PROVE  /\ e.id \in Nat /\ e.req \in 0..count.req
             /\ e.account \in Accounts /\ e.at \in Int /\ e.at < 0
  <2>1. RowOK(e, Now)
    BY DEF LogsOK, Now
  <2>2. TrafficWindow \in Nat
    BY CostsAssumption
  <2>. QED BY <1>1, <2>1, <2>2 DEF RowOK, Now, ErrorRecords
<1>4. ASSUME NEW r \in usage
      PROVE  Tokens(r) \in Nat /\ CostOf(r) \in Nat /\ ListCost(r) \in Nat
  <2>1. Tokens(r) \in Nat /\ ListCost(r) \in Nat
    BY <1>2 DEF Tokens, ListCost
  <2>2. ListCost(r) * r.rate \in Nat
    BY <1>2, <2>1
  <2>. QED BY <1>2, <2>1, <2>2 DEF CostOf
<1>. QED BY <1>1, <1>2, <1>3, <1>4

\* The rows a query keeps are those that bill a request.
LEMMA KeptRows ==
  ASSUME LogsOK(Now), NEW w \in Int
  PROVE  UsageRows(usage, -w) = {r \in Between(usage, -w) : r.final}
<1>. DEFINE U == Between(usage, -w)
<1>1. U \subseteq usage /\ \A r \in usage : r \in U <=> -w <= r.at /\ r.at < 0
  BY DEF Between
<1>2. \A r, s \in usage : UsageKey(r) = UsageKey(s) <=> r.req = s.req
  BY Keys DEF Now
<1>3. \A r \in usage : r.final <=> LastIn(r, usage)
  BY DEF LogsOK, Now
<1>. HIDE DEF U
<1>4. ASSUME NEW r \in U, r.final
      PROVE  r \in LastRows(U)
  BY <1>1, <1>2, <1>3, <1>4 DEF LastRows, LastIn
<1>5. ASSUME NEW r \in LastRows(U)
      PROVE  r \in U /\ r.final
  <2>1. r \in U /\ \A s \in U : s.account = r.account /\ UsageKey(s) = UsageKey(r) => Before(s, r)
    BY DEF LastRows
  <2>2. SUFFICES ASSUME NEW s \in usage, s.account = r.account, s.req = r.req PROVE Before(s, r)
    BY <1>1, <1>3, <2>1 DEF LastIn
  <2>3. r \in usage /\ -w <= r.at /\ r.at \in Int /\ s.at \in Int /\ s.at < 0
    BY <1>1, <2>1, RowTypes
  <2>4. CASE s.at >= r.at
    <3>1. s \in U
      BY <1>1, <2>2, <2>3, <2>4
    <3>. QED BY <1>2, <2>1, <2>2, <2>3, <3>1
  <2>5. CASE ~(s.at >= r.at)
    BY <2>3, <2>5 DEF Before
  <2>. QED BY <2>4, <2>5
<1>6. LastRows(U) = {r \in U : r.final}
  <2>1. LastRows(U) \subseteq U
    BY DEF LastRows
  <2>. QED BY <1>4, <1>5, <2>1
<1>. QED BY <1>6 DEF UsageRows, U

\* What is known of an account and a request from a time on, the rows a query
\* keeps know too.
LEMMA KeptAnswers ==
  ASSUME LogsOK(Now), NEW w \in Int, NEW r \in Between(usage, -w)
  PROVE  \E s \in Between(usage, -w) :
            s.final /\ s.account = r.account /\ s.req = r.req /\ r.at <= s.at
<1>. DEFINE U == Between(usage, -w)
            Same == {s \in U : s.account = r.account /\ s.req = r.req}
<1>1. PICK s \in Same : \A x \in Same : Before(x, s)
  <2>1. /\ Same # {} /\ count.id \in Int
        /\ \A x \in Same : x.id \in Nat /\ x.id <= count.id /\ x.at \in Int /\ x.at < 0
    BY RowTypes DEF Between
  <2>. HIDE DEF Same
  <2>. QED BY <2>1, LastExists
<1>2. \A x, y \in usage : UsageKey(x) = UsageKey(y) <=> x.req = y.req
  BY Keys DEF Now
<1>3. s \in LastRows(U)
  BY <1>1, <1>2 DEF LastRows, Between
<1>4. s.final
  BY <1>3, KeptRows DEF UsageRows
<1>5. r.at <= s.at
  <2>1. r \in Same /\ s \in Same
    OBVIOUS
  <2>2. Before(r, s) /\ r.at \in Int /\ s.at \in Int
    BY <1>1, <2>1, RowTypes DEF Between
  <2>. QED BY <2>2 DEF Before
<1>. QED BY <1>1, <1>4, <1>5

Mine(a, w) == {r \in UsageRows(usage, -w) : r.account = a}
Failed(a, w) == {e \in ErrorRequests(errors, -w) : e.account = a}
Final(a, w) == {e \in Failed(a, w) : ~Recovered(UsageRows(usage, -w), e)}

\* The query's result, field by field: billed rows are counted and summed,
\* failures that were recovered are told from those that were final.
LEMMA MetricsFields ==
  ASSUME NEW a, NEW w
  PROVE  LET m == Metrics(usage, errors, a, -w)
             priced == {r \in Mine(a, w) : IsPriced(r)}
         IN /\ m.priced = Cardinality(priced)
            /\ m.tokens = Total(Tokens, priced)
            /\ m.cost = Total(CostOf, Mine(a, w))
            /\ m.failures = Cardinality(Final(a, w))
            /\ m.recovered = Cardinality(Failed(a, w) \ Final(a, w))
            /\ m.takenOver = Cardinality({e \in Final(a, w) : TakenOver(UsageRows(usage, -w), e)})
            /\ m.trailing = Cardinality({e \in Final(a, w) :
                                           e.at > Latest({r.at : r \in Mine(a, w)})})
            /\ m.pools = PoolsOf(Mine(a, w))
<1>. DEFINE u == UsageOf(Mine(a, w))
            lastOk == Latest({r.at : r \in Mine(a, w)})
            f == ErrorsOf(Failed(a, w), Final(a, w), UsageRows(usage, -w), lastOk)
            p == [pools |-> PoolsOf(Mine(a, w))]
<1>1. Metrics(usage, errors, a, -w) = Joined(u, Joined(f, p))
  BY DEF Metrics, Mine, Failed, Final
<1>2. /\ DOMAIN u = {"successes", "priced", "tokens", "cost", "last"}
      /\ u.priced = Cardinality({r \in Mine(a, w) : IsPriced(r)})
      /\ u.tokens = Total(Tokens, {r \in Mine(a, w) : IsPriced(r)})
      /\ u.cost = Total(CostOf, Mine(a, w))
  BY DEF UsageOf
<1>3. /\ DOMAIN f = {"failures", "lastFailed", "trailing", "recovered", "limited", "takenOver"}
      /\ f.failures = Cardinality(Final(a, w))
      /\ f.recovered = Cardinality(Failed(a, w) \ Final(a, w))
      /\ f.takenOver = Cardinality({e \in Final(a, w) : TakenOver(UsageRows(usage, -w), e)})
      /\ f.trailing = Cardinality({e \in Final(a, w) : e.at > lastOk})
  BY DEF ErrorsOf
<1>4. DOMAIN p = {"pools"} /\ p.pools = PoolsOf(Mine(a, w))
  OBVIOUS
<1>. HIDE DEF u, f, p
<1>5. /\ DOMAIN Joined(f, p) = DOMAIN f \cup DOMAIN p
      /\ \A x \in DOMAIN f : Joined(f, p)[x] = f[x]
      /\ Joined(f, p)["pools"] = p.pools
  BY <1>3, <1>4 DEF Joined
<1>6. /\ \A x \in DOMAIN u : Joined(u, Joined(f, p))[x] = u[x]
      /\ \A x \in (DOMAIN f \cup DOMAIN p) \ DOMAIN u : Joined(u, Joined(f, p))[x] = Joined(f, p)[x]
  BY <1>5 DEF Joined
<1>. QED BY <1>1, <1>2, <1>3, <1>4, <1>5, <1>6

-----------------------------------------------------------------------------
(* Errors of a request become one record, for each account where it failed.  *)

Blames(a, w, q) == {x \in Between(errors, -w) : x.account = a /\ Blamed(x) /\ x.req = q}
FailureOf(a, w, e) ==
  [account |-> a, key |-> ErrorKey(e), at |-> LastFailure(a, w, e.req),
   limited |-> \E f \in Blames(a, w, e.req) : f.kind = "limited"]
Records(a, w) ==
  {<<FailureOf(a, w, e), e.req>> : e \in {x \in Between(errors, -w) : x.account = a /\ Blamed(x)}}

\* The failures of an account are its blamed errors, each replaced by the record
\* of its request: the time of the last and whether any was a limit.
LEMMA FailedRecords ==
  ASSUME LogsOK(Now), NEW w \in Int, NEW a
  PROVE  Failed(a, w) = {FailureOf(a, w, e) : e \in {x \in Between(errors, -w) : x.account = a /\ Blamed(x)}}
<1>. DEFINE V == {x \in Between(errors, -w) : x.account = a /\ Blamed(x)}
            blamed == {x \in Between(errors, -w) : Blamed(x)}
            Alike(e) == {f \in blamed : f.account = e.account /\ ErrorKey(f) = ErrorKey(e)}
            Record(e) == [account |-> e.account, key |-> ErrorKey(e),
                          at |-> Latest({f.at : f \in Alike(e)}),
                          limited |-> \E f \in Alike(e) : f.kind = "limited"]
<1>1. \A r, s \in errors : ErrorKey(r) = ErrorKey(s) <=> r.req = s.req
  BY Keys DEF Now
<1>2. ErrorRequests(errors, -w) = {Record(e) : e \in blamed}
  BY DEF ErrorRequests
<1>3. ASSUME NEW e \in V PROVE Record(e) = FailureOf(a, w, e)
  <2>1. Alike(e) = Blames(a, w, e.req)
    BY <1>1 DEF Blames, Between
  <2>2. {f.at : f \in Alike(e)} = {f.at : f \in Blames(a, w, e.req)}
    BY <2>1
  <2>3. LastFailure(a, w, e.req) = Latest({f.at : f \in Blames(a, w, e.req)})
    BY DEF LastFailure, Blames
  <2>. HIDE DEF Alike
  <2>. QED BY <2>1, <2>2, <2>3 DEF FailureOf
<1>4. ASSUME NEW e PROVE Record(e).account = e.account
  OBVIOUS
<1>5. V = {e \in blamed : e.account = a}
  OBVIOUS
<1>. HIDE DEF Record, V, blamed
<1>6. Failed(a, w) = {Record(e) : e \in V}
  BY <1>2, <1>4, <1>5 DEF Failed
<1>7. {Record(e) : e \in V} = {FailureOf(a, w, e) : e \in V}
  BY <1>3
<1>. QED BY <1>6, <1>7 DEF V

\* One record stands for one request and one request has one record, so counting
\* records of failures counts requests, however often each was logged.
LEMMA RecordsPair ==
  ASSUME LogsOK(Now), NEW w \in Int, NEW a
  PROVE  LET S == Failed(a, w)
             T == FailedRequests(a, w)
             R == Records(a, w)
         IN /\ \A x \in S : \E q \in T : <<x, q>> \in R
            /\ \A q \in T : \E x \in S : <<x, q>> \in R
            /\ \A x, q : <<x, q>> \in R => x \in S /\ q \in T
            /\ \A x, q, p : <<x, q>> \in R /\ <<x, p>> \in R => q = p
            /\ \A x, y, q : <<x, q>> \in R /\ <<y, q>> \in R => x = y
<1>. DEFINE V == {x \in Between(errors, -w) : x.account = a /\ Blamed(x)}
<1>1. Failed(a, w) = {FailureOf(a, w, e) : e \in V}
  BY FailedRecords
<1>2. FailedRequests(a, w) = {e.req : e \in V}
  BY DEF FailedRequests
<1>3. Records(a, w) = {<<FailureOf(a, w, e), e.req>> : e \in V}
  BY DEF Records
<1>4. \A r, s \in V : ErrorKey(r) = ErrorKey(s) <=> r.req = s.req
  BY Keys DEF Now, Between
<1>5. ASSUME NEW r \in V, NEW s \in V
      PROVE  /\ FailureOf(a, w, r) = FailureOf(a, w, s) => r.req = s.req
             /\ r.req = s.req => FailureOf(a, w, r) = FailureOf(a, w, s)
  <2>1. FailureOf(a, w, r).key = ErrorKey(r) /\ FailureOf(a, w, s).key = ErrorKey(s)
    BY DEF FailureOf
  <2>2. ASSUME r.req = s.req PROVE FailureOf(a, w, r) = FailureOf(a, w, s)
    <3>1. ErrorKey(r) = ErrorKey(s)
      BY <1>4, <2>2
    <3>. QED BY <2>2, <3>1 DEF FailureOf
  <2>. QED BY <1>4, <2>1, <2>2
<1>. HIDE DEF V
<1>. QED BY <1>1, <1>2, <1>3, <1>5

\* What a query finds of a failure is true of the request that failed.
LEMMA RecordsTrue ==
  ASSUME LogsOK(Now), NEW w \in Int, NEW a \in Accounts, NEW x, NEW q, <<x, q>> \in Records(a, w)
  PROVE  /\ x.at = LastFailure(a, w, q)
         /\ Recovered(UsageRows(usage, -w), x) <=> SucceededOn(a, w, q)
         /\ TakenOver(UsageRows(usage, -w), x) <=>
              \E b \in Accounts \ {a} : \E r \in Between(usage, -w) :
                 r.account = b /\ r.req = q /\ r.at >= LastFailure(a, w, q)
<1>1. PICK e \in Between(errors, -w) :
         x = FailureOf(a, w, e) /\ q = e.req /\ e.account = a /\ Blamed(e)
  BY DEF Records
<1>2. x.account = a /\ x.key = ErrorKey(e) /\ x.at = LastFailure(a, w, q)
  BY <1>1 DEF FailureOf
<1>3. /\ UsageRows(usage, -w) = {r \in Between(usage, -w) : r.final}
      /\ \A r \in Between(usage, -w) : \E s \in Between(usage, -w) :
            s.final /\ s.account = r.account /\ s.req = r.req /\ r.at <= s.at
  BY KeptRows, KeptAnswers
<1>4. \A r \in Between(usage, -w) : /\ UsageKey(r) = x.key <=> r.req = q
                                   /\ r.account \in Accounts /\ r.at \in Int
  BY <1>1, <1>2, Keys, RowTypes DEF Now, Between
<1>5. LastFailure(a, w, q) \in Int
  <2>. DEFINE S == {f.at : f \in Blames(a, w, q)}
  <2>1. S \in SUBSET Int /\ 0 \in Int /\ S \in SUBSET S /\ (\A y \in S : y <= 0) /\ \A y \in S : \E z \in S : y <= z
    BY RowTypes DEF Blames, Between
  <2>2. LastFailure(a, w, q) = Latest(S)
    BY DEF LastFailure, Blames
  <2>. HIDE DEF S
  <2>3. Latest(S) \in S \cup {Never}
    BY <2>1, LatestOfPart
  <2>4. Never \in Int /\ S \subseteq Int
    BY <2>1 DEF Never
  <2>. QED BY <2>2, <2>3, <2>4
<1>6. ASSUME NEW b \in Accounts
      PROVE  (\E s \in UsageRows(usage, -w) : s.account = b /\ Answers(s, x))
             <=> (\E r \in Between(usage, -w) :
                    r.account = b /\ r.req = q /\ r.at >= LastFailure(a, w, q))
  <2>1. ASSUME NEW s \in UsageRows(usage, -w), s.account = b, Answers(s, x)
        PROVE  \E r \in Between(usage, -w) : r.account = b /\ r.req = q /\ r.at >= LastFailure(a, w, q)
    BY <1>2, <1>3, <1>4, <2>1 DEF Answers
  <2>2. ASSUME NEW r \in Between(usage, -w), r.account = b, r.req = q, r.at >= LastFailure(a, w, q)
        PROVE  \E s \in UsageRows(usage, -w) : s.account = b /\ Answers(s, x)
    <3>1. PICK s \in Between(usage, -w) :
             s.final /\ s.account = r.account /\ s.req = r.req /\ r.at <= s.at
      BY <1>3
    <3>2. s.at >= LastFailure(a, w, q)
      BY <1>4, <1>5, <2>2, <3>1
    <3>. QED BY <1>2, <1>3, <1>4, <2>2, <3>1, <3>2 DEF Answers
  <2>. QED BY <2>1, <2>2
<1>7. Recovered(UsageRows(usage, -w), x) <=> SucceededOn(a, w, q)
  BY <1>2, <1>6 DEF Recovered, SucceededOn
<1>8. TakenOver(UsageRows(usage, -w), x) <=>
        \E b \in Accounts \ {a} : \E s \in UsageRows(usage, -w) : s.account = b /\ Answers(s, x)
  BY <1>2, <1>3, <1>4 DEF TakenOver
<1>. QED BY <1>2, <1>6, <1>7, <1>8

\* A request is billed once: of its rows on an account, by the last.
LEMMA BillsTrue ==
  ASSUME LogsOK(Now), NEW w \in Int, NEW a \in Accounts
  PROVE  /\ {r \in Mine(a, w) : IsPriced(r)} = Billed(a, w)
         /\ Total(CostOf, Mine(a, w)) = Total(CostOf, Billed(a, w))
         /\ IsFiniteSet(Mine(a, w))
<1>1. Mine(a, w) = {r \in Between(usage, -w) : r.final /\ r.account = a}
  BY KeptRows DEF Mine
<1>2. {r \in Mine(a, w) : IsPriced(r)} = Billed(a, w)
  BY <1>1 DEF Billed
<1>3. Mine(a, w) \subseteq usage /\ Billed(a, w) \in SUBSET Mine(a, w)
  BY <1>1, <1>2 DEF Between
<1>4. IsFiniteSet(Mine(a, w)) /\ \A r \in Mine(a, w) : CostOf(r) \in Nat
  BY <1>3, RowTypes, FS_Subset
<1>. DEFINE S == Mine(a, w)
            g == [x \in S |-> CostOf(x)]
<1>5. g \in [S -> Nat]
  BY <1>4
<1>6. PICK h : SumOf(h, g, S)
  <2>. HIDE DEF g, S
  <2>1. IsFiniteSet(S)
    BY <1>4 DEF S
  <2>. QED BY <1>5, <2>1, SumsExist
<1>7. Total(CostOf, S) = h[S] /\ Total(CostOf, Billed(a, w)) = h[Billed(a, w)]
  <2>1. SumOf(h, [x \in S |-> CostOf(x)], S) /\ S \in SUBSET S /\ Billed(a, w) \in SUBSET S
    BY <1>3, <1>6
  <2>. HIDE DEF S, g
  <2>. QED BY <2>1, TotalCost
<1>8. \A x \in S \ Billed(a, w) : g[x] = 0
  <2>1. \A x \in S : CostOf(x) \in Nat /\ (x \notin Billed(a, w) => ~(CostOf(x) > 0))
    BY <1>2, <1>4 DEF IsPriced
  <2>. QED BY <2>1
<1>9. h[Billed(a, w)] = h[S]
  <2>1. Adds(h, g, S) /\ S \in SUBSET S /\ Billed(a, w) \in SUBSET S /\ IsFiniteSet(S)
    BY <1>3, <1>4, <1>6 DEF SumOf
  <2>. HIDE DEF S, g
  <2>. QED BY <1>5, <1>8, <2>1, AddsParts
<1>. QED BY <1>2, <1>4, <1>7, <1>9

\* A query counts each request of an account once, bills the row that is last,
\* and counts as failed what was not answered by that account after it failed.
LEMMA QueryTrue ==
  ASSUME LogsOK(Now), NEW w \in Int, NEW a \in Accounts
  PROVE  LET m == Metrics(usage, errors, a, -w)
         IN /\ m.priced = Cardinality(Billed(a, w))
            /\ m.tokens = Total(Tokens, Billed(a, w))
            /\ m.cost = Total(CostOf, Billed(a, w))
            /\ m.failures = Cardinality(LostRequests(a, w))
            /\ m.recovered = Cardinality(FailedRequests(a, w)) - m.failures
            /\ m.takenOver = Cardinality(SavedElsewhere(a, w))
            /\ m.trailing = Cardinality({q \in LostRequests(a, w) :
                                           LastFailure(a, w, q) > LastAnswer(a, w)})
<1>. DEFINE m == Metrics(usage, errors, a, -w)
            R == Records(a, w)
            S == Failed(a, w)
            T == FailedRequests(a, w)
            rows == UsageRows(usage, -w)
<1>0. /\ \A x \in S : \E q \in T : <<x, q>> \in R
      /\ \A q \in T : \E x \in S : <<x, q>> \in R
      /\ \A x, q : <<x, q>> \in R => x \in S /\ q \in T
      /\ \A x, q, p : <<x, q>> \in R /\ <<x, p>> \in R => q = p
      /\ \A x, y, q : <<x, q>> \in R /\ <<y, q>> \in R => x = y
  BY RecordsPair
<1>1. \A x, q : <<x, q>> \in R =>
        /\ x.at = LastFailure(a, w, q)
        /\ Recovered(rows, x) <=> SucceededOn(a, w, q)
        /\ TakenOver(rows, x) <=>
             \E b \in Accounts \ {a} : \E r \in Between(usage, -w) :
                 r.account = b /\ r.req = q /\ r.at >= LastFailure(a, w, q)
  BY RecordsTrue
<1>2. IsFiniteSet(T)
  <2>1. count.req \in Nat /\ \A e \in errors : e.req \in 0..count.req
    BY RowTypes
  <2>2. T \in SUBSET (0..count.req)
    BY <2>1 DEF FailedRequests, Between
  <2>3. IsFiniteSet(0..count.req)
    BY <2>1, FS_Interval
  <2>. HIDE DEF T
  <2>. QED BY <2>2, <2>3, FS_Subset
<1>3. LastAnswer(a, w) = Latest({r.at : r \in Mine(a, w)})
  <2>. DEFINE A == {r.at : r \in {x \in Between(usage, -w) : x.account = a}}
              P == {r.at : r \in Mine(a, w)}
  <2>1. Mine(a, w) = {r \in Between(usage, -w) : r.final /\ r.account = a}
    BY KeptRows DEF Mine
  <2>2. A \in SUBSET Int /\ 0 \in Int /\ P \in SUBSET A /\ \A y \in A : y <= 0
    BY <2>1, RowTypes DEF Between
  <2>3. ASSUME NEW y \in A PROVE \E z \in P : y <= z
    <3>1. PICK r \in Between(usage, -w) : r.account = a /\ y = r.at
      OBVIOUS
    <3>2. PICK s \in Between(usage, -w) : s.final /\ s.account = r.account /\ r.at <= s.at
      BY KeptAnswers
    <3>. QED BY <2>1, <3>1, <3>2
  <2>4. LastAnswer(a, w) = Latest(A)
    BY DEF LastAnswer
  <2>. HIDE DEF A, P
  <2>5. Latest(P) = Latest(A)
    BY <2>2, <2>3, LatestOfPart
  <2>. QED BY <2>4, <2>5 DEF P
<1>4. /\ Final(a, w) = {x \in S : ~Recovered(rows, x)}
      /\ LostRequests(a, w) = {q \in T : ~SucceededOn(a, w, q)}
      /\ SavedElsewhere(a, w) =
           {q \in LostRequests(a, w) : \E b \in Accounts \ {a} : \E r \in Between(usage, -w) :
              r.account = b /\ r.req = q /\ r.at >= LastFailure(a, w, q)}
  BY DEF Final, LostRequests, SavedElsewhere
<1>. DEFINE Late == {x \in Final(a, w) : x.at > Latest({r.at : r \in Mine(a, w)})}
            Saved == {x \in Final(a, w) : TakenOver(rows, x)}
            LateRequests == {q \in LostRequests(a, w) : LastFailure(a, w, q) > LastAnswer(a, w)}
<1>5. \A x, q : <<x, q>> \in R => /\ x \in Final(a, w) <=> q \in LostRequests(a, w)
                                  /\ x \in Late <=> q \in LateRequests
                                  /\ x \in Saved <=> q \in SavedElsewhere(a, w)
  <2>. HIDE DEF R, S, T, rows
  <2>. QED BY <1>0, <1>1, <1>3, <1>4
<1>6. /\ Final(a, w) \subseteq S /\ Late \subseteq S /\ Saved \subseteq S
      /\ LostRequests(a, w) \in SUBSET T /\ LateRequests \in SUBSET T /\ SavedElsewhere(a, w) \in SUBSET T
  BY <1>4
<1>7. m.priced = Cardinality({r \in Mine(a, w) : IsPriced(r)})
      /\ m.tokens = Total(Tokens, {r \in Mine(a, w) : IsPriced(r)})
      /\ m.cost = Total(CostOf, Mine(a, w))
      /\ m.failures = Cardinality(Final(a, w))
      /\ m.recovered = Cardinality(S \ Final(a, w))
      /\ m.takenOver = Cardinality(Saved)
      /\ m.trailing = Cardinality(Late)
  BY MetricsFields
<1>. HIDE DEF m, R, S, T, rows, Late, Saved, LateRequests
<1>8. ASSUME NEW s, NEW t, s \subseteq S, t \in SUBSET T,
             \A x, q : <<x, q>> \in R => (x \in s <=> q \in t)
      PROVE  IsFiniteSet(s) /\ Cardinality(s) = Cardinality(t)
  <2>1. IsFiniteSet(t)
    BY <1>2, <1>8, FS_Subset
  <2>2. /\ \A x \in s : \E q \in t : <<x, q>> \in R
        /\ \A q \in t : \E x \in s : <<x, q>> \in R
        /\ \A x \in s : \A q, p \in t : <<x, q>> \in R /\ <<x, p>> \in R => q = p
        /\ \A x, y \in s : \A q \in t : <<x, q>> \in R /\ <<y, q>> \in R => x = y
    BY <1>0, <1>8
  <2>. QED BY <2>1, <2>2, Paired
<1>9. /\ Cardinality(Final(a, w)) = Cardinality(LostRequests(a, w))
      /\ Cardinality(Late) = Cardinality(LateRequests)
      /\ Cardinality(Saved) = Cardinality(SavedElsewhere(a, w))
      /\ IsFiniteSet(S) /\ Cardinality(S) = Cardinality(T)
  <2>1. S \subseteq S /\ T \in SUBSET T /\ \A x, q : <<x, q>> \in R => (x \in S <=> q \in T)
    BY <1>0
  <2>2. IsFiniteSet(S) /\ Cardinality(S) = Cardinality(T)
    BY <1>8, <2>1
  <2>3. Cardinality(Final(a, w)) = Cardinality(LostRequests(a, w))
    BY <1>5, <1>6, <1>8
  <2>4. Cardinality(Late) = Cardinality(LateRequests)
    BY <1>5, <1>6, <1>8
  <2>5. Cardinality(Saved) = Cardinality(SavedElsewhere(a, w))
    BY <1>5, <1>6, <1>8
  <2>. QED BY <2>2, <2>3, <2>4, <2>5
<1>10. Cardinality(S \ Final(a, w)) = Cardinality(S) - Cardinality(Final(a, w))
  <2>1. S \cap Final(a, w) = Final(a, w)
    BY <1>6
  <2>2. Cardinality(S \ Final(a, w)) = Cardinality(S) - Cardinality(S \cap Final(a, w))
    BY <1>9, FS_Difference
  <2>. QED BY <2>1, <2>2
<1>11. /\ {r \in Mine(a, w) : IsPriced(r)} = Billed(a, w)
       /\ Total(CostOf, Mine(a, w)) = Total(CostOf, Billed(a, w))
  BY BillsTrue
<1>12. T = FailedRequests(a, w)
  BY DEF T
<1>. QED BY <1>7, <1>9, <1>10, <1>11, <1>12 DEF m, LateRequests
-----------------------------------------------------------------------------
(* The logs stay like that.                                                 *)

\* The rows of a story are finitely many.
LEMMA ImageFinite ==
  ASSUME NEW n \in Nat, NEW f, DOMAIN f = 1..n
  PROVE  IsFiniteSet({f[i] : i \in 1..n})
<1>. DEFINE T == {f[i] : i \in 1..n}
            g == [i \in 1..n |-> f[i]]
<1>1. IsFiniteSet(1..n)
  BY FS_Interval
<1>2. g \in Surjection(1..n, T)
  BY DEF Surjection
<1>. QED BY <1>1, <1>2, FS_Surjection

\* Ids are missing from a row only in the form that names nothing.
LEMMA IdForms ==
  ASSUME NEW f \in Forms, NEW n \in Nat
  PROVE  /\ Ids(f, n).client \in IdRecords /\ Ids(f, n).request \in IdRecords
         /\ Ids(f, n).client = NoId /\ Ids(f, n).request = NoId <=> f = "none"
<1>1. \A p \in BOOLEAN : Named(n, p) # NoId
  BY DEF Named, NoId
<1>2. NoId \in IdRecords /\ \A p \in BOOLEAN : Named(n, p) \in IdRecords
  BY DEF IdRecords
<1>3. CASE f = "client"
  BY <1>1, <1>2, <1>3 DEF Ids
<1>4. CASE f = "prefixed"
  BY <1>1, <1>2, <1>4 DEF Ids
<1>5. CASE f = "server"
  BY <1>1, <1>2, <1>5 DEF Ids
<1>6. CASE f = "none"
  BY <1>2, <1>6 DEF Ids
<1>. QED BY <1>3, <1>4, <1>5, <1>6 DEF Forms

\* A usage row of a new story is a row of the log: its request and its id are
\* new and it lies within the window that the queries read.
LEMMA ToldRows ==
  ASSUME env \in DOMAIN Environments, NEW w, w.req \in Nat, w.id \in Nat,
         NEW s, Story(s), NEW i \in DOMAIN s.rows
  PROVE  LET r == UsageRow(s.rows[i], w.req + s.rows[i].of, w.id + i)
         IN /\ r \in UsageRecords /\ RowOK(r, Told(w, s))
            /\ r.req = w.req + s.rows[i].of /\ r.req > w.req
            /\ r.id = w.id + i /\ r.id > w.id /\ i \in Nat
            /\ r.account = s.rows[i].account /\ r.at = -s.rows[i].back /\ s.rows[i].back \in Nat
            /\ r.final = s.rows[i].final
            /\ Nameless(r) <=> s.rows[i].ids = "none"
<1>. DEFINE t == s.rows[i]
            n == w.req + t.of
            r == UsageRow(t, n, w.id + i)
<1>1. /\ t.of \in 1..s.requests /\ s.requests \in Nat /\ t.ids \in Forms
      /\ t.back \in 1..TrafficWindow /\ t.pool \in Pools /\ t.account \in Accounts
      /\ t.input \in Nat /\ t.output \in Nat
      /\ t.inCost \in Nat /\ t.outCost \in Nat /\ t.actual \in Nat /\ t.final \in BOOLEAN
  BY DEF Story
<1>2. i \in 1..Len(s.rows) /\ Len(s.rows) \in Nat /\ Len(s.errors) \in Nat
  BY DEF Story, IsList
<1>3. E.rates[t.account] \in Nat
  <2>1. Environment(E)
    BY ScoresAssumption DEF E
  <2>. QED BY <1>1, <2>1 DEF Environment
<1>4. n \in Nat /\ n > w.req /\ n <= w.req + s.requests
  BY <1>1
<1>5. w.id + i \in Nat /\ w.id + i > w.id /\ w.id + i <= w.id + Len(s.rows) + Len(s.errors)
  BY <1>2
<1>6. /\ Ids(t.ids, n).client \in IdRecords /\ Ids(t.ids, n).request \in IdRecords
      /\ Ids(t.ids, n).client = NoId /\ Ids(t.ids, n).request = NoId <=> t.ids = "none"
  BY <1>1, <1>4, IdForms
<1>. HIDE DEF t, n
<1>7. TrafficWindow \in Nat /\ -t.back \in (-TrafficWindow)..(-1) /\ t.back \in Nat /\ -t.back \in Int
  BY <1>1, CostsAssumption
<1>8. /\ r.id = w.id + i /\ r.req = n /\ r.account = t.account /\ r.at = -t.back
      /\ r.final = t.final /\ r.client = Ids(t.ids, n).client /\ r.request = Ids(t.ids, n).request
  BY DEF UsageRow
<1>9. r \in UsageRecords
  BY <1>1, <1>3, <1>4, <1>5, <1>6, <1>7 DEF UsageRow, UsageRecords
<1>10. Told(w, s).req = w.req + s.requests /\ Told(w, s).id = w.id + Len(s.rows) + Len(s.errors)
  BY DEF Told
<1>. HIDE DEF r
<1>11. Names(r)
  BY <1>1, <1>8 DEF Names
<1>12. RowOK(r, Told(w, s))
  BY <1>4, <1>5, <1>7, <1>8, <1>10, <1>11 DEF RowOK
<1>13. Nameless(r) <=> t.ids = "none"
  BY <1>6, <1>8 DEF Nameless
<1>. QED BY <1>2, <1>4, <1>5, <1>7, <1>8, <1>9, <1>12, <1>13 DEF r, n, t

\* An error of a new story is a row of the other log, with a request and an id
\* that are new.
LEMMA ToldErrors ==
  ASSUME NEW w, w.req \in Nat, w.id \in Nat,
         NEW s, Story(s), NEW i \in DOMAIN s.errors
  PROVE  LET r == ErrorRow(s.errors[i], w.req + s.errors[i].of, w.id + i)
         IN /\ r \in ErrorRecords /\ RowOK(r, Told(w, s))
            /\ r.req = w.req + s.errors[i].of /\ r.req > w.req
            /\ r.id = w.id + i /\ r.id > w.id /\ i \in Nat
            /\ Nameless(r) <=> s.errors[i].ids = "none"
<1>. DEFINE t == s.errors[i]
            n == w.req + t.of
            r == ErrorRow(t, n, w.id + i)
<1>1. /\ t.of \in 1..s.requests /\ s.requests \in Nat /\ t.ids \in Forms
      /\ t.back \in 1..TrafficWindow /\ t.kind \in ErrorKinds /\ t.account \in Accounts
  BY DEF Story
<1>2. i \in 1..Len(s.errors) /\ Len(s.rows) \in Nat /\ Len(s.errors) \in Nat
  BY DEF Story, IsList
<1>4. n \in Nat /\ n > w.req /\ n <= w.req + s.requests
  BY <1>1
<1>5. w.id + i \in Nat /\ w.id + i > w.id /\ w.id + i <= w.id + Len(s.rows) + Len(s.errors)
  BY <1>2
<1>6. /\ Ids(t.ids, n).client \in IdRecords /\ Ids(t.ids, n).request \in IdRecords
      /\ Ids(t.ids, n).client = NoId /\ Ids(t.ids, n).request = NoId <=> t.ids = "none"
  BY <1>1, <1>4, IdForms
<1>. HIDE DEF t, n
<1>7. TrafficWindow \in Nat /\ -t.back \in (-TrafficWindow)..(-1) /\ -t.back \in Int
  BY <1>1, CostsAssumption
<1>8. /\ r.id = w.id + i /\ r.req = n /\ r.at = -t.back
      /\ r.client = Ids(t.ids, n).client /\ r.request = Ids(t.ids, n).request
  BY DEF ErrorRow
<1>9. r \in ErrorRecords
  BY <1>1, <1>4, <1>5, <1>6, <1>7 DEF ErrorRow, ErrorRecords
<1>10. Told(w, s).req = w.req + s.requests /\ Told(w, s).id = w.id + Len(s.rows) + Len(s.errors)
  BY DEF Told
<1>. HIDE DEF r
<1>11. Names(r)
  BY <1>1, <1>8 DEF Names
<1>12. RowOK(r, Told(w, s))
  BY <1>4, <1>5, <1>7, <1>8, <1>10, <1>11 DEF RowOK
<1>13. Nameless(r) <=> t.ids = "none"
  BY <1>6, <1>8 DEF Nameless
<1>. QED BY <1>2, <1>4, <1>5, <1>8, <1>9, <1>12, <1>13 DEF r, n, t

\* Logging the rows of one more story keeps the logs consistent: requests stay
\* distinct, one row of a request is the last for an account, and rows without
\* ids stand alone.
LEMMA ToldKeeps ==
  ASSUME env \in DOMAIN Environments, NEW w, LogsOK(w), NEW s, Story(s)
  PROVE  LogsOK(Told(w, s))
<1>. DEFINE U(i) == UsageRow(s.rows[i], w.req + s.rows[i].of, w.id + i)
            V(i) == ErrorRow(s.errors[i], w.req + s.errors[i].of, w.id + i)
            D == DOMAIN s.rows
            F == DOMAIN s.errors
            nu == {U(i) : i \in D}
            ne == {V(i) : i \in F}
            x == Told(w, s)
<1>1. /\ x.usage = w.usage \cup nu /\ x.errors = w.errors \cup ne
      /\ x.req = w.req + s.requests /\ x.id = w.id + Len(s.rows) + Len(s.errors)
  BY DEF Told
<1>2. w.req \in Nat /\ w.id \in Nat /\ IsFiniteSet(w.usage) /\ IsFiniteSet(w.errors)
  BY DEF LogsOK, LogTypes
<1>3. /\ \A r \in w.usage : /\ r \in UsageRecords /\ RowOK(r, w) /\ r.req \in Nat /\ r.id \in Nat
                            /\ r.req <= w.req /\ r.id <= w.id
      /\ \A e \in w.errors : /\ e \in ErrorRecords /\ RowOK(e, w) /\ e.req \in Nat /\ e.id \in Nat
                             /\ e.req <= w.req /\ e.id <= w.id
  BY DEF LogsOK, LogTypes, RowOK, UsageRecords, ErrorRecords
<1>4. /\ Len(s.rows) \in Nat /\ D = 1..Len(s.rows) /\ Len(s.errors) \in Nat /\ F = 1..Len(s.errors)
      /\ s.requests \in Nat
  BY DEF Story, IsList
<1>5. \A i \in D : /\ U(i) \in UsageRecords /\ RowOK(U(i), x)
                   /\ U(i).req = w.req + s.rows[i].of /\ U(i).req > w.req
                   /\ U(i).id = w.id + i /\ U(i).id > w.id /\ i \in Nat
                   /\ U(i).account = s.rows[i].account
                   /\ U(i).at = -s.rows[i].back /\ s.rows[i].back \in Nat
                   /\ U(i).final = s.rows[i].final
                   /\ Nameless(U(i)) <=> s.rows[i].ids = "none"
  BY <1>2, ToldRows
<1>6. \A i \in F : /\ V(i) \in ErrorRecords /\ RowOK(V(i), x)
                   /\ V(i).req = w.req + s.errors[i].of /\ V(i).req > w.req
                   /\ V(i).id = w.id + i /\ V(i).id > w.id /\ i \in Nat
                   /\ Nameless(V(i)) <=> s.errors[i].ids = "none"
  BY <1>2, ToldErrors
<1>7. x.req \in Nat /\ x.id \in Nat /\ x.req >= w.req /\ x.id >= w.id
  BY <1>1, <1>2, <1>4
<1>8. IsFiniteSet(nu) /\ IsFiniteSet(ne)
  <2>. DEFINE f == [i \in D |-> U(i)]
              g == [i \in F |-> V(i)]
  <2>1. nu = {f[i] : i \in D} /\ ne = {g[i] : i \in F} /\ DOMAIN f = D /\ DOMAIN g = F
    OBVIOUS
  <2>. HIDE DEF f, g, nu, ne, D, F
  <2>2. IsFiniteSet({f[i] : i \in D})
    BY <1>4, <2>1, ImageFinite
  <2>3. IsFiniteSet({g[i] : i \in F})
    BY <1>4, <2>1, ImageFinite
  <2>. QED BY <2>1, <2>2, <2>3
<1>9. \A i \in D : /\ s.rows[i].of \in Int
                   /\ s.rows[i].final <=> LastOf(s.rows, i)
                   /\ s.rows[i].ids = "none" => Alone(s.rows, i, s.errors)
  BY DEF Story
<1>10. \A i \in F : /\ s.errors[i].of \in Int
                    /\ s.errors[i].ids = "none" => Alone(s.errors, i, s.rows)
  BY DEF Story
<1>. HIDE DEF U, V, D, F, x
<1>11. LogTypes(x)
  <2>. HIDE DEF nu, ne
  <2>1. IsFiniteSet(w.usage \cup nu)
    BY <1>2, <1>8, FS_Union
  <2>2. IsFiniteSet(w.errors \cup ne)
    BY <1>2, <1>8, FS_Union
  <2>. USE DEF nu, ne
  <2>. QED BY <1>1, <1>3, <1>5, <1>6, <1>7, <2>1, <2>2 DEF LogTypes
<1>12. \A r \in x.usage : RowOK(r, x)
  BY <1>1, <1>2, <1>3, <1>5, <1>7 DEF RowOK
<1>13. \A e \in x.errors : RowOK(e, x)
  BY <1>1, <1>2, <1>3, <1>6, <1>7 DEF RowOK
<1>14. OneEach(x.usage)
  <2>1. OneEach(w.usage)
    BY DEF LogsOK
  <2>2. ASSUME NEW r \in x.usage, NEW z \in x.usage, r.id = z.id PROVE r = z
    <3>1. CASE r \in w.usage /\ z \in w.usage
      BY <2>1, <2>2, <3>1 DEF OneEach
    <3>2. CASE r \in w.usage /\ z \in nu
      BY <1>2, <1>3, <1>5, <2>2, <3>2
    <3>3. CASE r \in nu /\ z \in w.usage
      BY <1>2, <1>3, <1>5, <2>2, <3>3
    <3>4. CASE r \in nu /\ z \in nu
      BY <1>2, <1>5, <2>2, <3>4
    <3>. QED BY <1>1, <3>1, <3>2, <3>3, <3>4
  <2>. QED BY <2>2 DEF OneEach
<1>15. OneEach(x.errors)
  <2>1. OneEach(w.errors)
    BY DEF LogsOK
  <2>2. ASSUME NEW r \in x.errors, NEW z \in x.errors, r.id = z.id PROVE r = z
    <3>1. CASE r \in w.errors /\ z \in w.errors
      BY <2>1, <2>2, <3>1 DEF OneEach
    <3>2. CASE r \in w.errors /\ z \in ne
      BY <1>2, <1>3, <1>6, <2>2, <3>2
    <3>3. CASE r \in ne /\ z \in w.errors
      BY <1>2, <1>3, <1>6, <2>2, <3>3
    <3>4. CASE r \in ne /\ z \in ne
      BY <1>2, <1>6, <2>2, <3>4
    <3>. QED BY <1>1, <3>1, <3>2, <3>3, <3>4
  <2>. QED BY <2>2 DEF OneEach
<1>16. \A r \in x.usage : r.final <=> LastIn(r, x.usage)
  <2>1. ASSUME NEW r \in w.usage PROVE r.final <=> LastIn(r, x.usage)
    <3>1. \A z \in nu : z.req # r.req
      BY <1>2, <1>3, <1>5
    <3>2. LastIn(r, x.usage) <=> LastIn(r, w.usage)
      BY <1>1, <3>1 DEF LastIn
    <3>. QED BY <3>2 DEF LogsOK
  <2>2. ASSUME NEW i \in D PROVE U(i).final <=> LastIn(U(i), x.usage)
    <3>1. \A z \in w.usage : z.req # U(i).req
      BY <1>2, <1>3, <1>5
    <3>2. ASSUME NEW j \in D
          PROVE  /\ U(j).account = U(i).account /\ U(j).req = U(i).req <=>
                      s.rows[j].of = s.rows[i].of /\ s.rows[j].account = s.rows[i].account
                 /\ Before(U(j), U(i)) <=>
                      s.rows[j].back > s.rows[i].back \/ (s.rows[j].back = s.rows[i].back /\ j <= i)
      <4>1. /\ s.rows[i].of \in Int /\ s.rows[j].of \in Int
            /\ s.rows[i].back \in Nat /\ s.rows[j].back \in Nat /\ i \in Nat /\ j \in Nat
        BY <1>5, <1>9
      <4>2. U(j).req = U(i).req <=> s.rows[j].of = s.rows[i].of
        BY <1>2, <1>5, <4>1
      <4>3. /\ U(j).at < U(i).at <=> s.rows[j].back > s.rows[i].back
            /\ U(j).at = U(i).at <=> s.rows[j].back = s.rows[i].back
            /\ U(j).id <= U(i).id <=> j <= i
        BY <1>2, <1>5, <4>1
      <4>. QED BY <1>5, <4>2, <4>3 DEF Before
    <3>3. LastIn(U(i), x.usage) <=> LastOf(s.rows, i)
      BY <1>1, <3>1, <3>2 DEF LastIn, LastOf, D
    <3>. QED BY <1>5, <1>9, <3>3
  <2>. QED BY <1>1, <2>1, <2>2
<1>17. \A r \in x.usage : Nameless(r) => Lonely(r, x.usage, x.errors)
  <2>1. ASSUME NEW r \in w.usage, Nameless(r) PROVE Lonely(r, x.usage, x.errors)
    <3>1. \A z \in nu \cup ne : z.req # r.req
      BY <1>2, <1>3, <1>5, <1>6
    <3>2. Lonely(r, w.usage, w.errors)
      BY <2>1 DEF LogsOK
    <3>. QED BY <1>1, <3>1, <3>2 DEF Lonely
  <2>2. ASSUME NEW i \in D, Nameless(U(i)) PROVE Lonely(U(i), x.usage, x.errors)
    <3>1. \A z \in w.usage \cup w.errors : z.req # U(i).req
      BY <1>2, <1>3, <1>5
    <3>2. Alone(s.rows, i, s.errors)
      BY <1>5, <1>9, <2>2
    <3>3. ASSUME NEW j \in D, U(j).req = U(i).req PROVE U(j) = U(i)
      <4>1. s.rows[j].of = s.rows[i].of
        BY <1>2, <1>5, <1>9, <3>3
      <4>. QED BY <3>2, <4>1 DEF Alone, D
    <3>4. ASSUME NEW j \in F PROVE V(j).req # U(i).req
      <4>1. s.errors[j].of # s.rows[i].of
        BY <3>2 DEF Alone, F
      <4>. QED BY <1>2, <1>5, <1>6, <1>9, <1>10, <4>1
    <3>. QED BY <1>1, <3>1, <3>3, <3>4 DEF Lonely
  <2>. QED BY <1>1, <2>1, <2>2
<1>18. \A e \in x.errors : Nameless(e) => Lonely(e, x.errors, x.usage)
  <2>1. ASSUME NEW r \in w.errors, Nameless(r) PROVE Lonely(r, x.errors, x.usage)
    <3>1. \A z \in nu \cup ne : z.req # r.req
      BY <1>2, <1>3, <1>5, <1>6
    <3>2. Lonely(r, w.errors, w.usage)
      BY <2>1 DEF LogsOK
    <3>. QED BY <1>1, <3>1, <3>2 DEF Lonely
  <2>2. ASSUME NEW i \in F, Nameless(V(i)) PROVE Lonely(V(i), x.errors, x.usage)
    <3>1. \A z \in w.usage \cup w.errors : z.req # V(i).req
      BY <1>2, <1>3, <1>6
    <3>2. Alone(s.errors, i, s.rows)
      BY <1>6, <1>10, <2>2
    <3>3. ASSUME NEW j \in F, V(j).req = V(i).req PROVE V(j) = V(i)
      <4>1. s.errors[j].of = s.errors[i].of
        BY <1>2, <1>6, <1>10, <3>3
      <4>. QED BY <3>2, <4>1 DEF Alone, F
    <3>4. ASSUME NEW j \in D PROVE U(j).req # V(i).req
      <4>1. s.rows[j].of # s.errors[i].of
        BY <3>2 DEF Alone, D
      <4>. QED BY <1>2, <1>5, <1>6, <1>9, <1>10, <4>1
    <3>. QED BY <1>1, <3>1, <3>3, <3>4 DEF Lonely
  <2>. QED BY <1>1, <2>1, <2>2
<1>. QED BY <1>11, <1>12, <1>13, <1>14, <1>15, <1>16, <1>17, <1>18 DEF LogsOK, x

\* A finite set is listed by a function.
LEMMA ListsAll ==
  ASSUME NEW S, IsFiniteSet(S)
  PROVE  /\ SetToSeq(S) \in [1..Cardinality(S) -> S]
         /\ \A i, j \in 1..Cardinality(S) : SetToSeq(S)[i] = SetToSeq(S)[j] => i = j
         /\ Cardinality(S) \in Nat
<1>1. Cardinality(S) \in Nat /\ ExistsBijection(1..Cardinality(S), S)
  BY FS_CardinalityType
<1>2. PICK f : f \in Bijection(1..Cardinality(S), S)
  BY <1>1 DEF ExistsBijection
<1>. DEFINE D == 1..Cardinality(S)
            OneToOne(g) == \A i, j \in DOMAIN g : g[i] = g[j] => i = j
<1>3. f \in [D -> S] /\ OneToOne(f)
  BY <1>2 DEF Bijection, Injection, IsInjective
<1>4. SetToSeq(S) = CHOOSE g \in [D -> S] : OneToOne(g)
  BY DEF SetToSeq, IsInjective
<1>. HIDE DEF OneToOne, D
<1>5. SetToSeq(S) \in [D -> S] /\ OneToOne(SetToSeq(S))
  BY <1>3, <1>4
<1>6. \A i, j \in D : SetToSeq(S)[i] = SetToSeq(S)[j] => i = j
  BY <1>5 DEF OneToOne
<1>. QED BY <1>1, <1>5, <1>6 DEF D

Books == [usage : SUBSET UsageRecords, errors : SUBSET ErrorRecords, req : Nat, id : Nat]
\* What the logs may be after some stories more.
After(w) == {x \in Books : LogsOK(x) /\ w.usage \subseteq x.usage}

\* One story more only adds usage rows, so a row that was billed remains.
LEMMA ToldAfter ==
  ASSUME env \in DOMAIN Environments, NEW w, NEW x \in After(w), NEW s, Story(s)
  PROVE  Told(x, s) \in After(w)
<1>1. LogsOK(Told(x, s))
  BY ToldKeeps DEF After
<1>2. /\ Told(x, s).usage \subseteq UsageRecords /\ Told(x, s).errors \subseteq ErrorRecords
      /\ Told(x, s).req \in Nat /\ Told(x, s).id \in Nat
  BY <1>1 DEF LogsOK, LogTypes
<1>3. Told(x, s) = [usage |-> Told(x, s).usage, errors |-> Told(x, s).errors,
                    req |-> Told(x, s).req, id |-> Told(x, s).id]
  BY DEF Told
<1>4. x.usage \subseteq Told(x, s).usage
  BY DEF Told
<1>5. Told(x, s) \in Books
  BY <1>2, <1>3 DEF Books
<1>. QED BY <1>1, <1>4, <1>5 DEF After

LogAll(w, stories) == FoldLeft(Told, w, SetToSeq(stories))

\* Logging any finite set of stories, in the order the model takes them, keeps
\* the logs consistent and removes no usage row.
LEMMA LogKeeps ==
  ASSUME env \in DOMAIN Environments, NEW w \in Books, LogsOK(w),
         NEW stories, IsFiniteSet(stories), \A s \in stories : Story(s)
  PROVE  LogAll(w, stories) \in After(w)
<1>. DEFINE seq == SetToSeq(stories)
            n == Cardinality(stories)
            D == 1..n
            W == After(w)
            c == [s \in (SUBSET D) \ {{}} |-> Max(s)]
            f == [p \in D \X W |-> Told(p[2], seq[p[1]])]
            Run(k) == k = [s \in SUBSET D |-> IF s = {} THEN w ELSE Told(k[s \ {Max(s)}], seq[Max(s)])]
            it == CHOOSE k : Run(k)
<1>1. n \in Nat /\ seq \in [D -> stories] /\ DOMAIN seq = D
  <2>1. n \in Nat /\ seq \in [D -> stories]
    BY ListsAll
  <2>. QED BY <2>1
<1>2. LogAll(w, stories) = it[D]
  BY <1>1 DEF LogAll, FoldLeft, MapThenFoldSet
<1>. HIDE DEF seq, n
<1>3. IsFiniteSet(D)
  BY <1>1, FS_Interval
<1>4. Picks(c, D)
  <2>1. ASSUME NEW s \in SUBSET D, s # {} PROVE Max(s) \in s
    <3>1. s \in SUBSET Int /\ n \in Int /\ \A x \in s : x <= n
      BY <1>1
    <3>2. \E x \in s : \A y \in s : x >= y
      BY <2>1, <3>1, Largest
    <3>. QED BY <3>2 DEF Max
  <2>. QED BY <2>1 DEF Picks
<1>5. w \in W /\ f \in [D \X W -> W]
  <2>1. w \in W
    BY DEF After
  <2>2. ASSUME NEW i \in D, NEW x \in W PROVE Told(x, seq[i]) \in W
    BY <1>1, ToldAfter
  <2>. HIDE DEF W, D
  <2>. QED BY <2>1, <2>2
<1>6. PICK h : Folds(h, D, W, w, f, c)
  <2>. HIDE DEF W, D, f, c
  <2>. QED BY <1>3, <1>4, <1>5, FoldExists
<1>7. h[{}] = w /\ h \in [SUBSET D -> W]
  <2>. HIDE DEF W, D, f, c
  <2>. QED BY <1>6 DEF Folds
<1>8. ASSUME NEW s \in SUBSET D, s # {}
      PROVE  /\ h[s] = Told(h[s \ {Max(s)}], seq[Max(s)])
             /\ s \ {Max(s)} \in SUBSET D /\ c[s] = Max(s)
  <2>1. c[s] = Max(s)
    BY <1>8
  <2>2. Max(s) \in s
    BY <1>4, <1>8, <2>1 DEF Picks
  <2>. HIDE DEF W, D, c
  <2>3. Max(s) \in D /\ s \ {Max(s)} \in SUBSET D /\ h[s \ {Max(s)}] \in W
    BY <1>7, <2>2
  <2>4. h[s] = f[<<c[s], h[s \ {c[s]}]>>]
    <3>. HIDE DEF f
    <3>. QED BY <1>6, <1>8 DEF Folds
  <2>. QED BY <2>1, <2>3, <2>4
<1>. HIDE DEF W, f, D
<1>9. Run([s \in SUBSET D |-> h[s]])
  BY <1>7, <1>8
<1>10. it = [s \in SUBSET D |-> IF s = {} THEN w ELSE Told(it[s \ {Max(s)}], seq[Max(s)])]
  <2>. HIDE DEF Run
  <2>1. Run(it)
    BY <1>9
  <2>. QED BY <2>1 DEF Run
<1>. HIDE DEF it, Run, c
<1>11. GoesOn(it, h, c, D)
  <2>1. it[{}] = h[{}]
    BY <1>7, <1>10
  <2>2. ASSUME NEW s \in SUBSET D, s # {}, it[s \ {c[s]}] = h[s \ {c[s]}] PROVE it[s] = h[s]
    <3>1. it[s] = Told(it[s \ {Max(s)}], seq[Max(s)])
      BY <1>10, <2>2
    <3>. QED BY <1>8, <2>2, <3>1
  <2>. QED BY <2>1, <2>2 DEF GoesOn
<1>12. it[D] = h[D] /\ h[D] \in W
  BY <1>3, <1>4, <1>7, <1>11, FoldUnique
<1>. QED BY <1>2, <1>12 DEF seq, W

Aged(r) == [r EXCEPT !.at = @ - 1]

\* Time passing keeps the logs consistent: rows age together, and those past
\* the longest window that any query reads are left out.
LEMMA OlderKeeps ==
  ASSUME LogsOK(Now)
  PROVE  LogsOK([usage |-> Older(usage), errors |-> Older(errors), req |-> count.req, id |-> count.id])
<1>. DEFINE w == [usage |-> Older(usage), errors |-> Older(errors), req |-> count.req, id |-> count.id]
            U == {x \in usage : x.at > -TrafficWindow}
            V == {x \in errors : x.at > -TrafficWindow}
<1>1. /\ w.usage = {Aged(r) : r \in U} /\ w.errors = {Aged(r) : r \in V}
      /\ w.req = count.req /\ w.id = count.id
  BY DEF Older, Aged
<1>2. /\ usage \subseteq UsageRecords /\ errors \subseteq ErrorRecords
      /\ IsFiniteSet(usage) /\ IsFiniteSet(errors) /\ count.req \in Nat /\ count.id \in Nat
      /\ TrafficWindow \in Nat
  BY CostsAssumption DEF LogsOK, LogTypes, Now
<1>3. ASSUME NEW r \in UsageRecords
      PROVE  /\ Aged(r) \in UsageRecords /\ Aged(r).at = r.at - 1 /\ r.at \in Int
             /\ Aged(r).req = r.req /\ Aged(r).id = r.id /\ Aged(r).account = r.account
             /\ Aged(r).final = r.final /\ Aged(r).client = r.client /\ Aged(r).request = r.request
  BY DEF Aged, UsageRecords
<1>4. ASSUME NEW r \in ErrorRecords
      PROVE  /\ Aged(r) \in ErrorRecords /\ Aged(r).at = r.at - 1 /\ r.at \in Int
             /\ Aged(r).req = r.req /\ Aged(r).id = r.id
             /\ Aged(r).client = r.client /\ Aged(r).request = r.request
  BY DEF Aged, ErrorRecords
<1>5. ASSUME NEW S, IsFiniteSet(S), NEW P \in SUBSET S
      PROVE  IsFiniteSet({Aged(r) : r \in P})
  <2>. DEFINE T == {Aged(r) : r \in P}
              g == [r \in P |-> Aged(r)]
  <2>1. g \in Surjection(P, T)
    BY DEF Surjection
  <2>2. IsFiniteSet(P)
    BY <1>5, FS_Subset
  <2>. QED BY <2>1, <2>2, FS_Surjection
<1>6. /\ \A r \in usage : RowOK(r, Now)
      /\ \A r \in errors : RowOK(r, Now)
      /\ OneEach(usage) /\ OneEach(errors)
      /\ \A r \in usage : r.final <=> LastIn(r, usage)
      /\ \A r \in usage : Nameless(r) => Lonely(r, usage, errors)
      /\ \A e \in errors : Nameless(e) => Lonely(e, errors, usage)
  BY DEF LogsOK, Now
<1>. HIDE DEF w
<1>7. LogTypes(w)
  <2>1. IsFiniteSet(w.usage)
    BY <1>1, <1>2, <1>5
  <2>2. IsFiniteSet(w.errors)
    BY <1>1, <1>2, <1>5
  <2>3. w.usage \subseteq UsageRecords /\ w.errors \subseteq ErrorRecords
    BY <1>1, <1>2, <1>3, <1>4
  <2>. QED BY <1>1, <1>2, <2>1, <2>2, <2>3 DEF LogTypes
<1>8. ASSUME NEW r \in U PROVE RowOK(Aged(r), w)
  <2>1. RowOK(r, Now) /\ r \in UsageRecords /\ r.at > -TrafficWindow
    BY <1>2, <1>6
  <2>2. Aged(r).at \in (-TrafficWindow)..(-1)
    BY <1>2, <1>3, <2>1 DEF RowOK
  <2>3. Names(Aged(r))
    BY <1>3, <2>1 DEF RowOK, Names
  <2>. QED BY <1>1, <1>3, <2>1, <2>2, <2>3 DEF RowOK, Now
<1>9. ASSUME NEW r \in V PROVE RowOK(Aged(r), w)
  <2>1. RowOK(r, Now) /\ r \in ErrorRecords /\ r.at > -TrafficWindow
    BY <1>2, <1>6
  <2>2. Aged(r).at \in (-TrafficWindow)..(-1)
    BY <1>2, <1>4, <2>1 DEF RowOK
  <2>3. Names(Aged(r))
    BY <1>4, <2>1 DEF RowOK, Names
  <2>. QED BY <1>1, <1>4, <2>1, <2>2, <2>3 DEF RowOK, Now
<1>10. OneEach(w.usage) /\ OneEach(w.errors)
  <2>1. OneEach(w.usage)
    BY <1>1, <1>2, <1>3, <1>6 DEF OneEach
  <2>2. OneEach(w.errors)
    BY <1>1, <1>2, <1>4, <1>6 DEF OneEach
  <2>. QED BY <2>1, <2>2
<1>11. ASSUME NEW r \in U PROVE Aged(r).final <=> LastIn(Aged(r), w.usage)
  <2>1. r \in UsageRecords /\ U \subseteq UsageRecords
    BY <1>2
  <2>2. ASSUME NEW s \in UsageRecords
        PROVE  Before(Aged(s), Aged(r)) <=> Before(s, r)
    BY <1>3, <2>1 DEF Before
  <2>3. LastIn(Aged(r), w.usage) <=> LastIn(r, U)
    BY <1>1, <1>3, <2>1, <2>2 DEF LastIn
  <2>4. LastIn(r, U) <=> LastIn(r, usage)
    <3>1. ASSUME NEW s \in usage, s \notin U PROVE Before(s, r)
      BY <1>2, <1>3, <3>1 DEF Before
    <3>. QED BY <3>1 DEF LastIn
  <2>. QED BY <1>3, <1>6, <2>1, <2>3, <2>4
<1>12. ASSUME NEW r \in U, Nameless(Aged(r)) PROVE Lonely(Aged(r), w.usage, w.errors)
  <2>1. Nameless(r)
    BY <1>2, <1>3, <1>12 DEF Nameless
  <2>2. Lonely(r, usage, errors)
    BY <1>6, <2>1
  <2>. QED BY <1>1, <1>2, <1>3, <1>4, <2>2 DEF Lonely
<1>13. ASSUME NEW r \in V, Nameless(Aged(r)) PROVE Lonely(Aged(r), w.errors, w.usage)
  <2>1. Nameless(r)
    BY <1>2, <1>4, <1>13 DEF Nameless
  <2>2. Lonely(r, errors, usage)
    BY <1>6, <2>1
  <2>. QED BY <1>1, <1>2, <1>3, <1>4, <2>2 DEF Lonely
<1>. QED BY <1>1, <1>7, <1>8, <1>9, <1>10, <1>11, <1>12, <1>13 DEF LogsOK, w

\* Requests of an account in its pools that follow another soon.
LEMMA PoolContinuousIs ==
  ASSUME NEW m, \A p \in Pools : m.pools[p].continuous \in Nat
  PROVE  PoolContinuous(m) \in Nat
<1>1. [p \in Pools |-> m.pools[p].continuous] \in [Pools -> Nat]
  OBVIOUS
<1>. QED BY <1>1, MetricsAssumption, SumOverIsNat DEF PoolContinuous
-----------------------------------------------------------------------------
(* What is recommended.                                                     *)

\* The table the model computes once is the function it tabulates.
LEMMA TableIs ==
  ASSUME NEW f
  PROVE  (CHOOSE table \in {f} : table = table) = f
OBVIOUS

\* A score is made of measured costs, whatever is estimated of others.
LEMMA ScoreOnScale ==
  ASSUME NEW costs, DOMAIN costs \subseteq Accounts,
         NEW a \in DOMAIN costs, costs[a] \in Nat \ {0}
  PROVE  ScoredPriority(costs, a) \in (Best..Poor) \ {Explore}
<1>1. a \in Priced(costs) /\ IsFiniteSet(Priced(costs)) /\ costs[a] \in Nat
  <2>1. Priced(costs) \in SUBSET Accounts
    BY DEF Priced
  <2>2. IsFiniteSet(Priced(costs))
    BY <2>1, WalkAssumption, FS_Subset
  <2>. QED BY <2>2 DEF Priced
<1>. DEFINE last == Cardinality(Priced(costs)) - 1
<1>2. last \in Nat /\ TwiceRank(costs, a) \in 0..(2 * last)
  BY <1>1, RankBounds
<1>3. ScoredPriority(costs, a) = PriorityOf(TwiceRank(costs, a), last)
  BY DEF ScoredPriority
<1>. HIDE DEF last
<1>. QED BY <1>2, <1>3, PriorityOfOnScale

Kinds == {"excluded", "measured", "estimated", "unknown"}

\* A recommendation is on the scale, excludes who is out, and proposes
\* another priority than the present one only for an account with costs of its
\* own: an estimate or the want of any evidence leaves the priority alone
\* (scoring.go: Recommendations).
LEMMA Recommended ==
  ASSUME NEW views, DOMAIN views = Accounts, NEW current \in [Accounts -> Priorities],
         NEW rates, NEW member, NEW out,
         \A a \in Accounts : DirectCost(views[a]).valid => DirectCost(views[a]).cost \in Nat \ {0},
         NEW a \in Accounts
  PROVE  LET r == Recommendations(views, current, rates, member, out)[a]
         IN /\ r.want \in Priorities /\ r.kind \in Kinds
            /\ r.kind = "measured" => a \notin out /\ DirectCost(views[a]).valid
            /\ a \in out => r.want = Unavailable
            /\ a \notin out /\ ~DirectCost(views[a]).valid => r.want = current[a]
<1>. DEFINE direct == [x \in Accounts |-> DirectCost(views[x])]
            estimate == Estimates(views, rates, member, out)
            guessed == Guessed(direct, estimate, out)
            cost == [x \in Accounts |-> IF x \in out THEN 0
                                        ELSE IF x \in guessed THEN estimate[x].cost
                                        ELSE direct[x].cost]
            r == Recommendations(views, current, rates, member, out)[a]
<1>1. Recommendations(views, current, rates, member, out) = Scoring(direct, estimate, current, out)
  BY TableIs DEF Recommendations, Table
<1>. HIDE DEF estimate
<1>2. Scoring(direct, estimate, current, out) = Advised(direct, estimate, current, guessed, out)
  BY DEF Scoring
<1>. HIDE DEF guessed
<1>3. Costed(direct, estimate, guessed, out) = cost
  BY TableIs DEF Costed, Table
<1>4. Advised(direct, estimate, current, guessed, out)
      = Ranked(direct, estimate, cost, current, guessed, out)
  BY <1>3 DEF Advised
<1>. HIDE DEF cost
<1>5. Ranked(direct, estimate, cost, current, guessed, out)
      = [x \in Accounts |-> Advise(x, direct[x].valid, estimate[x], cost[x], ScoredPriority(cost, x),
                                   current[x], guessed, out)]
  BY TableIs DEF Ranked, Table
<1>6. r = Advise(a, direct[a].valid, estimate[a], cost[a], ScoredPriority(cost, a),
                 current[a], guessed, out)
  BY <1>1, <1>2, <1>4, <1>5
<1>7. current[a] \in Priorities /\ Unavailable \in Priorities /\ Best..Poor \subseteq Priorities
  BY ScaleAssumption DEF Priorities
<1>8. ASSUME direct[a].valid, a \notin out, a \notin guessed
      PROVE  ScoredPriority(cost, a) \in Priorities
  <2>1. DOMAIN cost = Accounts /\ cost[a] = direct[a].cost
    BY <1>8 DEF cost
  <2>2. cost[a] \in Nat \ {0}
    BY <1>8, <2>1
  <2>3. ScoredPriority(cost, a) \in (Best..Poor) \ {Explore}
    BY <2>1, <2>2, ScoreOnScale
  <2>. QED BY <1>7, <2>3
<1>9. direct[a] = DirectCost(views[a])
  OBVIOUS
<1>. HIDE DEF r, direct
<1>. QED BY <1>6, <1>7, <1>8, <1>9 DEF r, Advise, Advice, Kinds

\* Weights are percentages, and mature ones take as much as the main window asks.
LEMMA PercentIs ==
  ASSUME NEW n \in Nat, NEW full \in Nat \ {0}
  PROVE  /\ Percent(n, full) \in 0..100
         /\ Percent(n, full) >= Mature => 4 * n >= 3 * full
<1>. DEFINE q == (100 * n) \div full
<1>1. q \in Nat /\ q * full <= 100 * n
  OBVIOUS
<1>2. q >= 75 => 75 * full <= q * full
  BY <1>1
<1>. HIDE DEF q
<1>3. Percent(n, full) = Smaller(100, q)
  BY DEF Percent, q
<1>4. Percent(n, full) \in 0..100 /\ (Percent(n, full) >= Mature => q >= 75)
  BY <1>1, <1>3 DEF Smaller, Mature
<1>5. q >= 75 => 4 * n >= 3 * full
  BY <1>1, <1>2
<1>. QED BY <1>4, <1>5

\* The weight of a sample is a percentage, and a mature one has the requests
\* and the tokens of the main window's minimum.
LEMMA WeightIs ==
  ASSUME NEW s, s.priced \in Nat, s.tokens \in Nat, s.continuous \in Nat
  PROVE  /\ Weight(s) \in 0..100
         /\ Weight(s) >= Mature => Meets(s, MainRequests, MainTokens)
<1>. DEFINE steady == Larger(Percent(s.continuous, FullContinuous), Percent(s.priced, SteadyRequests))
            x == Percent(s.priced, FullRequests)
            y == Percent(s.tokens, FullTokens)
            z == 35 + (65 * steady) \div 100
            S == {x, y, z}
<1>0. /\ FullRequests \in Nat \ {0} /\ FullTokens \in Nat \ {0}
      /\ FullContinuous \in Nat \ {0} /\ SteadyRequests \in Nat \ {0}
      /\ MainRequests \in Nat /\ MainTokens \in Nat
      /\ 4 * MainRequests <= 3 * FullRequests /\ 4 * MainTokens <= 3 * FullTokens
  BY CostsAssumption
<1>1. /\ x \in 0..100 /\ (x >= Mature => 4 * s.priced >= 3 * FullRequests)
      /\ y \in 0..100 /\ (y >= Mature => 4 * s.tokens >= 3 * FullTokens)
  BY <1>0, PercentIs
<1>2. Percent(s.continuous, FullContinuous) \in 0..100 /\ Percent(s.priced, SteadyRequests) \in 0..100
  BY <1>0, PercentIs
<1>3. z \in 0..100
  <2>1. steady \in 0..100
    BY <1>2 DEF Larger
  <2>. HIDE DEF steady
  <2>. QED BY <2>1
<1>. HIDE DEF x, y, z
<1>4. Min(S) \in S /\ Min(S) <= x /\ Min(S) <= y /\ Min(S) \in 0..100
  <2>1. \E m \in S : \A k \in S : m <= k
    BY <1>1, <1>3
  <2>2. Min(S) \in S /\ \A k \in S : Min(S) <= k
    BY <2>1 DEF Min
  <2>. QED BY <1>1, <1>3, <2>2
<1>5. CASE s.priced = 0 \/ s.tokens = 0
  BY <1>5 DEF Weight, Mature
<1>6. CASE ~(s.priced = 0 \/ s.tokens = 0)
  <2>1. Weight(s) = Min(S)
    BY <1>6 DEF Weight, x, y, z
  <2>. HIDE DEF S
  <2>2. Min(S) >= Mature => x >= Mature /\ y >= Mature
    BY <1>1, <1>4 DEF Mature
  <2>3. x >= Mature /\ y >= Mature => s.priced >= MainRequests /\ s.tokens >= MainTokens
    BY <1>0, <1>1
  <2>. QED BY <1>4, <2>1, <2>2, <2>3 DEF Meets
<1>. QED BY <1>5, <1>6

Sample(s) == s.priced \in Nat /\ s.tokens \in Nat /\ s.continuous \in Nat /\ s.cost \in Nat

\* A measured cost is positive, and mature only above the main window's minimum.
LEMMA MeasuredIs ==
  ASSUME NEW s, Sample(s)
  PROVE  /\ Measured(s).valid \in BOOLEAN /\ Measured(s).weight \in 0..100 /\ Measured(s).cost \in Nat
         /\ Measured(s).valid => Measured(s).cost \in Nat \ {0}
         /\ Measured(s).weight >= Mature => Measured(s).valid /\ Meets(s, MainRequests, MainTokens)
<1>1. Weight(s) \in 0..100 /\ (Weight(s) >= Mature => Meets(s, MainRequests, MainTokens))
  BY WeightIs DEF Sample
<1>2. ASSUME s.tokens > 0 PROVE Larger(1, Per(s.cost, s.tokens)) \in Nat \ {0}
  <2>1. Unit \in Nat
    BY CostsAssumption
  <2>2. s.cost * Unit \in Nat /\ s.tokens \in Nat \ {0}
    BY <1>2, <2>1 DEF Sample
  <2>3. Per(s.cost, s.tokens) \in Nat
    BY <2>2 DEF Per
  <2>. QED BY <2>3 DEF Larger
<1>3. CASE s.tokens > 0 /\ s.cost > 0
  BY <1>1, <1>2, <1>3 DEF Measured
<1>4. CASE ~(s.tokens > 0 /\ s.cost > 0)
  BY <1>4 DEF Measured, NoEvidence, Mature
<1>. QED BY <1>3, <1>4

\* A direct cost is one of enough recent requests.
LEMMA DirectIs ==
  ASSUME NEW v, Sample(v.fast), Sample(v.main)
  PROVE  /\ DirectCost(v).valid \in BOOLEAN /\ DirectCost(v).weight \in 0..100
         /\ DirectCost(v).cost \in Nat
         /\ DirectCost(v).valid =>
              /\ DirectCost(v).cost \in Nat \ {0}
              /\ Meets(v.fast, FastRequests, FastTokens) \/ Meets(v.main, MainRequests, MainTokens)
<1>1. /\ Measured(v.fast).valid \in BOOLEAN /\ Measured(v.fast).weight \in 0..100
      /\ Measured(v.fast).cost \in Nat
      /\ Measured(v.fast).valid => Measured(v.fast).cost \in Nat \ {0}
  BY MeasuredIs
<1>2. /\ Measured(v.main).valid \in BOOLEAN /\ Measured(v.main).weight \in 0..100
      /\ Measured(v.main).cost \in Nat
      /\ Measured(v.main).valid => Measured(v.main).cost \in Nat \ {0}
      /\ Measured(v.main).weight >= Mature => Meets(v.main, MainRequests, MainTokens)
  BY MeasuredIs
<1>3. ~NoEvidence.valid /\ NoEvidence.valid \in BOOLEAN /\ NoEvidence.weight = 0 /\ NoEvidence.cost = 0
  BY DEF NoEvidence
<1>4. /\ FastCost(v).valid \in BOOLEAN /\ FastCost(v).weight \in 0..100 /\ FastCost(v).cost \in Nat
      /\ FastCost(v).valid => /\ FastCost(v).cost \in Nat \ {0}
                              /\ Meets(v.fast, FastRequests, FastTokens)
  BY <1>1, <1>3 DEF FastCost
<1>5. /\ MainCost(v).valid \in BOOLEAN /\ MainCost(v).weight \in 0..100 /\ MainCost(v).cost \in Nat
      /\ MainCost(v).valid => /\ MainCost(v).cost \in Nat \ {0}
                              /\ Meets(v.main, MainRequests, MainTokens)
  BY <1>2, <1>3 DEF MainCost
<1>6. (FirstCost(v) = FastCost(v) /\ FastCost(v).valid) \/ FirstCost(v) = MainCost(v)
  BY DEF FirstCost
<1>. QED BY <1>2, <1>4, <1>5, <1>6 DEF DirectCost
-----------------------------------------------------------------------------
(* What a cycle has read.                                                   *)

\* More rows have no fewer tokens.
LEMMA TotalGrows ==
  ASSUME NEW C, IsFiniteSet(C), \A r \in C : Tokens(r) \in Nat, NEW B \in SUBSET C
  PROVE  /\ Total(Tokens, B) \in Nat /\ Total(Tokens, C) \in Nat
         /\ Total(Tokens, B) <= Total(Tokens, C)
<1>. DEFINE g == [x \in C |-> Tokens(x)]
<1>1. g \in [C -> Nat]
  OBVIOUS
<1>2. PICK h : SumOf(h, g, C)
  <2>. HIDE DEF g
  <2>. QED BY <1>1, SumsExist
<1>3. Total(Tokens, B) = h[B]
  BY <1>2, TotalTokens
<1>4. Total(Tokens, C) = h[C]
  <2>1. C \in SUBSET C
    OBVIOUS
  <2>. QED BY <1>2, <2>1, TotalTokens
<1>5. h[B] \in Nat /\ h[C] \in Nat /\ h[B] <= h[C]
  <2>1. Adds(h, g, C) /\ C \in SUBSET C
    BY <1>2 DEF SumOf
  <2>. HIDE DEF g
  <2>. QED BY <1>1, <2>1, AddsParts
<1>. QED BY <1>3, <1>4, <1>5

\* The costs of rows add up to a number of units.
LEMMA CostIsNat ==
  ASSUME NEW C, IsFiniteSet(C), \A r \in C : CostOf(r) \in Nat
  PROVE  Total(CostOf, C) \in Nat
<1>1. [x \in C |-> CostOf(x)] \in [C -> Nat]
  OBVIOUS
<1>. QED BY <1>1, SumOverIsNat DEF Total

\* What was read of an account does not exceed what was billed to it.
Reading(m, a, w) ==
  /\ m.priced \in Nat /\ m.tokens \in Nat /\ m.cost \in Nat /\ PoolContinuous(m) \in Nat
  /\ m.priced <= Cardinality(Billed(a, w)) /\ m.tokens <= Total(Tokens, Billed(a, w))

\* What was billed to an account is a finite set of rows with tokens and costs.
LEMMA BilledTypes ==
  ASSUME LogsOK(Now), NEW a, NEW w
  PROVE  /\ IsFiniteSet(Billed(a, w)) /\ Cardinality(Billed(a, w)) \in Nat
         /\ Total(Tokens, Billed(a, w)) \in Nat
         /\ \A r \in Billed(a, w) : Tokens(r) \in Nat /\ CostOf(r) \in Nat
<1>1. Billed(a, w) \in SUBSET usage
  BY DEF Billed, Between
<1>2. IsFiniteSet(usage) /\ \A r \in usage : Tokens(r) \in Nat /\ CostOf(r) \in Nat
  BY RowTypes
<1>3. IsFiniteSet(Billed(a, w)) /\ Cardinality(Billed(a, w)) \in Nat
  BY <1>1, <1>2, FS_Subset, FS_CardinalityType
<1>4. Total(Tokens, Billed(a, w)) \in Nat
  BY <1>1, <1>2, TotalGrows
<1>. QED BY <1>1, <1>2, <1>3, <1>4

\* The snapshot of a query's result is a sample that costs can be measured by.
LEMMA SnapshotSample ==
  ASSUME NEW m, m.priced \in Nat, m.tokens \in Nat, m.cost \in Nat, PoolContinuous(m) \in Nat
  PROVE  /\ Sample(Snapshot(m))
         /\ Snapshot(m).priced = m.priced /\ Snapshot(m).tokens = m.tokens
<1>. DEFINE S == {PoolContinuous(m), m.priced}
<1>1. \E x \in S : \A y \in S : x <= y
  OBVIOUS
<1>2. Min(S) \in S
  BY <1>1 DEF Min
<1>3. Min(S) \in Nat
  BY <1>2
<1>. QED BY <1>3 DEF Sample, Snapshot

\* The length of a run of requests in one pool is a number.
LEMMA PoolsCounted ==
  ASSUME NEW mine, IsFiniteSet(mine), NEW m, m.pools = PoolsOf(mine)
  PROVE  PoolContinuous(m) \in Nat
<1>1. ASSUME NEW p \in Pools PROVE m.pools[p].continuous \in Nat
  <2>. DEFINE rows == PoolRows(mine, p)
  <2>1. m.pools[p].continuous = Cardinality(Continuous(rows))
    BY DEF PoolsOf, PoolMetrics
  <2>2. Continuous(rows) \in SUBSET mine
    BY DEF Continuous, PoolRows
  <2>3. Cardinality(Continuous(rows)) \in Nat
    BY <2>2, FS_Subset, FS_CardinalityType
  <2>. QED BY <2>1, <2>3
<1>. QED BY <1>1, PoolContinuousIs

\* A query reads of an account what was billed to it within its window.
LEMMA ReadingNow ==
  ASSUME LogsOK(Now), NEW w \in Int, NEW a \in Accounts
  PROVE  Reading(ReadNow(w)[a], a, w)
<1>. DEFINE m == Metrics(usage, errors, a, -w)
<1>1. ReadNow(w)[a] = m
  BY DEF ReadNow
<1>2. /\ m.priced = Cardinality(Billed(a, w)) /\ m.tokens = Total(Tokens, Billed(a, w))
      /\ m.cost = Total(CostOf, Billed(a, w))
  BY QueryTrue
<1>3. m.pools = PoolsOf(Mine(a, w))
  BY MetricsFields
<1>. HIDE DEF m
<1>4. PoolContinuous(m) \in Nat
  <2>1. IsFiniteSet(Mine(a, w))
    BY BillsTrue
  <2>. QED BY <1>3, <2>1, PoolsCounted
<1>5. /\ Cardinality(Billed(a, w)) \in Nat /\ Total(Tokens, Billed(a, w)) \in Nat
      /\ Total(CostOf, Billed(a, w)) \in Nat
  BY BilledTypes, CostIsNat
<1>. QED BY <1>1, <1>2, <1>4, <1>5 DEF Reading

\* A window that was not read holds nothing, so nothing that was not billed.
LEMMA NothingRead ==
  ASSUME LogsOK(Now), NEW w, NEW a \in Accounts
  PROVE  Reading(NoMetrics[a], a, w)
<1>. DEFINE m == Metrics({}, {}, a, 0)
            none == ErrorRequests({}, 0)
            failed == {e \in none : e.account = a}
            final == {e \in failed : ~Recovered({}, e)}
            u == UsageOf({})
            f == ErrorsOf(failed, final, {}, Latest({}))
            p == [pools |-> PoolsOf({})]
<1>1. UsageRows({}, 0) = {}
  BY DEF UsageRows, LastRows, Between
<1>2. {r \in {} : r.account = a} = {} /\ {r.at : r \in {}} = {}
  OBVIOUS
<1>3. m = Joined(u, Joined(f, p))
  BY <1>1, <1>2 DEF Metrics
<1>4. /\ DOMAIN u = {"successes", "priced", "tokens", "cost", "last"}
      /\ u.priced = Cardinality({r \in {} : IsPriced(r)})
      /\ u.tokens = Total(Tokens, {r \in {} : IsPriced(r)})
      /\ u.cost = Total(CostOf, {})
  BY DEF UsageOf
<1>5. DOMAIN f = {"failures", "lastFailed", "trailing", "recovered", "limited", "takenOver"}
  BY DEF ErrorsOf
<1>6. DOMAIN p = {"pools"} /\ p.pools = PoolsOf({})
  OBVIOUS
<1>. HIDE DEF m, u, f, p
<1>7. /\ DOMAIN Joined(f, p) = DOMAIN f \cup DOMAIN p /\ Joined(f, p)["pools"] = p.pools
  BY <1>5, <1>6 DEF Joined
<1>8. /\ \A x \in DOMAIN u : Joined(u, Joined(f, p))[x] = u[x]
      /\ Joined(u, Joined(f, p))["pools"] = Joined(f, p)["pools"]
  BY <1>4, <1>6, <1>7 DEF Joined
<1>9. {r \in {} : IsPriced(r)} = {} /\ IsFiniteSet({}) /\ Cardinality({}) = 0 /\ {} \in SUBSET {}
  BY FS_EmptySet
<1>10. Total(Tokens, {}) = 0
  <2>. DEFINE g == [x \in {} |-> Tokens(x)]
  <2>1. g \in [{} -> Nat]
    OBVIOUS
  <2>2. PICK h : SumOf(h, g, {})
    <3>. HIDE DEF g
    <3>. QED BY <1>9, <2>1, SumsExist
  <2>3. Total(Tokens, {}) = h[{}]
    BY <1>9, <2>2, TotalTokens
  <2>. HIDE DEF g
  <2>. QED BY <2>2, <2>3 DEF SumOf, Adds
<1>11. Total(CostOf, {}) \in Nat
  BY <1>9, CostIsNat
<1>12. m.priced = 0 /\ m.tokens = 0 /\ m.cost \in Nat /\ m.pools = PoolsOf({})
  BY <1>3, <1>4, <1>6, <1>7, <1>8, <1>9, <1>10, <1>11
<1>13. PoolContinuous(m) \in Nat
  BY <1>9, <1>12, PoolsCounted
<1>14. NoMetrics[a] = m
  BY DEF NoMetrics, m
<1>15. Cardinality(Billed(a, w)) \in Nat /\ Total(Tokens, Billed(a, w)) \in Nat
  BY BilledTypes
<1>. QED BY <1>12, <1>13, <1>14, <1>15 DEF Reading
-----------------------------------------------------------------------------
(* The invariant.                                                           *)

Counts == [req : Nat, id : Nat, stories : Nat, faults : Nat, limits : Nat]
Control ==
  /\ env \in DOMAIN Environments /\ count \in Counts
  /\ phase \in {"reading", "writing", "failed"}
  /\ limited \subseteq Accounts /\ grounds \subseteq Accounts /\ todo \subseteq Accounts
  /\ phase # "writing" => todo = {}
Readings ==
  /\ \E S : seen \in Seq(S)
  /\ Len(seen) <= Len(Windows)
  /\ \A i \in 1..Len(seen) :
       /\ seen[i].out \subseteq Accounts
       /\ \A a \in Accounts : Reading(seen[i].metrics[a], a, Windows[i])
\* A priority that is to move has a reason.
Reasons == \A a \in Accounts : a \notin hard \cup grounds => want[a] = prio[a]

ScoresInv == Control /\ LogsOK(Now) /\ WalkInv /\ Readings /\ Reasons

\* A cycle reads four windows: now, the fast, the main and the report window.
LEMMA WindowsAre ==
  /\ Len(Windows) = 4
  /\ Windows[2] = FastWindow /\ Windows[3] = MainWindow
  /\ \A i \in 1..4 : Windows[i] \in Int
<1>1. {FastWindow, MainWindow, ReportWindow, TrafficWindow} \subseteq Int
  BY ScoresAssumption, CostsAssumption
<1>. QED BY <1>1 DEF Windows

\* The environment that was chosen is one the assumption is about.
LEMMA EnvironmentIs ==
  ASSUME env \in DOMAIN Environments
  PROVE  Environment(E)
BY ScoresAssumption DEF E

\* A step that logs stories keeps the logs consistent, loses no usage row and
\* counts what it logged.
LEMMA LogStep ==
  ASSUME env \in DOMAIN Environments, count \in Counts, NEW stories, IsFiniteSet(stories),
         \A s \in stories : Story(s), NEW old,
         LogsOK([usage |-> old.usage, errors |-> old.errors, req |-> count.req, id |-> count.id]),
         Log(stories, old)
  PROVE  LogsOK(Now)' /\ old.usage \subseteq usage' /\ count' \in Counts /\ count'.faults = count.faults
<1>. DEFINE w == [usage |-> old.usage, errors |-> old.errors, req |-> count.req, id |-> count.id]
            after == LogAll(w, stories)
<1>1. w \in Books /\ LogsOK(w)
  BY DEF LogsOK, LogTypes, Books
<1>2. after \in After(w)
  <2>. HIDE DEF w
  <2>. QED BY <1>1, LogKeeps
<1>3. usage' = after.usage /\ errors' = after.errors
      /\ count' = [count EXCEPT !.req = after.req, !.id = after.id,
                                !.stories = @ + Cardinality(stories)]
  BY DEF Log, LogAll
<1>. HIDE DEF after
<1>4. after \in Books /\ LogsOK(after) /\ old.usage \subseteq after.usage
  BY <1>2 DEF After
<1>5. Cardinality(stories) \in Nat
  BY FS_CardinalityType
<1>6. count' \in Counts /\ count'.faults = count.faults
      /\ count'.req = after.req /\ count'.id = after.id
  <2>1. after.req \in Nat /\ after.id \in Nat
    BY <1>4 DEF Books
  <2>2. count.stories + Cardinality(stories) \in Nat
    BY <1>5 DEF Counts
  <2>. QED BY <1>3, <2>1, <2>2 DEF Counts
<1>7. Now' = after
  BY <1>3, <1>4, <1>6 DEF Now, Books
<1>8. LogsOK(Now)' <=> LogsOK(Now')
  OBVIOUS
<1>. QED BY <1>3, <1>4, <1>6, <1>7, <1>8

\* The invariant holds before the first cycle.
LEMMA InitOK == Init => ScoresInv
<1>. SUFFICES ASSUME Init PROVE ScoresInv
  OBVIOUS
<1>1. Environment(E)
  BY EnvironmentIs DEF Init
<1>2. Control
  BY DEF Init, Control, Counts
<1>3. LogsOK(Now)
  <2>1. Now.usage = {} /\ Now.errors = {} /\ Now.req = 0 /\ Now.id = 0
    BY DEF Init, Now
  <2>2. LogTypes(Now)
    BY <2>1, FS_EmptySet DEF LogTypes
  <2>. QED BY <2>1, <2>2 DEF LogsOK, OneEach
<1>4. WalkInv /\ Reasons
  BY <1>1 DEF Init, WalkInv, WalkTypeOK, Reasons, Environment, Priorities
<1>5. Readings
  <2>1. seen = << >> /\ seen \in Seq({}) /\ Len(seen) = 0
    BY DEF Init
  <2>. QED BY <2>1, WindowsAre DEF Readings
<1>. QED BY <1>2, <1>3, <1>4, <1>5 DEF ScoresInv

\* A cycle that has read nothing yet has read nothing wrong.
LEMMA NoReadings == seen' = << >> => Readings'
<1>. SUFFICES ASSUME seen' = << >> PROVE Readings'
  OBVIOUS
<1>1. seen' \in Seq({}) /\ Len(seen') = 0
  OBVIOUS
<1>2. Len(Windows)' = 4
  BY WindowsAre DEF Windows
<1>. QED BY <1>1, <1>2 DEF Readings

\* A new cycle, with time passed and traffic logged, keeps the invariant.
LEMMA TickOK == ScoresInv /\ Tick => ScoresInv'
<1>. SUFFICES ASSUME ScoresInv, Tick PROVE ScoresInv'
  OBVIOUS
<1>1. PICK stories \in {S \in SUBSET E.stories : Cardinality(S) <= E.busy} :
         Log(stories, [usage |-> Older(usage), errors |-> Older(errors)])
  BY DEF Tick
<1>2. env \in DOMAIN Environments /\ count \in Counts /\ LogsOK(Now)
  BY DEF ScoresInv, Control
<1>3. Environment(E)
  BY <1>2, EnvironmentIs
<1>4. IsFiniteSet(stories) /\ \A s \in stories : Story(s)
  <2>1. stories \in SUBSET E.stories /\ IsFiniteSet(E.stories) /\ \A s \in E.stories : Story(s)
    BY <1>3 DEF Environment
  <2>. QED BY <2>1, FS_Subset
<1>5. LogsOK(Now)' /\ count' \in Counts
  <2>. DEFINE old == [usage |-> Older(usage), errors |-> Older(errors)]
  <2>1. LogsOK([usage |-> old.usage, errors |-> old.errors, req |-> count.req, id |-> count.id])
    BY <1>2, OlderKeeps
  <2>2. Log(stories, old)
    BY <1>1
  <2>. HIDE DEF old
  <2>. QED BY <1>2, <1>4, <2>1, <2>2, LogStep
<1>6. Control'
  BY <1>2, <1>5 DEF Tick, ScoresInv, Control
<1>7. WalkInv' /\ Reasons'
  BY DEF Tick, ScoresInv, WalkInv, WalkTypeOK, Reasons
<1>8. Readings'
  BY NoReadings DEF Tick
<1>. QED BY <1>5, <1>6, <1>7, <1>8 DEF ScoresInv

\* Rows that were created earlier and become visible between two queries keep
\* the invariant: what was read before them is still no more than was billed.
LEMMA LogLateOK == ScoresInv /\ LogLate => ScoresInv'
<1>. SUFFICES ASSUME ScoresInv, LogLate PROVE ScoresInv'
  OBVIOUS
<1>1. PICK s \in E.late : Log({s}, [usage |-> usage, errors |-> errors])
  BY DEF LogLate
<1>2. env \in DOMAIN Environments /\ count \in Counts /\ LogsOK(Now)
  BY DEF ScoresInv, Control
<1>3. Story(s) /\ IsFiniteSet({s})
  BY <1>2, EnvironmentIs, FS_Singleton DEF Environment
<1>4. LogsOK(Now)' /\ usage \subseteq usage' /\ count' \in Counts
  <2>. DEFINE old == [usage |-> usage, errors |-> errors]
              stories == {s}
  <2>1. LogsOK([usage |-> old.usage, errors |-> old.errors, req |-> count.req, id |-> count.id])
    BY <1>2 DEF Now
  <2>2. Log(stories, old) /\ IsFiniteSet(stories) /\ (\A x \in stories : Story(x)) /\ old.usage = usage
    BY <1>1, <1>3
  <2>. HIDE DEF old, stories
  <2>3. LogsOK(Now)' /\ old.usage \subseteq usage' /\ count' \in Counts
    BY <1>2, <2>1, <2>2, LogStep
  <2>. QED BY <2>2, <2>3
<1>5. Control'
  BY <1>2, <1>4 DEF LogLate, ScoresInv, Control
<1>6. WalkInv' /\ Reasons'
  BY DEF LogLate, ScoresInv, WalkInv, WalkTypeOK, Reasons, walk
<1>7. ASSUME NEW a, NEW w
      PROVE  /\ Cardinality(Billed(a, w)) <= Cardinality(Billed(a, w)')
             /\ Total(Tokens, Billed(a, w)) <= Total(Tokens, Billed(a, w)')
             /\ Cardinality(Billed(a, w)') \in Nat /\ Total(Tokens, Billed(a, w)') \in Nat
  <2>1. usage' \subseteq UsageRecords /\ IsFiniteSet(usage')
    BY <1>4 DEF LogsOK, LogTypes, Now
  <2>2. Billed(a, w) \subseteq Billed(a, w)' /\ Billed(a, w)' \in SUBSET usage'
    BY <1>4 DEF Billed, Between
  <2>3. \A r \in Billed(a, w)' : Tokens(r) \in Nat
    BY <2>1, <2>2 DEF Tokens, UsageRecords
  <2>4. IsFiniteSet(Billed(a, w)')
    BY <2>1, <2>2, FS_Subset
  <2>. DEFINE B == Billed(a, w)
              C == Billed(a, w)'
  <2>5. B \in SUBSET C /\ IsFiniteSet(C) /\ \A r \in C : Tokens(r) \in Nat
    BY <2>2, <2>3, <2>4
  <2>. HIDE DEF B, C
  <2>6. Total(Tokens, B) <= Total(Tokens, C) /\ Total(Tokens, C) \in Nat
    BY <2>5, TotalGrows
  <2>7. Cardinality(B) <= Cardinality(C) /\ Cardinality(C) \in Nat
    BY <2>5, FS_Subset, FS_CardinalityType
  <2>. QED BY <2>6, <2>7 DEF B, C
<1>8. Readings'
  <2>1. seen' = seen
    BY DEF LogLate
  <2>2. ASSUME NEW m, NEW a, NEW w, Reading(m, a, w) PROVE Reading(m, a, w)'
    <3>. DEFINE B == Billed(a, w)
                C == Billed(a, w)'
    <3>1. /\ m.priced \in Nat /\ m.tokens \in Nat /\ m.cost \in Nat /\ PoolContinuous(m) \in Nat
          /\ m.priced <= Cardinality(B) /\ m.tokens <= Total(Tokens, B)
      BY <2>2 DEF Reading
    <3>2. /\ Cardinality(B) <= Cardinality(C) /\ Total(Tokens, B) <= Total(Tokens, C)
          /\ Cardinality(C) \in Nat /\ Total(Tokens, C) \in Nat
      BY <1>7
    <3>3. Cardinality(B) \in Nat /\ Total(Tokens, B) \in Nat
      BY <1>2, BilledTypes
    <3>. HIDE DEF B, C
    <3>4. m.priced <= Cardinality(C) /\ m.tokens <= Total(Tokens, C)
      BY <3>1, <3>2, <3>3
    <3>. QED BY <3>1, <3>4 DEF Reading, C
  <2>3. Windows' = Windows
    BY DEF Windows
  <2>. QED BY <2>1, <2>2, <2>3 DEF Readings, ScoresInv
<1>. QED BY <1>4, <1>5, <1>6, <1>8 DEF ScoresInv

\* Nothing that was billed changes unless the logs do.
LEMMA ReadingStays ==
  ASSUME ScoresInv, UNCHANGED <<logs, seen>>, count'.req = count.req, count'.id = count.id
  PROVE  LogsOK(Now)' /\ Readings'
<1>1. Now' = Now /\ Windows' = Windows /\ usage' = usage
  BY DEF Now, logs, Windows
<1>2. LogsOK(Now)'
  BY <1>1 DEF ScoresInv
<1>3. ASSUME NEW m, NEW a, NEW w PROVE Reading(m, a, w)' <=> Reading(m, a, w)
  BY <1>1 DEF Reading, Billed
<1>4. Readings'
  BY <1>1, <1>3 DEF Readings, ScoresInv
<1>. QED BY <1>2, <1>4

\* A step that touches neither logs nor priorities keeps the invariant.
LEMMA Quiet ==
  ASSUME ScoresInv, UNCHANGED <<env, walk, logs, seen, rec, grounds>>,
         count' \in Counts, count'.req = count.req, count'.id = count.id,
         limited' \subseteq Accounts, phase' = phase \/ (seen = << >> /\ todo = {}), todo' = todo,
         phase' \in {"reading", "writing", "failed"}
  PROVE  ScoresInv'
<1>1. Control'
  BY DEF ScoresInv, Control
<1>2. WalkInv' /\ Reasons'
  BY DEF ScoresInv, WalkInv, WalkTypeOK, Reasons, walk
<1>3. LogsOK(Now)' /\ Readings'
  BY ReadingStays
<1>. QED BY <1>1, <1>2, <1>3 DEF ScoresInv

\* An account that is limited, or usable again, keeps the invariant.
LEMMA LimitOK == ASSUME NEW a \in Accounts PROVE ScoresInv /\ Limit(a) => ScoresInv'
<1>. SUFFICES ASSUME ScoresInv, Limit(a) PROVE ScoresInv'
  OBVIOUS
<1>1. count \in Counts
  BY DEF ScoresInv, Control
<1>2. count' \in Counts /\ count'.req = count.req /\ count'.id = count.id
  BY <1>1 DEF Limit, Counts
<1>3. limited' \subseteq Accounts /\ phase' = phase /\ phase \in {"reading", "writing", "failed"}
  BY DEF Limit, ScoresInv, Control
<1>4. UNCHANGED <<env, walk, logs, seen, rec, grounds>> /\ todo' = todo
  BY DEF Limit, logs
<1>. QED BY <1>2, <1>3, <1>4, Quiet

\* One window more that reads no more than was billed keeps the readings.
LEMMA ReadOne ==
  ASSUME ScoresInv, NEW m, Len(seen) < Len(Windows),
         \A a \in Accounts : Reading(m[a], a, Windows[Len(seen) + 1]),
         seen' = Append(seen, [metrics |-> m, out |-> limited]), UNCHANGED logs
  PROVE  Readings'
<1>. DEFINE x == [metrics |-> m, out |-> limited]
<1>1. PICK S : seen \in Seq(S)
  BY DEF ScoresInv, Readings
<1>2. seen \in Seq(S \cup {x}) /\ x \in S \cup {x} /\ x.metrics = m /\ x.out = limited
  <2>1. seen \in Seq(S \cup {x})
    BY <1>1
  <2>. QED BY <2>1
<1>. HIDE DEF x
<1>3. seen' = Append(seen, x)
  BY DEF x
<1>4. /\ seen' \in Seq(S \cup {x}) /\ Len(seen') = Len(seen) + 1 /\ Len(seen) \in Nat
      /\ seen'[Len(seen) + 1] = x
      /\ \A i \in 1..Len(seen) : seen'[i] = seen[i]
  BY <1>2, <1>3
<1>5. Windows' = Windows /\ usage' = usage /\ Len(Windows) = 4
  BY WindowsAre DEF Windows, logs
<1>6. ASSUME NEW r, NEW a, NEW w PROVE Reading(r, a, w)' <=> Reading(r, a, w)
  BY <1>5 DEF Reading, Billed
<1>7. ASSUME NEW i \in 1..Len(seen')
      PROVE  /\ seen'[i].out \subseteq Accounts
             /\ \A a \in Accounts : Reading(seen'[i].metrics[a], a, Windows[i])
  <2>1. CASE i <= Len(seen)
    <3>1. i \in 1..Len(seen) /\ seen'[i] = seen[i]
      BY <1>4, <2>1
    <3>. QED BY <3>1 DEF ScoresInv, Readings
  <2>2. CASE ~(i <= Len(seen))
    <3>1. i = Len(seen) + 1 /\ seen'[i] = x
      BY <1>4, <2>2
    <3>. QED BY <1>2, <3>1 DEF ScoresInv, Control
  <2>. QED BY <2>1, <2>2
<1>8. Len(seen') <= 4
  BY <1>4, <1>5
<1>. QED BY <1>4, <1>5, <1>6, <1>7, <1>8 DEF Readings

\* A query that answers keeps the invariant.
LEMMA QueryOK == ScoresInv /\ Query => ScoresInv'
<1>. SUFFICES ASSUME ScoresInv, Query PROVE ScoresInv'
  OBVIOUS
<1>1. Len(seen) < Len(Windows) /\ UNCHANGED logs
      /\ seen' = Append(seen, [metrics |-> ReadNow(Windows[Len(seen) + 1]), out |-> limited])
  BY DEF Query
<1>2. Len(seen) + 1 \in 1..4
  BY <1>1, WindowsAre DEF ScoresInv, Readings
<1>3. \A a \in Accounts : Reading(ReadNow(Windows[Len(seen) + 1])[a], a, Windows[Len(seen) + 1])
  <2>. DEFINE w == Windows[Len(seen) + 1]
  <2>1. w \in Int /\ LogsOK(Now)
    BY <1>2, WindowsAre DEF ScoresInv
  <2>. HIDE DEF w
  <2>2. \A a \in Accounts : Reading(ReadNow(w)[a], a, w)
    BY <2>1, ReadingNow
  <2>. QED BY <2>2 DEF w
<1>4. Readings'
  BY <1>1, <1>3, ReadOne
<1>5. Now' = Now
  BY DEF Query, Now, logs
<1>6. Control' /\ WalkInv' /\ Reasons'
  BY DEF Query, ScoresInv, Control, WalkInv, WalkTypeOK, Reasons, walk
<1>. QED BY <1>4, <1>5, <1>6 DEF ScoresInv

\* A query that fails keeps the invariant: its window counts as empty, or the
\* cycle ends.
LEMMA QueryFailsOK == ScoresInv /\ QueryFails => ScoresInv'
<1>. SUFFICES ASSUME ScoresInv, QueryFails PROVE ScoresInv'
  OBVIOUS
<1>1. count \in Counts /\ todo = {}
  BY DEF ScoresInv, Control, QueryFails
<1>2. count' \in Counts /\ count'.req = count.req /\ count'.id = count.id
  BY <1>1 DEF QueryFails, Fault, Counts
<1>3. UNCHANGED <<env, walk, logs, rec, grounds>> /\ limited' = limited /\ todo' = todo
  BY DEF QueryFails, logs
<1>4. CASE seen = << >>
  <2>1. phase' = "failed" /\ seen' = seen
    BY <1>4 DEF QueryFails
  <2>. QED BY <1>1, <1>2, <1>3, <1>4, <2>1, Quiet DEF ScoresInv, Control
<1>5. CASE seen # << >>
  <2>1. /\ seen' = Append(seen, [metrics |-> NoMetrics, out |-> limited])
        /\ phase' = phase /\ Len(seen) < Len(Windows) /\ UNCHANGED logs
    BY <1>5 DEF QueryFails
  <2>2. \A a \in Accounts : Reading(NoMetrics[a], a, Windows[Len(seen) + 1])
    BY NothingRead DEF ScoresInv
  <2>3. Readings'
    BY <2>1, <2>2, ReadOne
  <2>4. Now' = Now
    BY <1>2, <1>3 DEF Now, logs
  <2>5. Control' /\ WalkInv' /\ Reasons'
    BY <1>2, <1>3, <2>1 DEF ScoresInv, Control, WalkInv, WalkTypeOK, Reasons, walk
  <2>. QED BY <2>3, <2>4, <2>5 DEF ScoresInv
<1>. QED BY <1>4, <1>5

\* The views of a cycle are made of its four readings, in their order.
LEMMA ViewsAre ==
  Views = [a \in Accounts |-> View(seen[1].metrics[a], seen[2].metrics[a],
                                   seen[3].metrics[a], seen[4].metrics[a])]
BY TableIs DEF Views, Table

\* A direct cost of an account is made of enough that was billed to it.
LEMMA DirectGrounds ==
  ASSUME ScoresInv, Len(seen) = Len(Windows), NEW a \in Accounts
  PROVE  LET d == DirectCost(Views[a])
         IN /\ d.valid \in BOOLEAN /\ d.weight \in 0..100 /\ d.cost \in Nat
            /\ d.valid => d.cost \in Nat \ {0} /\ a \in Grounded
<1>. DEFINE v == Views[a]
            fast == seen[2].metrics[a]
            main == seen[3].metrics[a]
<1>1. v.fast = Snapshot(fast) /\ v.main = Snapshot(main)
  BY ViewsAre DEF View
<1>2. Reading(fast, a, FastWindow) /\ Reading(main, a, MainWindow)
  <2>1. 2 \in 1..Len(seen) /\ 3 \in 1..Len(seen)
    BY WindowsAre
  <2>. QED BY <2>1, WindowsAre DEF ScoresInv, Readings
<1>. HIDE DEF fast, main, v
<1>3. /\ Sample(v.fast) /\ v.fast.priced = fast.priced /\ v.fast.tokens = fast.tokens
      /\ Sample(v.main) /\ v.main.priced = main.priced /\ v.main.tokens = main.tokens
  BY <1>1, <1>2, SnapshotSample DEF Reading
<1>4. /\ DirectCost(v).valid \in BOOLEAN /\ DirectCost(v).weight \in 0..100
      /\ DirectCost(v).cost \in Nat
      /\ DirectCost(v).valid =>
           /\ DirectCost(v).cost \in Nat \ {0}
           /\ Meets(v.fast, FastRequests, FastTokens) \/ Meets(v.main, MainRequests, MainTokens)
  BY <1>3, DirectIs
<1>5. {FastRequests, FastTokens, MainRequests, MainTokens} \subseteq Nat
  BY CostsAssumption
<1>6. Meets(v.fast, FastRequests, FastTokens) => Enough(a, FastWindow, FastRequests, FastTokens)
  <2>. DEFINE n == Cardinality(Billed(a, FastWindow))
              t == Total(Tokens, Billed(a, FastWindow))
  <2>1. n \in Nat /\ t \in Nat
    BY BilledTypes DEF ScoresInv
  <2>2. fast.priced <= n /\ fast.tokens <= t /\ fast.priced \in Nat /\ fast.tokens \in Nat
    BY <1>2 DEF Reading
  <2>. HIDE DEF n, t
  <2>3. Meets(v.fast, FastRequests, FastTokens) => n >= FastRequests /\ t >= FastTokens
    BY <1>3, <1>5, <2>1, <2>2 DEF Meets
  <2>. QED BY <2>3 DEF Enough, n, t
<1>7. Meets(v.main, MainRequests, MainTokens) => Enough(a, MainWindow, MainRequests, MainTokens)
  <2>. DEFINE n == Cardinality(Billed(a, MainWindow))
              t == Total(Tokens, Billed(a, MainWindow))
  <2>1. n \in Nat /\ t \in Nat
    BY BilledTypes DEF ScoresInv
  <2>2. main.priced <= n /\ main.tokens <= t /\ main.priced \in Nat /\ main.tokens \in Nat
    BY <1>2 DEF Reading
  <2>. HIDE DEF n, t
  <2>3. Meets(v.main, MainRequests, MainTokens) => n >= MainRequests /\ t >= MainTokens
    BY <1>3, <1>5, <2>1, <2>2 DEF Meets
  <2>. QED BY <2>3 DEF Enough, n, t
<1>8. DirectCost(v).valid => a \in Grounded
  BY <1>4, <1>6, <1>7 DEF Grounded
<1>. QED BY <1>4, <1>8 DEF v

\* The cycle starts from the priorities as they are.
LEMMA CurrentIs ==
  ASSUME WalkInv
  PROVE  Current = prio
<1>1. \A a \in Accounts : prio[a] \in 1..Unavailable
  BY DEF WalkInv, WalkTypeOK, Priorities
<1>2. Unavailable \in Nat /\ Unavailable <= 10000
  BY ScaleAssumption
<1>3. \A a \in Accounts : NormalizedPriority(prio[a]) = prio[a]
  BY <1>1, <1>2 DEF NormalizedPriority
<1>. QED BY <1>3 DEF Current, WalkInv, WalkTypeOK

\* Scoring the four windows leaves an account its priority unless it is out or
\* what was billed to it within the main or the fast window is enough.
LEMMA Advises ==
  ASSUME ScoresInv, Len(seen) = Len(Windows), NEW a \in Accounts
  PROVE  LET r == Recommendations(Views, Current, E.rates, E.member, seen[1].out)[a]
         IN /\ r.want \in Priorities /\ r.kind \in Kinds
            /\ a \in seen[1].out => r.want = Unavailable
            /\ a \notin seen[1].out \cup Grounded => r.want = prio[a]
<1>. DEFINE views == Views
            rates == E.rates
            member == E.member
            out == seen[1].out
<1>1. DOMAIN views = Accounts
  BY ViewsAre
<1>2. Current \in [Accounts -> Priorities] /\ Current[a] = prio[a]
  BY CurrentIs DEF ScoresInv, WalkInv, WalkTypeOK
<1>3. \A x \in Accounts : /\ DirectCost(views[x]).valid => DirectCost(views[x]).cost \in Nat \ {0}
                          /\ DirectCost(views[x]).valid => x \in Grounded
  BY DirectGrounds
<1>. HIDE DEF views, rates, member, out
<1>4. LET r == Recommendations(views, Current, rates, member, out)[a]
      IN /\ r.want \in Priorities /\ r.kind \in Kinds
         /\ a \in out => r.want = Unavailable
         /\ a \notin out /\ ~DirectCost(views[a]).valid => r.want = Current[a]
  BY <1>1, <1>2, <1>3, Recommended
<1>. QED BY <1>2, <1>3, <1>4 DEF views, rates, member, out

\* Scoring recommends within the scale, excludes who was out when the first
\* window was read, and moves nobody without a reason.
LEMMA ScoreIs ==
  ASSUME ScoresInv, Score
  PROVE  /\ Scored(want', hard') /\ UNCHANGED prio /\ hard' = seen[1].out /\ grounds' = Grounded
         /\ \A a \in Accounts : a \notin hard' \cup grounds' => want'[a] = prio[a]
<1>1. Len(seen) = Len(Windows)
  BY DEF Score
<1>. DEFINE R == Recommendations(Views, Current, E.rates, E.member, seen[1].out)
<1>2. /\ want' = [a \in Accounts |-> R[a].want] /\ UNCHANGED prio
      /\ hard' = seen[1].out /\ grounds' = Grounded
  BY DEF Score
<1>3. \A a \in Accounts : /\ R[a].want \in Priorities
                          /\ a \in seen[1].out => R[a].want = Unavailable
                          /\ a \notin seen[1].out \cup Grounded => R[a].want = prio[a]
  BY <1>1, Advises
<1>. HIDE DEF R
<1>4. seen[1].out \subseteq Accounts
  <2>1. 1 \in 1..Len(seen)
    BY <1>1, WindowsAre
  <2>. QED BY <2>1 DEF ScoresInv, Readings
<1>. QED BY <1>2, <1>3, <1>4 DEF Scored

\* Scoring keeps the invariant.
LEMMA ScoreOK == ScoresInv /\ Score => ScoresInv'
<1>. SUFFICES ASSUME ScoresInv, Score PROVE ScoresInv'
  OBVIOUS
<1>1. /\ Scored(want', hard') /\ UNCHANGED prio /\ grounds' = Grounded
      /\ \A a \in Accounts : a \notin hard' \cup grounds' => want'[a] = prio[a]
  BY ScoreIs
<1>2. WalkInv' /\ Reasons'
  BY <1>1 DEF ScoresInv, WalkInv, WalkTypeOK, Scored, Reasons
<1>3. Control'
  BY <1>1 DEF Score, ScoresInv, Control, Grounded
<1>4. Now' = Now
  BY DEF Score, Now, logs
<1>5. Readings'
  BY NoReadings DEF Score
<1>. QED BY <1>2, <1>3, <1>4, <1>5 DEF ScoresInv

\* Writing one priority keeps the invariant: the account that has arrived has
\* nothing left to move for.
LEMMA AdjustOK == ASSUME NEW a \in Accounts PROVE ScoresInv /\ Adjust(a) => ScoresInv'
<1>. SUFFICES ASSUME ScoresInv, Adjust(a) PROVE ScoresInv'
  OBVIOUS
<1>1. WalkInv' /\ Reasons'
  <2>1. CASE Write(a)
    <3>1. WalkInv'
      BY <2>1, WalkWrite DEF ScoresInv
    <3>2. a \in hard \cup grounds /\ grounds' = grounds
      BY <2>1 DEF Write, ScoresInv, Reasons, Adjust
    <3>3. Reasons'
      BY <2>1, <3>2 DEF Write, ScoresInv, Reasons, WalkInv, WalkTypeOK
    <3>. QED BY <3>1, <3>3
  <2>2. CASE UNCHANGED walk
    BY <2>2 DEF Adjust, ScoresInv, WalkInv, WalkTypeOK, Reasons, walk
  <2>. QED BY <2>1, <2>2 DEF Adjust
<1>2. Control'
  BY DEF Adjust, ScoresInv, Control
<1>3. LogsOK(Now)' /\ Readings'
  <2>1. UNCHANGED <<logs, seen>> /\ count' = count
    BY DEF Adjust
  <2>. QED BY <2>1, ReadingStays
<1>. QED BY <1>1, <1>2, <1>3 DEF ScoresInv

\* Every step of the model keeps the invariant.
LEMMA ScoresStay == ScoresInv /\ [Next]_vars => ScoresInv'
<1>. SUFFICES ASSUME ScoresInv, [Next]_vars PROVE ScoresInv'
  OBVIOUS
<1>1. CASE UNCHANGED vars
  <2>1. UNCHANGED <<env, walk, logs, seen, rec, grounds, count, limited, phase, todo>>
    BY <1>1 DEF vars, walk, logs
  <2>2. count' \in Counts /\ limited' \subseteq Accounts /\ phase' \in {"reading", "writing", "failed"}
    BY <2>1 DEF ScoresInv, Control
  <2>. QED BY <2>1, <2>2, Quiet
<1>2. CASE \E a \in Accounts : Limit(a) \/ Adjust(a)
  BY <1>2, LimitOK, AdjustOK
<1>3. CASE Tick \/ LogLate \/ Query \/ QueryFails \/ Score
  BY <1>3, TickOK, LogLateOK, QueryOK, QueryFailsOK, ScoreOK
<1>. QED BY <1>1, <1>2, <1>3 DEF Next

\* In every state the logs are consistent, what a cycle has read of an account is
\* no more than was billed to it, and a priority that is to move has a reason.
THEOREM ScoresInvariant == Spec => []ScoresInv
<1>. QED BY InitOK, ScoresStay, PTL DEF Spec

\* The one query behind every score (store.go) counts requests and not rows, for
\* all traffic: however often a request is logged, under whichever ids, by
\* whichever accounts, and whether it failed before or after it was answered,
\* each account is billed once and blamed once.
THEOREM QueriesTellTheTruth == Spec => []MetricsAreTrue
<1>1. ScoresInv => MetricsAreTrue
  <2>. SUFFICES ASSUME ScoresInv, phase = "reading" /\ Len(seen) < Len(Windows)
                PROVE  MetricsAreTrue
    BY DEF MetricsAreTrue
  <2>. DEFINE w == Windows[Len(seen) + 1]
  <2>1. w \in Int
    BY WindowsAre DEF ScoresInv, Readings
  <2>. HIDE DEF w
  <2>2. \A a \in Accounts : ReadNow(w)[a] = Metrics(usage, errors, a, -w)
    BY DEF ReadNow
  <2>3. LogsOK(Now)
    BY DEF ScoresInv
  <2>4. ASSUME NEW a \in Accounts
        PROVE  LET m == ReadNow(w)[a]
               IN /\ m.priced = Cardinality(Billed(a, w))
                  /\ m.tokens = Total(Tokens, Billed(a, w))
                  /\ m.cost = Total(CostOf, Billed(a, w))
                  /\ m.failures = Cardinality(LostRequests(a, w))
                  /\ m.recovered = Cardinality(FailedRequests(a, w)) - m.failures
                  /\ m.takenOver = Cardinality(SavedElsewhere(a, w))
                  /\ m.trailing = Cardinality({q \in LostRequests(a, w) :
                                                 LastFailure(a, w, q) > LastAnswer(a, w)})
    BY <2>1, <2>2, <2>3, QueryTrue
  <2>. QED BY <2>4 DEF MetricsAreTrue, w
<1>. QED BY <1>1, ScoresInvariant, PTL

\* No priority ever moves but of an account that is excluded or has enough
\* measured requests and tokens billed to it: not from an estimate, not from a
\* window whose query failed, and not from rows that came late between two
\* queries of one cycle.
THEOREM MovesRestOnEvidence == Spec => MovesAreMeasured
<1>1. ASSUME ScoresInv, [Next]_vars, NEW a \in Accounts, prio'[a] # prio[a]
      PROVE  a \in hard \cup grounds
  <2>1. PICK b \in Accounts : Write(b)
    BY <1>1 DEF Next, Tick, LogLate, Query, QueryFails, Score, Limit, Adjust, walk, vars
  <2>2. b = a
    BY <1>1, <2>1 DEF Write, ScoresInv, WalkInv, WalkTypeOK
  <2>. QED BY <1>1, <2>1, <2>2 DEF Write, ScoresInv, Reasons
<1>2. ScoresInv /\ [Next]_vars => [\A a \in Accounts : prio'[a] # prio[a] => a \in hard \cup grounds]_vars
  BY <1>1
<1>. QED BY <1>2, ScoresInvariant, PTL DEF Spec, MovesAreMeasured

\* The scoring of measured traffic implements the walk: each step of it rescores,
\* writes one priority by the ramp, or does not touch the priorities.
THEOREM ScoresWalk == Spec => WalkSpec
<1>1. Init => WalkInit
  <2>. SUFFICES ASSUME Init PROVE WalkInit
    OBVIOUS
  <2>1. Environment(E)
    BY EnvironmentIs DEF Init
  <2>. QED BY <2>1 DEF Init, WalkInit, Scored, Environment, Priorities
<1>2. ScoresInv /\ [Next]_vars => [WalkNext]_walk
  <2>. SUFFICES ASSUME ScoresInv, [Next]_vars PROVE [WalkNext]_walk
    OBVIOUS
  <2>1. CASE Tick
    BY <2>1 DEF Tick, ScoresInv, WalkInv, WalkTypeOK, WalkNext, Rescore, Scored
  <2>2. CASE Score
    BY <2>2, ScoreIs DEF WalkNext, Rescore
  <2>3. CASE \E a \in Accounts : Adjust(a)
    BY <2>3 DEF Adjust, WalkNext
  <2>4. CASE LogLate \/ Query \/ QueryFails \/ (\E a \in Accounts : Limit(a)) \/ UNCHANGED vars
    BY <2>4 DEF LogLate, Query, QueryFails, Limit, vars, walk
  <2>. QED BY <2>1, <2>2, <2>3, <2>4 DEF Next
<1>. QED BY <1>1, <1>2, ScoresInvariant, PTL DEF Spec, WalkSpec

\* So no write that follows a scoring passes its target or moves away from it.
THEOREM ScoresNeverOvershoot == Spec => NeverOvershoots
BY ScoresWalk, WritesNeverOvershoot, PTL
-----------------------------------------------------------------------------
(* Pools: types of what is read and estimated.                              *)

PoolSample(s) ==
  /\ s.priced \in Nat /\ s.continuous \in Nat /\ s.tokens \in Nat
  /\ s.input \in Nat /\ s.output \in Nat /\ s.base \in Nat /\ s.baseOut \in Nat
  /\ s.last \in Int /\ s.last <= 0

\* What is read of the rows of a pool are counts, sums and a stamp of the past.
LEMMA PoolMetricsIs ==
  ASSUME NEW rows, IsFiniteSet(rows),
         \A r \in rows : /\ r.input \in Nat /\ r.output \in Nat
                         /\ r.inCost \in Nat /\ r.outCost \in Nat
                         /\ r.at \in Int /\ r.at < 0
  PROVE  PoolSample(PoolMetrics(rows))
<1>. DEFINE m == PoolMetrics(rows)
<1>1. m.priced \in Nat /\ m.continuous \in Nat
  <2>1. Continuous(rows) \in SUBSET rows
    BY DEF Continuous
  <2>. QED BY <2>1, FS_Subset, FS_CardinalityType DEF PoolMetrics
<1>2. m.tokens \in Nat
  <2>1. [r \in rows |-> Tokens(r)] \in [rows -> Nat]
    BY DEF Tokens
  <2>. QED BY <2>1, SumOverIsNat DEF PoolMetrics, Total
<1>3. m.input \in Nat
  <2>1. [r \in rows |-> InputOf(r)] \in [rows -> Nat]
    BY DEF InputOf
  <2>. QED BY <2>1, SumOverIsNat DEF PoolMetrics, Total
<1>4. m.output \in Nat
  <2>1. [r \in rows |-> OutputOf(r)] \in [rows -> Nat]
    BY DEF OutputOf
  <2>. QED BY <2>1, SumOverIsNat DEF PoolMetrics, Total
<1>5. m.base \in Nat
  <2>1. [r \in rows |-> ListCost(r)] \in [rows -> Nat]
    BY DEF ListCost
  <2>. QED BY <2>1, SumOverIsNat DEF PoolMetrics, Total
<1>6. m.baseOut \in Nat
  <2>1. [r \in rows |-> OutCostOf(r)] \in [rows -> Nat]
    BY DEF OutCostOf
  <2>. QED BY <2>1, SumOverIsNat DEF PoolMetrics, Total
<1>7. m.last \in Int /\ m.last <= 0
  <2>. DEFINE S == {r.at : r \in rows} \cup {Never}
  <2>1. Never \in Int /\ Never <= 0
    BY DEF Never
  <2>2. S \in SUBSET Int /\ S # {} /\ \A x \in S : x <= 0
    BY <2>1
  <2>3. m.last = Max(S)
    BY DEF PoolMetrics, Latest
  <2>. HIDE DEF S, m
  <2>4. \E x \in S : \A y \in S : x >= y
    BY <2>2, Largest
  <2>5. Max(S) \in S
    BY <2>4 DEF Max
  <2>. QED BY <2>2, <2>3, <2>5
<1>. QED BY <1>1, <1>2, <1>3, <1>4, <1>5, <1>6, <1>7 DEF PoolSample

\* A pool without rows is one, too.
LEMMA NoPoolIs == PoolSample(NoPool)
BY FS_EmptySet, PoolMetricsIs DEF NoPool

\* A query reads such counts of every account and pool.
LEMMA PoolsRead ==
  ASSUME LogsOK(Now), NEW w \in Int, NEW a \in Accounts, NEW p \in Pools
  PROVE  PoolSample(ReadNow(w)[a].pools[p])
<1>1. ReadNow(w)[a].pools = PoolsOf(Mine(a, w))
  BY MetricsFields DEF ReadNow
<1>2. ReadNow(w)[a].pools[p] = PoolMetrics(PoolRows(Mine(a, w), p))
  BY <1>1 DEF PoolsOf
<1>3. PoolRows(Mine(a, w), p) \in SUBSET usage
  BY DEF PoolRows, Mine, UsageRows, LastRows, Between
<1>4. usage \subseteq UsageRecords /\ IsFiniteSet(usage)
  BY DEF LogsOK, LogTypes, Now
<1>5. \A r \in usage : /\ r.input \in Nat /\ r.output \in Nat
                       /\ r.inCost \in Nat /\ r.outCost \in Nat
                       /\ r.at \in Int /\ r.at < 0
  BY <1>4, RowTypes DEF UsageRecords
<1>. QED BY <1>2, <1>3, <1>4, <1>5, FS_Subset, PoolMetricsIs

\* So does one that failed.
LEMMA PoolsNotRead ==
  ASSUME NEW a \in Accounts, NEW p \in Pools
  PROVE  PoolSample(NoMetrics[a].pools[p])
<1>. DEFINE mine == {r \in UsageRows({}, 0) : r.account = a}
<1>1. mine = {}
  BY DEF UsageRows, LastRows, Between
<1>2. NoMetrics[a].pools = PoolsOf(mine)
  <2>. DEFINE failed == {e \in ErrorRequests({}, 0) : e.account = a}
              final == {e \in failed : ~Recovered(UsageRows({}, 0), e)}
              lastOk == Latest({r.at : r \in mine})
              u == UsageOf(mine)
              f == ErrorsOf(failed, final, UsageRows({}, 0), lastOk)
              q == [pools |-> PoolsOf(mine)]
  <2>1. NoMetrics[a] = Joined(u, Joined(f, q))
    BY DEF NoMetrics, Metrics
  <2>2. /\ DOMAIN u = {"successes", "priced", "tokens", "cost", "last"}
        /\ DOMAIN f = {"failures", "lastFailed", "trailing", "recovered", "limited", "takenOver"}
        /\ DOMAIN q = {"pools"} /\ q.pools = PoolsOf(mine)
    BY DEF UsageOf, ErrorsOf
  <2>. HIDE DEF u, f, q
  <2>3. DOMAIN Joined(f, q) = DOMAIN f \cup DOMAIN q /\ Joined(f, q).pools = q.pools
    BY <2>2 DEF Joined
  <2>4. Joined(u, Joined(f, q)).pools = Joined(f, q).pools
    BY <2>2, <2>3 DEF Joined
  <2>. QED BY <2>1, <2>2, <2>3, <2>4
<1>3. NoMetrics[a].pools[p] = PoolMetrics(PoolRows({}, p))
  BY <1>1, <1>2 DEF PoolsOf
<1>4. PoolRows({}, p) = {}
  BY DEF PoolRows
<1>. QED BY <1>3, <1>4, NoPoolIs DEF NoPool

Halves(f, w, k) == f = [n \in 0..k |-> IF n = 0 THEN w ELSE f[n - 1] \div 2]

\* A weight can be halved any number of times.
LEMMA HalvesExist ==
  ASSUME NEW w \in Nat, NEW k \in Nat
  PROVE  \E f : Halves(f, w, k)
<1>. DEFINE Bad == {n \in Nat : ~\E f : Halves(f, w, n)}
<1>1. ASSUME Bad # {} PROVE FALSE
  <2>1. PICK n \in Bad : \A m \in Bad : n <= m
    <3>1. Bad \in SUBSET Nat
      OBVIOUS
    <3>. HIDE DEF Bad
    <3>. QED BY <1>1, <3>1, Smallest
  <2>2. CASE n = 0
    <3>1. Halves([i \in 0..0 |-> w], w, 0)
      BY DEF Halves
    <3>. QED BY <2>1, <2>2, <3>1
  <2>3. CASE n # 0
    <3>1. n \in Nat /\ n - 1 \in Nat /\ ~(n <= n - 1)
      BY <2>3
    <3>2. PICK g : Halves(g, w, n - 1)
      BY <2>1, <3>1
    <3>. DEFINE f == [i \in 0..n |-> IF i = n THEN g[n - 1] \div 2 ELSE g[i]]
    <3>3. ASSUME NEW i \in 0..n
          PROVE  f[i] = IF i = 0 THEN w ELSE f[i - 1] \div 2
      <4>1. CASE i = n
        BY <2>3, <3>1, <4>1
      <4>2. CASE i # n
        <5>1. i \in 0..(n - 1) /\ (i # 0 => i - 1 \in 0..(n - 1) /\ i - 1 # n)
          BY <3>1, <4>2
        <5>2. g[i] = IF i = 0 THEN w ELSE g[i - 1] \div 2
          BY <3>2, <5>1 DEF Halves
        <5>. QED BY <3>1, <4>2, <5>1, <5>2
      <4>. QED BY <4>1, <4>2
    <3>4. DOMAIN f = 0..n /\ f = [i \in 0..n |-> f[i]]
      OBVIOUS
    <3>. HIDE DEF f
    <3>5. Halves(f, w, n)
      BY <3>3, <3>4 DEF Halves
    <3>. QED BY <2>1, <3>5
  <2>. QED BY <2>2, <2>3
<1>. QED BY <1>1

\* Halving leaves a weight that is no greater.
LEMMA HalvesFall ==
  ASSUME NEW w \in Nat, NEW k \in Nat, NEW f, Halves(f, w, k)
  PROVE  f[k] \in Nat /\ f[k] <= w
<1>. DEFINE Bad == {n \in 0..k : ~(f[n] \in Nat /\ f[n] <= w)}
<1>1. ASSUME Bad # {} PROVE FALSE
  <2>1. PICK n \in Bad : \A m \in Bad : n <= m
    <3>1. Bad \in SUBSET Nat
      OBVIOUS
    <3>. HIDE DEF Bad
    <3>. QED BY <1>1, <3>1, Smallest
  <2>2. f[n] = IF n = 0 THEN w ELSE f[n - 1] \div 2
    BY <2>1 DEF Halves
  <2>3. CASE n = 0
    BY <2>1, <2>2, <2>3
  <2>4. CASE n # 0
    <3>1. n - 1 \in 0..k /\ ~(n <= n - 1)
      BY <2>1, <2>4
    <3>2. f[n - 1] \in Nat /\ f[n - 1] <= w
      BY <2>1, <3>1
    <3>3. f[n] \in Nat /\ f[n] <= w
      BY <2>2, <2>4, <3>2
    <3>. QED BY <2>1, <3>3
  <2>. QED BY <2>3, <2>4
<1>. QED BY <1>1

\* Old evidence weighs no more than it did (historicalPoolCost).
LEMMA DecayedIs ==
  ASSUME NEW w \in Nat, NEW age \in Nat
  PROVE  Decayed(w, age) \in Nat /\ Decayed(w, age) <= w
<1>. DEFINE k == age \div HalfLife
            it == CHOOSE f : Halves(f, w, k)
<1>1. k \in Nat
  BY CostsAssumption
<1>2. Decayed(w, age) = it[k]
  BY DEF Decayed, Halves
<1>. HIDE DEF k
<1>3. Halves(it, w, k)
  BY <1>1, HalvesExist
<1>. HIDE DEF it
<1>. QED BY <1>1, <1>2, <1>3, HalvesFall

\* There is a value at every place of the order.
LEMMA AtPlaceIs ==
  ASSUME NEW S, IsFiniteSet(S), NEW of \in [S -> Nat], NEW k \in 1..Cardinality(S)
  PROVE  AtPlace(of, k) \in Nat
<1>. DEFINE Below(v) == {a \in S : of[a] < v}
            UpTo(v) == {a \in S : of[a] <= v}
            T == {v \in Range(of) : k <= Cardinality(UpTo(v))}
<1>0. /\ Range(of) \in SUBSET Nat /\ \A a \in S : of[a] \in Range(of)
      /\ \A v : Below(v) \in SUBSET S /\ UpTo(v) \in SUBSET S
  BY DEF Range
<1>1. Cardinality(S) \in Nat /\ k \in Nat /\ 1 <= k /\ k <= Cardinality(S)
  BY FS_CardinalityType
<1>2. \A v : IsFiniteSet(Below(v)) /\ Cardinality(Below(v)) \in Nat /\ Cardinality(UpTo(v)) \in Nat
  BY <1>0, FS_Subset, FS_CardinalityType
<1>3. T # {}
  <2>1. SumOver(of) \in Int /\ \A a \in S : of[a] <= SumOver(of)
    <3>1. SumOver(of) \in Nat /\ \A a \in S : SumOver(of) >= of[a]
      BY SumOverIsNat
    <3>2. \A a \in S : of[a] \in Nat
      OBVIOUS
    <3>. QED BY <3>1, <3>2
  <2>2. S # {}
    BY <1>1, FS_EmptySet
  <2>3. Range(of) \in SUBSET Int /\ Range(of) # {} /\ \A v \in Range(of) : v <= SumOver(of)
    BY <2>1, <2>2 DEF Range
  <2>4. PICK v \in Range(of) : \A u \in Range(of) : v >= u
    BY <2>1, <2>3, Largest
  <2>5. UpTo(v) = S
    BY <1>0, <2>4
  <2>. QED BY <1>1, <2>4, <2>5
<1>4. PICK v \in T : \A u \in T : v <= u
  <2>1. T \in SUBSET Nat
    BY <1>0
  <2>. HIDE DEF T
  <2>. QED BY <1>3, <2>1, Smallest
<1>5. v \in Nat /\ v \in Int /\ v \in Range(of) /\ k <= Cardinality(UpTo(v))
  BY <1>0, <1>4
<1>6. Cardinality(Below(v)) < k
  <2>0. Cardinality(Below(v)) \in Nat /\ k \in Nat
    <3>. HIDE DEF Below
    <3>. QED BY <1>1, <1>2
  <2>. SUFFICES ASSUME k <= Cardinality(Below(v)) PROVE FALSE
    <3>. HIDE DEF Below
    <3>. QED BY <2>0
  <2>. DEFINE V == {of[a] : a \in Below(v)}
  <2>1. Below(v) # {}
    BY <1>1, <1>2, FS_EmptySet
  <2>2. V \in SUBSET Int /\ V # {} /\ \A u \in V : u <= v
    BY <1>0, <1>5, <2>1
  <2>3. PICK u \in V : \A x \in V : u >= x
    <3>. HIDE DEF V
    <3>. QED BY <1>5, <2>2, Largest
  <2>4. u \in Nat /\ u < v /\ u \in Range(of)
    BY <1>0, <1>5, <2>3
  <2>5. UpTo(u) = Below(v)
    BY <1>5, <2>3, <2>4
  <2>6. u \in T
    BY <2>4, <2>5
  <2>. QED BY <1>4, <1>5, <2>4, <2>6
<1>7. AtPlace(of, k) = CHOOSE x \in Range(of) : Cardinality(Below(x)) < k /\ k <= Cardinality(UpTo(x))
  BY DEF AtPlace
<1>. HIDE DEF Below, UpTo
<1>. QED BY <1>0, <1>5, <1>6, <1>7

\* A median is a number of the kind it is of.
LEMMA MedianIs ==
  ASSUME NEW S, IsFiniteSet(S), S # {}, NEW of \in [S -> Nat]
  PROVE  Median(of) \in Nat
<1>. DEFINE n == Cardinality(S)
<1>1. n \in Nat \ {0}
  BY FS_CardinalityType, FS_EmptySet
<1>2. ((n + 1) \div 2 \in 1..n) /\ (n \div 2 + 1 \in 1..n)
  <2>. HIDE DEF n
  <2>. QED BY <1>1
<1>3. AtPlace(of, (n + 1) \div 2) \in Nat /\ AtPlace(of, n \div 2 + 1) \in Nat
  BY <1>1, <1>2, AtPlaceIs
<1>4. Median(of) = (AtPlace(of, (n + 1) \div 2) + AtPlace(of, n \div 2 + 1)) \div 2
  BY DEF Median
<1>. HIDE DEF n
<1>. QED BY <1>3, <1>4
-----------------------------------------------------------------------------
(* Estimates: what is made of pools are costs and percentages.               *)

\* What a number of parts costs in proportion to the whole.
LEMMA Shared ==
  ASSUME NEW x \in Nat, NEW d \in Nat \ {0}
  PROVE  x \div d \in Nat
OBVIOUS

\* A price by the list is a number of units.
LEMMA PerIs ==
  ASSUME NEW cost \in Nat, NEW tokens \in Nat \ {0}
  PROVE  Per(cost, tokens) \in Nat
<1>1. cost * Unit \in Nat
  BY CostsAssumption
<1>. QED BY <1>1, Shared DEF Per

\* The price of a mix is one, too: it is read of samples that have both kinds of
\* tokens the mix is made of (baseCostForMix).
LEMMA MixedIs ==
  ASSUME NEW s, PoolSample(s), NEW input \in Nat, NEW total \in Nat \ {0}
  PROVE  MixedCost(s, input, total) \in Nat
<1>. DEFINE none == ~Usable(s) \/ (input > 0 /\ s.input = 0) \/ (input < total /\ s.output = 0)
            in == IF input > 0 THEN input * Per(s.base - s.baseOut, s.input) ELSE 0
            ou == IF input < total THEN (total - input) * Per(s.baseOut, s.output) ELSE 0
<1>1. MixedCost(s, input, total) = IF none THEN 0 ELSE (in + ou) \div total
  BY DEF MixedCost
<1>2. CASE none
  <2>. HIDE DEF none, in, ou
  <2>. QED BY <1>1, <1>2
<1>3. CASE ~none
  <2>1. s.base - s.baseOut \in Nat /\ s.baseOut \in Nat
    BY <1>3 DEF Usable, PoolSample
  <2>2. in \in Nat
    <3>1. CASE input > 0
      <4>1. s.input \in Nat \ {0}
        BY <1>3, <3>1 DEF PoolSample
      <4>2. Per(s.base - s.baseOut, s.input) \in Nat
        BY <2>1, <4>1, PerIs
      <4>. QED BY <4>2
    <3>2. CASE ~(input > 0)
      BY <3>2
    <3>. QED BY <3>1, <3>2
  <2>3. ou \in Nat
    <3>1. CASE input < total
      <4>1. s.output \in Nat \ {0} /\ total - input \in Nat
        BY <1>3, <3>1 DEF PoolSample
      <4>2. Per(s.baseOut, s.output) \in Nat
        BY <2>1, <4>1, PerIs
      <4>. QED BY <4>1, <4>2
    <3>2. CASE ~(input < total)
      BY <3>2
    <3>. QED BY <3>1, <3>2
  <2>. HIDE DEF none, in, ou
  <2>. QED BY <1>1, <1>3, <2>2, <2>3, Shared
<1>. HIDE DEF none
<1>. QED BY <1>2, <1>3

\* The weight of a pool's sample is a percentage.
LEMMA PoolWeight ==
  ASSUME NEW s, PoolSample(s)
  PROVE  Weight(s) \in 0..100
BY WeightIs DEF PoolSample

Share(x) == x \in 0..100

\* History has a cost and a weight that is no more than what it had when it was
\* recent.
LEMMA HistoryIs ==
  ASSUME NEW w, PoolSample(w.day), PoolSample(w.week), NEW input \in Nat, NEW total \in Nat \ {0}
  PROVE  /\ History(w, input, total).cost \in Nat
         /\ History(w, input, total).weight \in 0..100
<1>1. ASSUME NEW s, PoolSample(s), NEW limit \in 0..100
      PROVE  /\ Memory(s, limit, input, total).cost \in Nat
             /\ Memory(s, limit, input, total).weight \in 0..100
  <2>. DEFINE v == Smaller(Weight(s), limit)
              d == Decayed(v, -s.last)
  <2>1. Memory(s, limit, input, total) = [cost |-> MixedCost(s, input, total), weight |-> d]
    BY DEF Memory
  <2>2. v \in 0..100
    BY <1>1, PoolWeight DEF Smaller
  <2>3. -s.last \in Nat
    BY <1>1 DEF PoolSample
  <2>. HIDE DEF v
  <2>4. v \in Nat /\ v <= 100
    BY <2>2
  <2>5. d \in Nat /\ d <= v
    BY <2>3, <2>4, DecayedIs
  <2>. HIDE DEF d
  <2>6. d \in 0..100
    BY <2>4, <2>5
  <2>7. MixedCost(s, input, total) \in Nat
    BY <1>1, MixedIs
  <2>. QED BY <2>1, <2>6, <2>7
<1>2. CASE Worth(w.day, input, total)
  BY <1>1, <1>2 DEF History
<1>3. CASE ~Worth(w.day, input, total) /\ Worth(w.week, input, total)
  BY <1>1, <1>3 DEF History
<1>4. CASE ~Worth(w.day, input, total) /\ ~Worth(w.week, input, total)
  BY <1>4 DEF History
<1>. QED BY <1>2, <1>3, <1>4

\* An estimate blends evidence, history and peers by parts of a hundred, so it
\* is a cost itself.
LEMMA EstimateIs ==
  ASSUME NEW rate \in Nat, NEW reference \in Nat, NEW mixed \in Nat, NEW seen1 \in 0..100,
         NEW old, old.cost \in Nat, old.weight \in 0..100, NEW best
  PROVE  LET e == Estimate(rate, reference, mixed, seen1, old, best)
         IN DOMAIN e = {"cost", "weight", "again"} /\ e.cost \in Nat /\ e.weight \in 0..100
<1>. DEFINE kept == Beside(old.weight, seen1)
            e == Estimate(rate, reference, mixed, seen1, old, best)
            part == 100 - seen1 - kept
            sum == part * reference + seen1 * mixed + kept * old.cost
<1>1. kept \in Nat /\ kept <= 100 - seen1
  <2>1. 100 - seen1 \in 0..100 /\ old.weight \in 0..100
    OBVIOUS
  <2>2. \A x, y \in 0..100 : (x * y) \div 100 \in Nat /\ (x * y) \div 100 <= y
    <3>. TAKE x \in 0..100, y \in 0..100
    <3>1. x * y \in Nat /\ x * y <= 100 * y
      OBVIOUS
    <3>. DEFINE z == x * y
    <3>. HIDE DEF z
    <3>2. z \in Nat /\ z <= 100 * y => z \div 100 \in Nat /\ z \div 100 <= y
      OBVIOUS
    <3>. QED BY <3>1, <3>2 DEF z
  <2>. QED BY <2>1, <2>2 DEF Beside
<1>2. /\ DOMAIN e = {"cost", "weight", "again"}
      /\ e.cost = (rate * sum) \div 100 /\ e.weight = seen1
  BY DEF Estimate, Blend
<1>. HIDE DEF kept, e
<1>3. part \in Nat /\ seen1 \in Nat
  BY <1>1
<1>. HIDE DEF part
<1>4. part * reference \in Nat /\ seen1 * mixed \in Nat /\ kept * old.cost \in Nat
  BY <1>1, <1>3
<1>5. sum \in Nat
  BY <1>4
<1>. HIDE DEF sum
<1>6. rate * sum \in Nat
  BY <1>5
<1>7. (rate * sum) \div 100 \in Nat
  BY <1>6, Shared
<1>8. e.cost \in Nat /\ e.weight \in 0..100
  BY <1>2, <1>7
<1>. QED BY <1>2, <1>8 DEF e

\* Peers have served tokens.
LEMMA RecentIs ==
  ASSUME NEW w, PoolSample(w.fast), PoolSample(w.main)
  PROVE  /\ PoolSample(Recent(w))
         /\ Qualified(w) => Recent(w).tokens \in Nat \ {0}
BY NoPoolIs DEF Recent, Qualified, Usable, PoolSample

\* A sum of greater numbers is greater.
LEMMA SumGrows ==
  ASSUME NEW S, IsFiniteSet(S), NEW f \in [S -> Nat], NEW g \in [S -> Nat],
         \A x \in S : f[x] <= g[x]
  PROVE  SumOver(f) <= SumOver(g)
<1>1. PICK h : SumOf(h, f, S)
  BY SumsExist
<1>2. PICK k : SumOf(k, g, S)
  BY SumsExist
<1>3. SumOver(f) = h[S] /\ SumOver(g) = k[S]
  BY <1>1, <1>2, SumOverIs
<1>4. Adds(h, f, S) /\ Adds(k, g, S)
  BY <1>1, <1>2 DEF SumOf
<1>. DEFINE Bad == {T \in SUBSET S : ~(h[T] <= k[T])}
<1>5. ASSUME Bad # {} PROVE FALSE
  <2>1. PICK T \in Bad : \A U \in Bad : ~(U \subseteq T /\ U # T)
    <3>1. Bad \in SUBSET (SUBSET S)
      OBVIOUS
    <3>. HIDE DEF Bad
    <3>. QED BY <1>5, <3>1, SmallestSubset
  <2>2. T # {}
    <3>1. h[{}] = 0 /\ k[{}] = 0
      BY <1>4 DEF Adds
    <3>2. h[{}] <= k[{}] /\ ~(h[T] <= k[T])
      <4>1. ~(h[T] <= k[T])
        BY <2>1
      <4>. QED BY <3>1, <4>1
    <3>. QED BY <3>2
  <2>3. PICK x \in T : TRUE
    BY <2>2
  <2>4. T \ {x} \in SUBSET S /\ T \ {x} \subseteq T /\ T \ {x} # T /\ x \in S
    BY <2>1, <2>3
  <2>5. h[T \ {x}] <= k[T \ {x}]
    BY <2>1, <2>4
  <2>6. h[T] = f[x] + h[T \ {x}] /\ k[T] = g[x] + k[T \ {x}]
    BY <1>4, <2>1, <2>3 DEF Adds
  <2>7. h[T \ {x}] \in Nat /\ k[T \ {x}] \in Nat /\ f[x] \in Nat /\ g[x] \in Nat /\ f[x] <= g[x]
    BY <1>4, <2>4 DEF Adds
  <2>8. h[T] <= k[T]
    BY <2>5, <2>6, <2>7
  <2>. QED BY <2>1, <2>8
<1>6. h[S] <= k[S]
  BY <1>5
<1>. QED BY <1>3, <1>6

Estimated(e) ==
  e.cost \in Nat /\ e.weight \in 0..100 /\ e.traffic \in Nat \ {0}

\* What is read of a pool of one account.
PoolView(w) == PoolSample(w.fast) /\ PoolSample(w.main) /\ PoolSample(w.day) /\ PoolSample(w.week)

\* At a mix of input and output that the peers had, every participant gets an
\* estimate if a peer has a price for it, and nobody otherwise.
LEMMA MixEstimates ==
  ASSUME NEW S, IsFiniteSet(S), NEW views, DOMAIN views = S, NEW p,
         \A a \in S : PoolView(views[a].pools[p]),
         NEW rates, \A a \in S : rates[a] \in Nat,
         NEW recent, DOMAIN recent = S, \A a \in S : PoolSample(recent[a]),
         NEW peers \in SUBSET S, NEW input \in Nat, NEW total \in Nat \ {0},
         NEW a \in DOMAIN AtShare(views, rates, p, recent, peers, input, total)
  PROVE  a \in S /\ Estimated(AtShare(views, rates, p, recent, peers, input, total)[a])
<1>. DEFINE mixed == [b \in S |-> MixedCost(recent[b], input, total)]
            priced == {b \in peers : mixed[b] > 0}
            reference == Reference(mixed, priced)
            best == BestRecent(recent, mixed, rates)
            Of(b) == Estimate(rates[b], reference, mixed[b],
                              IF mixed[b] > 0 THEN Weight(recent[b]) ELSE 0,
                              History(views[b].pools[p], input, total), best)
            it == Compared(views, rates, p, recent, mixed, priced, input, total, reference, best)
<1>1. AtShare(views, rates, p, recent, peers, input, total) = it
  <2>1. Table(DOMAIN views, LAMBDA b : MixedCost(recent[b], input, total)) = mixed
    BY TableIs DEF Table
  <2>. QED BY <2>1 DEF AtShare, AtMix
<1>2. mixed \in [S -> Nat]
  BY MixedIs
<1>. HIDE DEF mixed
<1>3. priced # {}
  <2>. SUFFICES ASSUME priced = {} PROVE FALSE
    OBVIOUS
  <2>1. it = << >>
    BY DEF Compared
  <2>. HIDE DEF it
  <2>. QED BY <1>1, <2>1
<1>4. reference \in Nat
  <2>1. IsFiniteSet(priced) /\ [b \in priced |-> mixed[b]] \in [priced -> Nat]
    BY <1>2, FS_Subset
  <2>. HIDE DEF priced
  <2>. QED BY <1>3, <2>1, MedianIs DEF Reference
<1>. HIDE DEF priced, reference, best
<1>5. it = [b \in S |-> Joined([traffic |-> total], Of(b))]
  BY <1>3, TableIs DEF Compared, Table
<1>. HIDE DEF it
<1>6. a \in S
  BY <1>1, <1>5
<1>. DEFINE old == History(views[a].pools[p], input, total)
            seen1 == IF mixed[a] > 0 THEN Weight(recent[a]) ELSE 0
<1>7. old.cost \in Nat /\ old.weight \in 0..100
  BY <1>6, HistoryIs DEF PoolView
<1>8. seen1 \in 0..100
  BY <1>6, PoolWeight
<1>9. DOMAIN Of(a) = {"cost", "weight", "again"} /\ Of(a).cost \in Nat /\ Of(a).weight \in 0..100
  <2>1. mixed[a] \in Nat /\ rates[a] \in Nat
    BY <1>2, <1>6
  <2>2. Of(a) = Estimate(rates[a], reference, mixed[a], seen1, old, best)
    OBVIOUS
  <2>. HIDE DEF old, seen1, Of
  <2>. DEFINE e == Estimate(rates[a], reference, mixed[a], seen1, old, best)
  <2>3. DOMAIN e = {"cost", "weight", "again"} /\ e.cost \in Nat /\ e.weight \in 0..100
    BY <1>4, <1>7, <1>8, <2>1, EstimateIs
  <2>. QED BY <2>2, <2>3
<1>10. it[a] = Joined([traffic |-> total], Of(a))
  BY <1>5, <1>6
<1>. HIDE DEF Of
<1>11. it[a].cost = Of(a).cost /\ it[a].weight = Of(a).weight /\ it[a].traffic = total
  BY <1>9, <1>10 DEF Joined
<1>. QED BY <1>1, <1>6, <1>9, <1>11 DEF Estimated

\* So every estimate of a pool is a cost, a percentage and a traffic to weigh
\* them by (poolCostEstimates).
LEMMA PoolEstimatesAre ==
  ASSUME NEW S, IsFiniteSet(S), NEW views, DOMAIN views = S, NEW p,
         \A a \in S : PoolView(views[a].pools[p]),
         NEW rates, \A a \in S : rates[a] \in Nat,
         NEW a \in DOMAIN PoolEstimates(views, rates, p)
  PROVE  a \in S /\ Estimated(PoolEstimates(views, rates, p)[a])
<1>. DEFINE recent == [b \in S |-> Recent(views[b].pools[p])]
            peers == Peers(Fit(views, p), recent)
            input == SumOver([b \in peers |-> recent[b].input])
            total == SumOver([b \in peers |-> recent[b].tokens])
            it == AmongPeers(views, rates, p, recent, peers)
            none == Cardinality(DOMAIN views) < 2 \/ peers = {}
<1>1. PoolEstimates(views, rates, p) = it
  <2>1. Table(DOMAIN views, LAMBDA b : Recent(views[b].pools[p])) = recent
    BY TableIs DEF Table
  <2>. QED BY <2>1 DEF PoolEstimates, InPool
<1>2. peers \in SUBSET S /\ \A b \in peers : Qualified(views[b].pools[p])
  BY DEF Peers, Fit
<1>3. \A b \in S : /\ PoolSample(recent[b]) /\ recent[b].input \in Nat /\ recent[b].tokens \in Nat
                   /\ Qualified(views[b].pools[p]) => recent[b].tokens \in Nat \ {0}
  BY RecentIs DEF PoolView, PoolSample
<1>4. DOMAIN recent = S
  OBVIOUS
<1>5. it = IF none THEN << >> ELSE AtShare(views, rates, p, recent, peers, input, total)
  BY DEF AmongPeers
<1>. HIDE DEF it, none, recent, peers
<1>6. ~none
  <2>. SUFFICES ASSUME none PROVE FALSE
    OBVIOUS
  <2>1. it = << >>
    BY <1>5
  <2>. QED BY <1>1, <2>1
<1>7. peers # {} /\ IsFiniteSet(peers)
  BY <1>2, <1>6, FS_Subset DEF none
<1>8. input \in Nat
  <2>1. [b \in peers |-> recent[b].input] \in [peers -> Nat]
    BY <1>2, <1>3
  <2>. QED BY <1>7, <2>1, SumOverIsNat
<1>9. total \in Nat \ {0}
  <2>. DEFINE f == [b \in peers |-> recent[b].tokens]
  <2>1. f \in [peers -> Nat]
    BY <1>2, <1>3
  <2>2. PICK b \in peers : TRUE
    BY <1>7
  <2>3. f[b] \in Nat \ {0}
    BY <1>2, <1>3, <2>2
  <2>. HIDE DEF f
  <2>4. SumOver(f) \in Nat /\ SumOver(f) >= f[b]
    BY <1>7, <2>1, <2>2, SumOverIsNat
  <2>5. SumOver(f) \in Nat \ {0}
    BY <2>3, <2>4
  <2>. QED BY <2>5 DEF f
<1>. HIDE DEF input, total
<1>10. it = AtShare(views, rates, p, recent, peers, input, total)
  BY <1>5, <1>6
<1>. QED BY <1>1, <1>2, <1>3, <1>4, <1>8, <1>9, <1>10, MixEstimates

\* The mean of an account's estimates over its pools is a cost that is not
\* nothing, as it takes only estimates that are not.
LEMMA OverPoolsIs ==
  ASSUME NEW of, NEW a, NEW pools, IsFiniteSet(pools),
         \A p \in pools : Estimated(of[p][a]) /\ of[p][a].cost > 0
  PROVE  LET e == OverPools(of, a, pools)
         IN /\ e.cost \in Nat /\ e.weight \in Nat /\ e.valid \in BOOLEAN
            /\ e.valid => e.cost \in Nat \ {0}
<1>1. CASE pools = {}
  BY <1>1 DEF OverPools, NoEstimate
<1>2. CASE pools # {}
  <2>. DEFINE t == [p \in pools |-> of[p][a].traffic]
              c == [p \in pools |-> of[p][a].traffic * of[p][a].cost]
              w == [p \in pools |-> of[p][a].traffic * of[p][a].weight]
              e == OverPools(of, a, pools)
  <2>1. /\ e.valid = TRUE
        /\ e.cost = SumOver(c) \div SumOver(t)
        /\ e.weight = SumOver(w) \div SumOver(t)
    BY <1>2 DEF OverPools, Mean
  <2>2. ASSUME NEW p \in pools
        PROVE  /\ of[p][a].traffic \in Nat \ {0} /\ of[p][a].cost \in Nat \ {0} /\ of[p][a].weight \in Nat
               /\ of[p][a].traffic * of[p][a].cost \in Nat
               /\ of[p][a].traffic * of[p][a].weight \in Nat
               /\ of[p][a].traffic <= of[p][a].traffic * of[p][a].cost
    <3>1. /\ of[p][a].traffic \in Nat \ {0} /\ of[p][a].cost \in Nat \ {0} /\ of[p][a].weight \in Nat
      BY DEF Estimated
    <3>2. \A x, y \in Nat \ {0} : x * y \in Nat /\ x <= x * y
      OBVIOUS
    <3>3. \A x, y \in Nat : x * y \in Nat
      OBVIOUS
    <3>. QED BY <3>1, <3>2, <3>3
  <2>3. t \in [pools -> Nat] /\ c \in [pools -> Nat] /\ w \in [pools -> Nat]
    BY <2>2
  <2>4. \A p \in pools : t[p] <= c[p] /\ t[p] \in Nat \ {0}
    BY <2>2
  <2>. HIDE DEF t, c, w, e
  <2>5. SumOver(t) \in Nat /\ SumOver(c) \in Nat /\ SumOver(w) \in Nat
    BY <2>3, SumOverIsNat
  <2>6. SumOver(t) <= SumOver(c)
    BY <2>3, <2>4, SumGrows
  <2>7. SumOver(t) \in Nat \ {0}
    <3>1. PICK p \in pools : TRUE
      BY <1>2
    <3>2. SumOver(t) >= t[p] /\ t[p] \in Nat \ {0}
      BY <2>3, <2>4, SumOverIsNat
    <3>. QED BY <2>5, <3>2
  <2>8. \A x \in Nat, y \in Nat \ {0} : y <= x => x \div y \in Nat \ {0}
    OBVIOUS
  <2>9. SumOver(c) \div SumOver(t) \in Nat \ {0} /\ SumOver(w) \div SumOver(t) \in Nat
    BY <2>5, <2>6, <2>7, <2>8, Shared
  <2>. QED BY <2>1, <2>9 DEF e
<1>. QED BY <1>1, <1>2

\* An estimate is a cost, and a valid one not nothing (estimateAccountCosts).
LEMMA EstimatesAre ==
  ASSUME NEW views, DOMAIN views = Accounts,
         \A x \in Accounts : \A p \in Pools : PoolView(views[x].pools[p]),
         NEW rates, \A x \in Accounts : rates[x] \in Nat, NEW member, NEW out, NEW a \in Accounts
  PROVE  LET e == Estimates(views, rates, member, out)[a]
         IN /\ e.cost \in Nat /\ e.valid \in BOOLEAN
            /\ e.valid => e.cost \in Nat \ {0}
<1>. DEFINE Part(p) == Participants(views, member, out, p)
            of == [p \in Pools |-> PoolEstimates(Part(p), rates, p)]
            pools == {p \in Pools : a \in DOMAIN of[p] /\ of[p][a].cost > 0}
<1>1. Estimates(views, rates, member, out) = Averaged(of, Accounts)
  BY TableIs DEF Estimates, Table
<1>2. ASSUME NEW p \in Pools, a \in DOMAIN of[p] PROVE Estimated(of[p][a])
  <2>. DEFINE S == {b \in Accounts \ out : Eligible(views, member, b, p)}
  <2>1. Part(p) = [b \in S |-> views[b]]
    BY DEF Participants
  <2>2. S \in SUBSET Accounts
    OBVIOUS
  <2>3. IsFiniteSet(S)
    BY <2>2, WalkAssumption, FS_Subset
  <2>4. of[p] = PoolEstimates(Part(p), rates, p)
    OBVIOUS
  <2>. HIDE DEF S, Part, of
  <2>5. DOMAIN Part(p) = S /\ \A b \in S : PoolView(Part(p)[b].pools[p]) /\ rates[b] \in Nat
    BY <2>1, <2>2
  <2>. QED BY <1>2, <2>3, <2>4, <2>5, PoolEstimatesAre
<1>3. IsFiniteSet(pools)
  <2>1. pools \in SUBSET Pools
    OBVIOUS
  <2>. HIDE DEF pools
  <2>. QED BY <2>1, MetricsAssumption, FS_Subset
<1>. HIDE DEF of
<1>4. Averaged(of, Accounts)[a] = OverPools(of, a, pools)
  BY TableIs DEF Averaged, Table
<1>5. \A p \in pools : Estimated(of[p][a]) /\ of[p][a].cost > 0
  BY <1>2
<1>. HIDE DEF pools
<1>. QED BY <1>1, <1>3, <1>4, <1>5, OverPoolsIs

\* Who is measured is ranked by the cost that is reported.
Ranks(r, want1, cost, a) ==
  r.kind = "measured" => /\ cost[a] > 0 /\ r.cost = cost[a]
                         /\ want1 = ScoredPriority(cost, a)
RecType(r) == r.kind \in Kinds /\ r.cost \in Nat /\ r.anchor \in 0..Unavailable

\* Scoring ranks by one cost for each account, and who has mature costs of its own
\* and is not out is measured (scoreAccounts).
LEMMA RanksAre ==
  ASSUME NEW views, DOMAIN views = Accounts, NEW current \in [Accounts -> Priorities],
         NEW rates, NEW member, NEW out,
         \A x \in Accounts :
            /\ DirectCost(views[x]).valid \in BOOLEAN /\ DirectCost(views[x]).cost \in Nat
            /\ DirectCost(views[x]).weight \in 0..100
            /\ DirectCost(views[x]).valid => DirectCost(views[x]).cost \in Nat \ {0},
         \A x \in Accounts : LET e == Estimates(views, rates, member, out)[x]
                             IN /\ e.cost \in Nat /\ e.valid \in BOOLEAN
                                /\ e.valid => e.cost \in Nat \ {0}
  PROVE  \E cost \in [Accounts -> Nat] : \A a \in Accounts :
           LET r == Recommendations(views, current, rates, member, out)[a]
           IN /\ RecType(r) /\ Ranks(r, r.want, cost, a)
              /\ a \notin out /\ DirectCost(views[a]).valid /\ DirectCost(views[a]).weight >= Mature
                   => r.kind = "measured"
<1>. DEFINE direct == [x \in Accounts |-> DirectCost(views[x])]
            estimate == Estimates(views, rates, member, out)
            guessed == Guessed(direct, estimate, out)
            cost == [x \in Accounts |-> IF x \in out THEN 0
                                        ELSE IF x \in guessed THEN estimate[x].cost
                                        ELSE direct[x].cost]
            R == Recommendations(views, current, rates, member, out)
<1>1. R = Scoring(direct, estimate, current, out)
  BY TableIs DEF Recommendations, Table
<1>2. guessed \subseteq Accounts \ out
      /\ \A x \in guessed : estimate[x].valid /\ (~direct[x].valid \/ direct[x].weight < Mature)
  BY DEF Guessed
<1>0. \A x \in Accounts : /\ estimate[x].cost \in Nat /\ direct[x].cost \in Nat
                          /\ estimate[x].valid => estimate[x].cost \in Nat \ {0}
  OBVIOUS
<1>. HIDE DEF estimate
<1>3. Scoring(direct, estimate, current, out) = Advised(direct, estimate, current, guessed, out)
  BY DEF Scoring
<1>. HIDE DEF guessed
<1>4. Costed(direct, estimate, guessed, out) = cost
  BY TableIs DEF Costed, Table
<1>5. Advised(direct, estimate, current, guessed, out)
      = Ranked(direct, estimate, cost, current, guessed, out)
  BY <1>4 DEF Advised
<1>6. cost \in [Accounts -> Nat]
  BY <1>0
<1>7. \A x \in Accounts : /\ x \in guessed => cost[x] > 0
                          /\ x \notin out /\ x \notin guessed => cost[x] = direct[x].cost
  <2>. SUFFICES ASSUME NEW x \in Accounts
                PROVE  /\ x \in guessed => cost[x] > 0
                       /\ x \notin out /\ x \notin guessed => cost[x] = direct[x].cost
    OBVIOUS
  <2>. HIDE DEF direct
  <2>1. x \in guessed => x \notin out /\ estimate[x].cost \in Nat \ {0}
    BY <1>0, <1>2
  <2>2. cost[x] = IF x \in out THEN 0 ELSE IF x \in guessed THEN estimate[x].cost ELSE direct[x].cost
    OBVIOUS
  <2>. HIDE DEF cost
  <2>. QED BY <2>1, <2>2
<1>. HIDE DEF cost
<1>8. Ranked(direct, estimate, cost, current, guessed, out)
      = [x \in Accounts |-> Advise(x, direct[x].valid, estimate[x], cost[x], ScoredPriority(cost, x),
                                   current[x], guessed, out)]
  BY TableIs DEF Ranked, Table
<1>9. ASSUME NEW a \in Accounts
      PROVE  /\ RecType(R[a]) /\ Ranks(R[a], R[a].want, cost, a)
             /\ a \notin out /\ DirectCost(views[a]).valid /\ DirectCost(views[a]).weight >= Mature
                   => R[a].kind = "measured"
  <2>. DEFINE score == ScoredPriority(cost, a)
              r == R[a]
  <2>1. r = Advise(a, direct[a].valid, estimate[a], cost[a], score, current[a], guessed, out)
    BY <1>1, <1>3, <1>5, <1>8
  <2>2. direct[a] = DirectCost(views[a])
    OBVIOUS
  <2>3. cost[a] > 0 => score \in 1..Unavailable
    <3>1. cost[a] > 0 => cost[a] \in Nat \ {0}
      BY <1>6
    <3>2. cost[a] > 0 => score \in (Best..Poor) \ {Explore}
      BY <1>6, <3>1, ScoreOnScale
    <3>. HIDE DEF score
    <3>. QED BY <3>2, ScaleAssumption
  <2>4. current[a] \in 1..Unavailable
    BY DEF Priorities
  <2>5. Best \in Nat /\ Unavailable \in Nat /\ RampStep \in Nat /\ 0 < Best /\ Best < Unavailable
    BY ScaleAssumption
  <2>. HIDE DEF r, score, direct, R
  <2>6. CASE a \in out
    BY <2>1, <2>5, <2>6 DEF Advise, Advice, RecType, Ranks, Kinds, r
  <2>7. CASE a \notin out /\ a \in guessed
    <3>1. r = Advice("estimated", cost[a], current[a], Goal(estimate[a], score, current[a]))
      BY <2>1, <2>7 DEF Advise
    <3>2. Goal(estimate[a], score, current[a]) \in 0..Unavailable
      <4>1. CASE Lifted(estimate[a], score, current[a])
        <5>1. Goal(estimate[a], score, current[a]) = Larger(Best, current[a] - RampStep)
          BY <4>1 DEF Goal
        <5>. QED BY <2>4, <2>5, <5>1 DEF Larger
      <4>2. CASE ~Lifted(estimate[a], score, current[a])
        BY <1>7, <2>3, <2>5, <2>7, <4>2 DEF Goal
      <4>. QED BY <4>1, <4>2
    <3>3. RecType(r) /\ r.kind = "estimated"
      BY <1>6, <3>1, <3>2 DEF Advice, RecType, Kinds
    <3>4. ~direct[a].valid \/ direct[a].weight < Mature
      BY <1>2, <2>7
    <3>. QED BY <2>2, <3>3, <3>4 DEF Ranks, r, Mature
  <2>8. CASE a \notin out /\ a \notin guessed /\ direct[a].valid
    <3>1. r = Advice("measured", cost[a], score, score)
      BY <2>1, <2>8 DEF Advise
    <3>2. cost[a] > 0
      BY <1>7, <2>2, <2>8
    <3>3. RecType(r)
      BY <1>6, <2>3, <2>5, <3>1, <3>2 DEF Advice, RecType, Kinds
    <3>. QED BY <3>1, <3>2, <3>3 DEF Advice, Ranks, r, score
  <2>9. CASE a \notin out /\ a \notin guessed /\ ~direct[a].valid
    <3>1. r = Advice("unknown", 0, current[a], 0)
      BY <2>1, <2>9 DEF Advise
    <3>. QED BY <2>2, <2>5, <2>9, <3>1 DEF Advice, RecType, Ranks, Kinds, r
  <2>. QED BY <2>6, <2>7, <2>8, <2>9
<1>. HIDE DEF R, cost
<1>10. \E c \in [Accounts -> Nat] : \A a \in Accounts :
           /\ RecType(R[a]) /\ Ranks(R[a], R[a].want, c, a)
           /\ a \notin out /\ DirectCost(views[a]).valid /\ DirectCost(views[a]).weight >= Mature
                   => R[a].kind = "measured"
  BY <1>6, <1>9
<1>. QED BY <1>10 DEF R
-----------------------------------------------------------------------------
(* Mature costs.                                                            *)

OfPool(B, p) == {r \in B : r.pool = p /\ ListCost(r) > 0}
Runs(B) == [p \in Pools |-> Cardinality(Continuous(OfPool(B, p)))]

\* Requests that continue others in their pools are no more than all requests:
\* no row is in two pools.
LEMMA RunsFit ==
  ASSUME NEW B, IsFiniteSet(B)
  PROVE  /\ Runs(B) \in [Pools -> Nat] /\ SumOver(Runs(B)) \in Nat
         /\ Cardinality(B) \in Nat /\ SumOver(Runs(B)) <= Cardinality(B)
<1>. DEFINE g == Runs(B)
            In(T) == {r \in B : r.pool \in T}
<1>1. \A T : IsFiniteSet(In(T)) /\ Cardinality(In(T)) \in Nat /\ Cardinality(In(T)) <= Cardinality(B)
  <2>. TAKE T
  <2>1. In(T) \in SUBSET B
    OBVIOUS
  <2>. HIDE DEF In
  <2>. QED BY <2>1, FS_Subset, FS_CardinalityType
<1>2. ASSUME NEW p \in Pools PROVE g[p] \in Nat /\ g[p] <= Cardinality(In({p}))
  <2>. DEFINE C == Continuous(OfPool(B, p))
  <2>1. C \in SUBSET In({p})
    BY DEF Continuous, OfPool
  <2>2. g[p] = Cardinality(C)
    BY DEF Runs
  <2>. HIDE DEF C, In, g
  <2>. QED BY <1>1, <2>1, <2>2, FS_Subset, FS_CardinalityType
<1>3. g \in [Pools -> Nat]
  BY <1>2 DEF Runs
<1>4. Cardinality(B) \in Nat
  BY FS_CardinalityType
<1>. HIDE DEF g
<1>5. IsFiniteSet(Pools)
  BY MetricsAssumption
<1>6. PICK h : SumOf(h, g, Pools)
  BY <1>3, <1>5, SumsExist
<1>7. Adds(h, g, Pools)
  BY <1>6 DEF SumOf
<1>8. SumOver(g) = h[Pools]
  BY <1>3, <1>6, SumOverIs
<1>. DEFINE Bad == {T \in SUBSET Pools : ~(h[T] <= Cardinality(In(T)))}
<1>9. ASSUME Bad # {} PROVE FALSE
  <2>1. PICK T \in Bad : \A U \in Bad : ~(U \subseteq T /\ U # T)
    <3>1. Bad \in SUBSET (SUBSET Pools)
      OBVIOUS
    <3>. HIDE DEF Bad
    <3>. QED BY <1>5, <1>9, <3>1, SmallestSubset
  <2>2. T \in SUBSET Pools /\ ~(h[T] <= Cardinality(In(T)))
    BY <2>1
  <2>3. T # {}
    <3>1. h[{}] = 0 /\ Cardinality(In({})) \in Nat
      <4>. HIDE DEF In
      <4>. QED BY <1>1, <1>7 DEF Adds
    <3>2. h[{}] <= Cardinality(In({}))
      <4>. HIDE DEF In
      <4>. QED BY <3>1
    <3>. HIDE DEF In, Bad
    <3>. QED BY <2>2, <3>2
  <2>4. PICK p \in T : TRUE
    BY <2>3
  <2>. DEFINE U == T \ {p}
  <2>5. U \in SUBSET Pools /\ U \subseteq T /\ U # T /\ p \in Pools /\ U \cup {p} = T /\ p \notin U
    BY <2>2, <2>4
  <2>6. h[U] <= Cardinality(In(U))
    BY <2>1, <2>5
  <2>7. h[T] = g[p] + h[U] /\ h[U] \in Nat
    BY <1>7, <2>2, <2>4, <2>5 DEF Adds
  <2>8. In(T) = In({p}) \cup In(U) /\ In({p}) \cap In(U) = {}
    BY <2>5
  <2>. HIDE DEF U, In, Bad
  <2>9. Cardinality(In(T)) = Cardinality(In({p})) + Cardinality(In(U))
    <3>1. Cardinality(In({p}) \cup In(U))
          = Cardinality(In({p})) + Cardinality(In(U)) - Cardinality(In({p}) \cap In(U))
      BY <1>1, FS_Union
    <3>2. Cardinality(In({p}) \cap In(U)) = 0
      BY <2>8, FS_EmptySet
    <3>3. Cardinality(In({p})) \in Nat /\ Cardinality(In(U)) \in Nat
      BY <1>1
    <3>. QED BY <2>8, <3>1, <3>2, <3>3
  <2>10. g[p] \in Nat /\ g[p] <= Cardinality(In({p}))
    BY <1>2, <2>5
  <2>11. h[T] <= Cardinality(In(T))
    <3>1. Cardinality(In({p})) \in Nat /\ Cardinality(In(U)) \in Nat
      BY <1>1
    <3>. QED BY <2>6, <2>7, <2>9, <2>10, <3>1
  <2>. QED BY <2>2, <2>11
<1>10. h[Pools] <= Cardinality(In(Pools)) /\ h[Pools] \in Nat
  BY <1>7, <1>9 DEF Adds
<1>11. h[Pools] <= Cardinality(B)
  <2>1. Cardinality(In(Pools)) <= Cardinality(B) /\ Cardinality(In(Pools)) \in Nat
    BY <1>1
  <2>. HIDE DEF In
  <2>. QED BY <1>4, <1>10, <2>1
<1>. QED BY <1>3, <1>4, <1>8, <1>10, <1>11 DEF g

\* Evidence that is mature in the logs is mature where it was read: the snapshot
\* of the main window counts its requests, tokens and runs.
LEMMA MatureIsRead ==
  ASSUME LogsOK(Now), NEW a \in Accounts, TrulyMature(a)
  PROVE  Measured(Snapshot(ReadNow(MainWindow)[a])).weight >= Mature
<1>. DEFINE B == Billed(a, MainWindow)
            m == ReadNow(MainWindow)[a]
            s == Snapshot(m)
            x == [priced |-> Cardinality(B), tokens |-> Total(Tokens, B),
                  continuous |-> SumOver(Runs(B))]
<1>1. MainWindow \in Int
  BY ScoresAssumption
<1>2. m = Metrics(usage, errors, a, -MainWindow)
  BY DEF ReadNow
<1>3. /\ m.priced = Cardinality(B) /\ m.tokens = Total(Tokens, B)
      /\ m.cost = Total(CostOf, B)
  BY <1>1, <1>2, QueryTrue
<1>4. m.pools = PoolsOf(Mine(a, MainWindow))
  BY <1>2, MetricsFields
<1>5. {r \in Mine(a, MainWindow) : IsPriced(r)} = B
  BY <1>1, BillsTrue
<1>6. /\ IsFiniteSet(B) /\ Cardinality(B) \in Nat /\ Total(Tokens, B) \in Nat
      /\ \A r \in B : Tokens(r) \in Nat /\ CostOf(r) \in Nat /\ CostOf(r) > 0
  <2>1. \A r \in B : IsPriced(r)
    BY DEF Billed
  <2>. QED BY <2>1, BilledTypes DEF IsPriced
<1>7. Weight(x) >= Mature
  <2>1. Runs(B) = [p \in Pools |-> Cardinality(Continuous({r \in B : r.pool = p /\ ListCost(r) > 0}))]
    BY DEF Runs, OfPool
  <2>. QED BY <2>1 DEF TrulyMature
<1>. HIDE DEF B, m
<1>8. \A p \in Pools : m.pools[p].continuous = Runs(B)[p]
  <2>. TAKE p \in Pools
  <2>1. PoolRows(Mine(a, MainWindow), p) = OfPool(B, p)
    BY <1>5 DEF PoolRows, OfPool
  <2>2. m.pools[p] = PoolMetrics(OfPool(B, p))
    BY <1>4, <2>1 DEF PoolsOf
  <2>. QED BY <2>2 DEF PoolMetrics, Runs
<1>9. PoolContinuous(m) = SumOver(Runs(B))
  <2>1. Runs(B) = [p \in Pools |-> m.pools[p].continuous]
    BY <1>8 DEF Runs
  <2>. QED BY <2>1 DEF PoolContinuous
<1>10. SumOver(Runs(B)) \in Nat /\ SumOver(Runs(B)) <= Cardinality(B)
  BY <1>6, RunsFit
<1>11. Min({SumOver(Runs(B)), Cardinality(B)}) = SumOver(Runs(B))
  <2>. DEFINE u == SumOver(Runs(B))
              n == Cardinality(B)
  <2>1. u \in Nat /\ n \in Nat /\ u <= n
    BY <1>6, <1>10
  <2>. HIDE DEF u, n
  <2>2. Min({u, n}) \in {u, n} /\ Min({u, n}) <= u
    <3>1. \E v \in {u, n} : \A y \in {u, n} : v <= y
      BY <2>1
    <3>2. Min({u, n}) \in {u, n} /\ \A y \in {u, n} : Min({u, n}) <= y
      BY <3>1 DEF Min
    <3>. QED BY <3>2
  <2>3. Min({u, n}) = u
    BY <2>1, <2>2
  <2>. QED BY <2>3 DEF u, n
<1>12. /\ s.priced = x.priced /\ s.tokens = x.tokens /\ s.continuous = x.continuous
       /\ s.cost = Total(CostOf, B)
  BY <1>3, <1>9, <1>11 DEF Snapshot
<1>. HIDE DEF s
<1>13. Weight(s) = Weight(x)
  BY <1>12 DEF Weight
<1>14. s.priced # 0 /\ s.tokens # 0
  <2>1. x.priced # 0 /\ x.tokens # 0
    BY <1>7 DEF Weight, Mature
  <2>. QED BY <1>12, <2>1
<1>15. s.tokens > 0
  BY <1>6, <1>12, <1>14
<1>16. s.cost > 0
  <2>. DEFINE f == [r \in B |-> CostOf(r)]
  <2>1. f \in [B -> Nat]
    BY <1>6
  <2>2. PICK r \in B : TRUE
    <3>1. B # {}
      BY <1>12, <1>14, FS_EmptySet
    <3>. QED BY <3>1
  <2>3. f[r] \in Nat /\ f[r] > 0
    BY <1>6
  <2>4. Total(CostOf, B) = SumOver(f)
    BY DEF Total
  <2>. HIDE DEF f
  <2>5. SumOver(f) \in Nat /\ SumOver(f) >= f[r]
    BY <1>6, <2>1, SumOverIsNat
  <2>. QED BY <1>12, <2>3, <2>4, <2>5
<1>17. Measured(s).weight = Weight(s)
  BY <1>15, <1>16 DEF Measured
<1>. QED BY <1>7, <1>13, <1>17 DEF s, m

\* Mature costs of the main window are direct costs of an account, however short
\* its sample of the fast window is.
LEMMA MatureIsDirect ==
  ASSUME NEW v, Sample(v.fast), Sample(v.main), Measured(v.main).weight >= Mature
  PROVE  DirectCost(v).valid /\ DirectCost(v).weight >= Mature
<1>1. /\ Measured(v.main).valid /\ Meets(v.main, MainRequests, MainTokens)
      /\ Measured(v.main).weight \in 0..100
  BY MeasuredIs
<1>2. MainCost(v) = Measured(v.main)
  BY <1>1 DEF MainCost
<1>3. FirstCost(v).valid
  BY <1>1, <1>2 DEF FirstCost
<1>4. FirstCost(v).weight \in Int
  <2>1. Measured(v.fast).weight \in 0..100
    BY MeasuredIs
  <2>2. FastCost(v).weight \in Int
    BY <2>1 DEF FastCost, NoEvidence
  <2>. QED BY <1>1, <1>2, <2>2 DEF FirstCost
<1>5. Mature \in Int
  BY DEF Mature
<1>6. CASE FirstCost(v).weight < Mature
  BY <1>1, <1>6 DEF DirectCost
<1>7. CASE ~(FirstCost(v).weight < Mature)
  BY <1>3, <1>4, <1>5, <1>7 DEF DirectCost
<1>. QED BY <1>6, <1>7
-----------------------------------------------------------------------------
(* Recommendations.                                                         *)

\* What was read of pools are counts; if no query failed and nothing is logged
\* late, what was read is what there is to read; recommendations rank measured
\* costs; and mature costs are measured.
PoolsKnown ==
  \A i \in 1..Len(seen) : \A a \in Accounts, p \in Pools : PoolSample(seen[i].metrics[a].pools[p])
Undisturbed == count.faults = 0 /\ E.late = {}
Exact == Undisturbed => \A i \in 1..Len(seen) : seen[i].metrics = ReadNow(Windows[i])
Recommends ==
  /\ \A a \in Accounts : RecType(rec[a])
  /\ \E cost \in [Accounts -> Nat] : \A a \in Accounts : Ranks(rec[a], want[a], cost, a)
MatureFirst ==
  phase = "writing" => \A a \in Accounts \ hard : TrulyMature(a) /\ Undisturbed => Usual(a)

RecsInv == PoolsKnown /\ Exact /\ Recommends /\ MatureFirst

\* Nothing is recommended before a cycle has scored.
LEMMA NothingRanked ==
  /\ \A a \in Accounts : RecType(NothingYet[a])
  /\ \E cost \in [Accounts -> Nat] : \A a \in Accounts : \A w : Ranks(NothingYet[a], w, cost, a)
<1>1. \A a \in Accounts : RecType(NothingYet[a]) /\ NothingYet[a].kind = "unknown"
  BY ScaleAssumption DEF NothingYet, RecType, Kinds
<1>2. \A a \in Accounts : NothingYet[a].kind # "measured"
  BY <1>1
<1>3. [a \in Accounts |-> 0] \in [Accounts -> Nat]
  OBVIOUS
<1>. QED BY <1>1, <1>2, <1>3 DEF Ranks

\* Before the first cycle nothing was read and nothing is recommended.
LEMMA RecsInit == Init => RecsInv
<1>. SUFFICES ASSUME Init PROVE RecsInv
  OBVIOUS
<1>1. Len(seen) = 0 /\ phase = "failed" /\ rec = NothingYet
  BY DEF Init
<1>2. PoolsKnown /\ Exact /\ MatureFirst
  BY <1>1 DEF PoolsKnown, Exact, MatureFirst
<1>3. Recommends
  BY <1>1, NothingRanked DEF Recommends
<1>. QED BY <1>2, <1>3 DEF RecsInv

\* A new cycle forgets what the last one read and recommended.
LEMMA TickRecs == ScoresInv /\ RecsInv /\ Tick => RecsInv'
<1>. SUFFICES ASSUME ScoresInv, RecsInv, Tick PROVE RecsInv'
  OBVIOUS
<1>1. seen' = << >> /\ Len(seen') = 0 /\ phase' = "reading" /\ rec' = NothingYet /\ want' = prio
  BY DEF Tick
<1>2. PoolsKnown' /\ Exact' /\ MatureFirst'
  BY <1>1 DEF PoolsKnown, Exact, MatureFirst
<1>3. Recommends'
  BY <1>1, NothingRanked DEF Recommends
<1>. QED BY <1>2, <1>3 DEF RecsInv

\* Rows that are logged late disturb what was read.
LEMMA LogLateRecs == RecsInv /\ LogLate => RecsInv'
<1>. SUFFICES ASSUME RecsInv, LogLate PROVE RecsInv'
  OBVIOUS
<1>1. seen' = seen /\ phase' = "reading" /\ rec' = rec /\ want' = want /\ env' = env
  BY DEF LogLate, walk
<1>2. E.late # {} /\ E' = E
  BY <1>1 DEF LogLate, E
<1>3. PoolsKnown' /\ MatureFirst' /\ Recommends'
  BY <1>1 DEF PoolsKnown, MatureFirst, Recommends, RecsInv
<1>4. Exact'
  BY <1>2 DEF Exact, Undisturbed
<1>. QED BY <1>3, <1>4 DEF RecsInv

\* Where the logs do not change, what there is to read and what is mature do not.
LEMMA LogsStay ==
  ASSUME UNCHANGED <<env, logs>>
  PROVE  /\ \A w : ReadNow(w)' = ReadNow(w)
         /\ \A a : TrulyMature(a)' <=> TrulyMature(a)
         /\ E' = E /\ Windows' = Windows
<1>1. usage' = usage /\ errors' = errors /\ env' = env
  BY DEF logs
<1>. QED BY <1>1 DEF ReadNow, TrulyMature, Billed, E, Windows

\* A step that changes neither the logs nor what was read and recommended.
LEMMA QuietRecs ==
  ASSUME RecsInv, UNCHANGED <<env, logs, seen, rec, want, hard>>,
         phase' = "writing" => phase = "writing",
         count'.faults = 0 => count.faults = 0
  PROVE  RecsInv'
<1>1. /\ \A w : ReadNow(w)' = ReadNow(w)
      /\ \A a : TrulyMature(a)' <=> TrulyMature(a)
      /\ E' = E /\ Windows' = Windows
  BY LogsStay
<1>2. Undisturbed' => Undisturbed
  BY <1>1 DEF Undisturbed
<1>3. PoolsKnown' /\ Recommends'
  BY DEF PoolsKnown, Recommends, RecsInv
<1>4. Exact'
  BY <1>1, <1>2 DEF Exact, RecsInv
<1>5. MatureFirst'
  BY <1>1, <1>2 DEF MatureFirst, Usual, RecsInv
<1>. QED BY <1>3, <1>4, <1>5 DEF RecsInv

\* One window more that was read, or was not.
LEMMA ReadMore ==
  ASSUME ScoresInv, RecsInv, phase = "reading", phase' = "reading",
         UNCHANGED <<env, walk, logs, rec>>,
         NEW m, \A a \in Accounts, p \in Pools : PoolSample(m[a].pools[p]),
         seen' = Append(seen, [metrics |-> m, out |-> limited]),
         count'.faults = 0 => count.faults = 0 /\ m = ReadNow(Windows[Len(seen) + 1])
  PROVE  RecsInv'
<1>1. Len(seen) \in Nat /\ Len(seen') = Len(seen) + 1
      /\ seen'[Len(seen) + 1].metrics = m
      /\ \A i \in 1..Len(seen) : seen'[i] = seen[i]
  BY DEF ScoresInv, Readings
<1>2. \A i \in 1..Len(seen') : i \in 1..Len(seen) \/ i = Len(seen) + 1
  BY <1>1
<1>3. PoolsKnown'
  BY <1>1, <1>2 DEF PoolsKnown, RecsInv
<1>4. /\ \A w : ReadNow(w)' = ReadNow(w)
      /\ E' = E /\ Windows' = Windows
  BY LogsStay
<1>5. Exact'
  <2>. SUFFICES ASSUME Undisturbed', NEW i \in 1..Len(seen')
                PROVE  seen'[i].metrics = ReadNow(Windows[i])
    BY <1>4 DEF Exact
  <2>1. Undisturbed /\ m = ReadNow(Windows[Len(seen) + 1])
    BY <1>4 DEF Undisturbed
  <2>. QED BY <1>1, <1>2, <2>1 DEF Exact, RecsInv
<1>6. Recommends' /\ MatureFirst'
  BY DEF Recommends, MatureFirst, walk, RecsInv
<1>. QED BY <1>3, <1>5, <1>6 DEF RecsInv

\* A query that answers reads counts of pools, and exactly what there is to read.
LEMMA QueryRecs == ScoresInv /\ RecsInv /\ Query => RecsInv'
<1>. SUFFICES ASSUME ScoresInv, RecsInv, Query PROVE RecsInv'
  OBVIOUS
<1>. DEFINE w == Windows[Len(seen) + 1]
            m == ReadNow(w)
<1>1. w \in Int
  <2>1. Len(seen) + 1 \in 1..4
    BY WindowsAre DEF ScoresInv, Readings, Query
  <2>. QED BY <2>1, WindowsAre
<1>2. \A a \in Accounts, p \in Pools : PoolSample(m[a].pools[p])
  BY <1>1, PoolsRead DEF ScoresInv
<1>3. /\ phase = "reading" /\ phase' = "reading" /\ UNCHANGED <<env, walk, logs, rec>>
      /\ seen' = Append(seen, [metrics |-> m, out |-> limited]) /\ count' = count
      /\ m = ReadNow(Windows[Len(seen) + 1])
  BY DEF Query
<1>. HIDE DEF m, w
<1>. QED BY <1>2, <1>3, ReadMore

\* A query that fails is a fault, and what it would have read counts as empty.
LEMMA QueryFailsRecs == ScoresInv /\ RecsInv /\ QueryFails => RecsInv'
<1>. SUFFICES ASSUME ScoresInv, RecsInv, QueryFails PROVE RecsInv'
  OBVIOUS
<1>1. count'.faults # 0
  <2>1. count \in Counts
    BY DEF ScoresInv, Control
  <2>. QED BY <2>1 DEF QueryFails, Fault, Counts
<1>2. CASE seen = << >>
  <2>1. UNCHANGED <<env, logs, seen, rec, want, hard>> /\ phase' = "failed"
    BY <1>2 DEF QueryFails, walk
  <2>. QED BY <1>1, <2>1, QuietRecs
<1>3. CASE seen # << >>
  <2>. DEFINE m == NoMetrics
  <2>1. \A a \in Accounts, p \in Pools : PoolSample(m[a].pools[p])
    BY PoolsNotRead
  <2>2. /\ phase = "reading" /\ phase' = "reading" /\ UNCHANGED <<env, walk, logs, rec>>
        /\ seen' = Append(seen, [metrics |-> m, out |-> limited])
    BY <1>3 DEF QueryFails
  <2>. HIDE DEF m
  <2>. QED BY <1>1, <2>1, <2>2, ReadMore
<1>. QED BY <1>2, <1>3

\* The view of a pool is made of what was read of it.
LEMMA PoolViews ==
  ASSUME PoolsKnown, Len(seen) = Len(Windows), NEW a \in Accounts, NEW p \in Pools
  PROVE  PoolView(Views[a].pools[p])
<1>1. \A i \in {1, 2, 3, 4} : PoolSample(seen[i].metrics[a].pools[p])
  <2>1. {1, 2, 3, 4} \subseteq 1..Len(seen)
    BY WindowsAre
  <2>. QED BY <2>1 DEF PoolsKnown
<1>. DEFINE d == seen[1].metrics[a]
            f == seen[2].metrics[a]
            m == seen[3].metrics[a]
            w == seen[4].metrics[a]
<1>2. Views[a].pools[p] = [fast |-> Attached(f, d, p), main |-> Attached(m, d, p),
                           day |-> d.pools[p], week |-> w.pools[p]]
  BY ViewsAre DEF View
<1>3. /\ PoolSample(d.pools[p]) /\ PoolSample(f.pools[p])
      /\ PoolSample(m.pools[p]) /\ PoolSample(w.pools[p])
  BY <1>1
<1>. HIDE DEF d, f, m, w
<1>4. PoolSample(Attached(f, d, p)) /\ PoolSample(Attached(m, d, p))
  BY <1>3, NoPoolIs DEF Attached
<1>. QED BY <1>2, <1>3, <1>4 DEF PoolView

\* Scoring ranks what is measured by its cost, and measures who has mature costs
\* in the logs: whatever is estimated of others, or sampled in the last minutes.
LEMMA ScoreRecs == ScoresInv /\ RecsInv /\ Score => RecsInv'
<1>. SUFFICES ASSUME ScoresInv, RecsInv, Score PROVE RecsInv'
  OBVIOUS
<1>1. Len(seen) = Len(Windows) /\ seen' = << >> /\ Len(seen') = 0
  BY DEF Score
<1>. DEFINE views == Views
            rates == E.rates
            member == E.member
            out == seen[1].out
            R == Recommendations(views, Current, rates, member, out)
<1>2. rec' = R /\ hard' = out /\ want' = [a \in Accounts |-> R[a].want] /\ UNCHANGED <<env, logs, count>>
  BY DEF Score
<1>3. DOMAIN views = Accounts
  BY ViewsAre
<1>4. \A x \in Accounts : \A p \in Pools : PoolView(views[x].pools[p])
  BY <1>1, PoolViews DEF RecsInv
<1>5. \A x \in Accounts : rates[x] \in Nat
  BY EnvironmentIs DEF ScoresInv, Control, Environment
<1>6. \A x \in Accounts :
            /\ DirectCost(views[x]).valid \in BOOLEAN /\ DirectCost(views[x]).cost \in Nat
            /\ DirectCost(views[x]).weight \in 0..100
            /\ DirectCost(views[x]).valid => DirectCost(views[x]).cost \in Nat \ {0}
  BY <1>1, DirectGrounds
<1>7. Current \in [Accounts -> Priorities]
  BY CurrentIs DEF ScoresInv, WalkInv, WalkTypeOK
<1>8. ASSUME NEW a \in Accounts, TrulyMature(a), Undisturbed
      PROVE  DirectCost(views[a]).valid /\ DirectCost(views[a]).weight >= Mature
  <2>1. 2 \in 1..Len(seen) /\ 3 \in 1..Len(seen)
    BY <1>1, WindowsAre
  <2>2. seen[3].metrics = ReadNow(MainWindow)
    BY <1>8, <2>1, WindowsAre DEF RecsInv, Exact
  <2>3. /\ views[a].fast = Snapshot(seen[2].metrics[a])
        /\ views[a].main = Snapshot(seen[3].metrics[a])
    BY ViewsAre DEF View
  <2>4. Sample(views[a].fast) /\ Sample(views[a].main)
    <3>1. \A i \in {2, 3} : Reading(seen[i].metrics[a], a, Windows[i])
      BY <2>1 DEF ScoresInv, Readings
    <3>. QED BY <2>3, <3>1, SnapshotSample DEF Reading
  <2>5. Measured(Snapshot(ReadNow(MainWindow)[a])).weight >= Mature
    BY <1>8, MatureIsRead DEF ScoresInv
  <2>6. Measured(views[a].main).weight >= Mature
    BY <2>2, <2>3, <2>5
  <2>. DEFINE v == views[a]
  <2>. HIDE DEF views
  <2>. QED BY <2>4, <2>6, MatureIsDirect
<1>. HIDE DEF views, rates, member, out
<1>9. \A x \in Accounts : LET e == Estimates(views, rates, member, out)[x]
                          IN /\ e.cost \in Nat /\ e.valid \in BOOLEAN
                             /\ e.valid => e.cost \in Nat \ {0}
  BY <1>3, <1>4, <1>5, EstimatesAre
<1>10. PICK cost \in [Accounts -> Nat] : \A a \in Accounts :
           LET r == Recommendations(views, Current, rates, member, out)[a]
           IN /\ RecType(r) /\ Ranks(r, r.want, cost, a)
              /\ a \notin out /\ DirectCost(views[a]).valid /\ DirectCost(views[a]).weight >= Mature
                   => r.kind = "measured"
  BY <1>3, <1>6, <1>7, <1>9, RanksAre
<1>11. \A a \in Accounts :
           /\ RecType(R[a]) /\ Ranks(R[a], R[a].want, cost, a)
           /\ a \notin out /\ DirectCost(views[a]).valid /\ DirectCost(views[a]).weight >= Mature
                => R[a].kind = "measured"
  BY <1>10
<1>. HIDE DEF R
<1>12. Recommends'
  <2>1. \A a \in Accounts : RecType(rec'[a]) /\ Ranks(rec'[a], want'[a], cost, a)
    BY <1>2, <1>11
  <2>. QED BY <2>1 DEF Recommends
<1>13. MatureFirst'
  <2>. SUFFICES ASSUME NEW a \in Accounts \ hard', TrulyMature(a)', Undisturbed'
                PROVE  rec'[a].kind = "measured"
    BY DEF MatureFirst, Usual
  <2>1. TrulyMature(a) /\ Undisturbed /\ a \notin out
    BY <1>2, LogsStay DEF Undisturbed
  <2>. QED BY <1>2, <1>8, <1>11, <2>1
<1>14. PoolsKnown' /\ Exact'
  BY <1>1 DEF PoolsKnown, Exact
<1>. QED BY <1>12, <1>13, <1>14 DEF RecsInv

\* Every step of the model keeps the recommendations so.
LEMMA RecsStay == ScoresInv /\ RecsInv /\ [Next]_vars => RecsInv'
<1>. SUFFICES ASSUME ScoresInv, RecsInv, [Next]_vars PROVE RecsInv'
  OBVIOUS
<1>1. CASE UNCHANGED vars
  <2>1. UNCHANGED <<env, logs, seen, rec, want, hard, phase, count>>
    BY <1>1 DEF vars, logs
  <2>. QED BY <2>1, QuietRecs
<1>2. CASE \E a \in Accounts : Limit(a)
  <2>1. UNCHANGED <<env, logs, seen, rec, want, hard, phase>> /\ count'.faults = count.faults
    <3>1. count \in Counts
      BY DEF ScoresInv, Control
    <3>. QED BY <1>2, <3>1 DEF Limit, walk, logs, Counts
  <2>. QED BY <2>1, QuietRecs
<1>3. CASE \E a \in Accounts : Adjust(a)
  <2>1. UNCHANGED <<env, logs, seen, rec, want, hard, phase, count>>
    BY <1>3 DEF Adjust, Write, walk
  <2>. QED BY <2>1, QuietRecs
<1>4. CASE Tick \/ LogLate \/ Query \/ QueryFails \/ Score
  BY <1>4, TickRecs, LogLateRecs, QueryRecs, QueryFailsRecs, ScoreRecs
<1>. QED BY <1>1, <1>2, <1>3, <1>4 DEF Next

\* In every state the recommendations of the cycle rank measured costs, with one
\* cost for each account that explains all of them.
THEOREM RecsInvariant == Spec => []RecsInv
<1>1. Init => RecsInv
  BY RecsInit
<1>2. ScoresInv /\ RecsInv /\ [Next]_vars => RecsInv'
  BY RecsStay
<1>. QED BY <1>1, <1>2, ScoresInvariant, PTL DEF Spec

\* In every state the variables have their types: in particular no blend of
\* evidence, history and peers, no median and no mean of estimates leaves the
\* natural numbers, and no goal of a recovery leaves the scale.
THEOREM ScoresTypes == Spec => []TypeOK
<1>1. ScoresInv /\ RecsInv => TypeOK
  <2>. SUFFICES ASSUME ScoresInv, RecsInv PROVE TypeOK
    OBVIOUS
  <2>1. WalkTypeOK
    BY DEF ScoresInv, WalkInv
  <2>2. /\ env \in DOMAIN Environments /\ phase \in {"reading", "writing", "failed"}
        /\ limited \subseteq Accounts /\ grounds \subseteq Accounts /\ todo \subseteq Accounts
    BY DEF ScoresInv, Control
  <2>3. \A r \in usage \cup errors : r.account \in Accounts /\ r.at \in -TrafficWindow..-1
    <3>1. \A r \in usage \cup errors : r.account \in Accounts
      BY RowTypes DEF ScoresInv
    <3>2. \A r \in usage \cup errors : r.at \in -TrafficWindow..-1
      BY DEF ScoresInv, LogsOK, RowOK, Now
    <3>. QED BY <3>1, <3>2
  <2>4. Len(seen) \in 0..Len(Windows)
    <3>1. PICK S : seen \in Seq(S)
      BY DEF ScoresInv, Readings
    <3>2. Len(seen) \in Nat /\ Len(seen) <= Len(Windows)
      BY <3>1 DEF ScoresInv, Readings
    <3>3. Len(Windows) = 4
      BY WindowsAre
    <3>. DEFINE n == Len(seen)
                m == Len(Windows)
    <3>. HIDE DEF n, m
    <3>4. n \in Nat /\ n <= m /\ m = 4
      BY <3>2, <3>3 DEF n, m
    <3>5. n \in 0..m
      BY <3>4
    <3>. QED BY <3>5 DEF n, m
  <2>5. \A a \in Accounts :
          /\ rec[a].kind \in {"excluded", "measured", "estimated", "unknown"}
          /\ rec[a].cost \in Nat /\ rec[a].anchor \in 0..Unavailable
    BY DEF RecsInv, Recommends, RecType, Kinds
  <2>. QED BY <2>1, <2>2, <2>3, <2>4, <2>5 DEF TypeOK
<1>. QED BY <1>1, ScoresInvariant, RecsInvariant, PTL

\* Where the scale has room for all accounts, which is up to 41 in the code's
\* (10, 50 and 90), measured costs are ranked strictly in their order and mature
\* costs are always measured.  Beyond, rounding may give two costs one priority,
\* and what remains is ScoresKeepOrder.
THEOREM ScoresStrictlyByCost ==
  ASSUME Cardinality(Accounts) - 1 <= Neutral - Best, Cardinality(Accounts) - 1 <= Poor - Neutral
  PROVE  Spec => []ScoresFollowCosts
<1>1. ScoresInv /\ RecsInv => ScoresFollowCosts
  <2>. SUFFICES ASSUME ScoresInv, RecsInv, phase = "writing" PROVE ScoresFollowCosts
    BY DEF ScoresFollowCosts
  <2>1. PICK cost \in [Accounts -> Nat] : \A a \in Accounts : Ranks(rec[a], want[a], cost, a)
    BY DEF RecsInv, Recommends
  <2>2. Priced(cost) \in SUBSET Accounts
    BY DEF Priced
  <2>3. IsFiniteSet(Accounts)
    BY WalkAssumption
  <2>4. /\ IsFiniteSet(Priced(cost)) /\ Cardinality(Priced(cost)) - 1 <= Neutral - Best
        /\ Cardinality(Priced(cost)) - 1 <= Poor - Neutral
    <3>1. /\ IsFiniteSet(Priced(cost)) /\ Cardinality(Priced(cost)) \in Nat
          /\ Cardinality(Accounts) \in Nat /\ Cardinality(Priced(cost)) <= Cardinality(Accounts)
      BY <2>2, <2>3, FS_Subset, FS_CardinalityType
    <3>2. Best \in Nat /\ Neutral \in Nat /\ Poor \in Nat
      BY ScaleAssumption
    <3>. QED BY <3>1, <3>2
  <2>5. ASSUME NEW a \in Accounts, NEW b \in Accounts, Usual(a), Usual(b)
        PROVE  /\ want[a] \in (Best..Poor) \ {Explore}
               /\ want[a] < want[b] <=> rec[a].cost < rec[b].cost
    <3>1. /\ cost[a] > 0 /\ rec[a].cost = cost[a] /\ want[a] = ScoredPriority(cost, a)
          /\ cost[b] > 0 /\ rec[b].cost = cost[b] /\ want[b] = ScoredPriority(cost, b)
      BY <2>1, <2>5 DEF Usual, Ranks
    <3>2. a \in Priced(cost) /\ b \in Priced(cost) /\ \A x \in Priced(cost) : cost[x] \in Nat
      BY <2>2, <3>1 DEF Priced
    <3>3. cost[a] \in Nat \ {0} /\ DOMAIN cost = Accounts
      BY <3>1
    <3>4. ScoredPriority(cost, a) \in (Best..Poor) \ {Explore}
      BY <3>3, ScoreOnScale
    <3>5. ScoredPriority(cost, a) < ScoredPriority(cost, b) <=> cost[a] < cost[b]
      BY <2>4, <3>2, ScoresStrict
    <3>. QED BY <3>1, <3>4, <3>5
  <2>6. \A a \in Accounts \ hard : TrulyMature(a) /\ count.faults = 0 /\ E.late = {} => Usual(a)
    BY DEF RecsInv, MatureFirst, Undisturbed
  <2>. QED BY <2>5, <2>6 DEF ScoresFollowCosts
<1>. QED BY <1>1, ScoresInvariant, RecsInvariant, PTL

=============================================================================
