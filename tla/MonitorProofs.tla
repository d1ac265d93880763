------------------------------ MODULE MonitorProofs ------------------------------
(***************************************************************************)
(* Proofs about MonitorCycle for any accounts, workers and environments:   *)
(* its types, that no probe is lost on its way through goroutines and      *)
(* channels, that probes are earned, and that alerts are new, earned and   *)
(* true.                                                                   *)
(*                                                                         *)
(* First the rows: the types of what is stored of one account, the facts   *)
(* about them that every step keeps (AccountInv), and what the snapshot,   *)
(* the synchronisation, the choice of a probe and the passing of an        *)
(* interval make of them.  Dated orders the stamps of the five rows: they  *)
(* are written by different statements and aged together, and every        *)
(* property depends on which of two came first.                            *)
(*                                                                         *)
(* Then the steps.                                                         *)
(*                                                                         *)
(* CycleInv says where each account of the pool is, Apart that it is there *)
(* once; ToldInv what an alert remembers; WatchInv that the rows of every  *)
(* account keep their facts, that observations are so, new and stored      *)
(* before they are evaluated, and how far the alerts lag behind the        *)
(* failing probes.                                                         *)
(***************************************************************************)
EXTENDS MonitorCycle, FiniteSetTheorems, NaturalsInduction, TLAPS

-----------------------------------------------------------------------------
(* Stamps.                                                                  *)

\* None, or one that Age may return.
Stamp == {Never} \cup (Never + Grace + 1)..Now

LEMMA Settings ==
  /\ Now \in Nat /\ Grace \in Nat /\ Grace > 0 /\ Interval \in Nat /\ 0 < Interval /\ Interval < Now
  /\ ErrorWindow \in Nat /\ ErrorWindow < Now
  /\ FailureThreshold \in Nat /\ FailureThreshold > 0
  /\ RecoveryThreshold \in Nat /\ RecoveryThreshold > 0
  /\ Never \in Int /\ Never = -(14 * (Grace + 1)) /\ Never + Grace + 1 < 0
  <1>1. /\ Now \in Nat /\ Grace \in Nat \ {0} /\ Interval \in Nat \ {0} /\ Interval < Now
        /\ ErrorWindow \in Nat \ {0} /\ ErrorWindow < Now
        /\ FailureThreshold \in Nat \ {0} /\ RecoveryThreshold \in Nat \ {0}
    BY HealthAssumption
  <1>2. Never = -(14 * (Grace + 1))
    BY <1>1 DEF Never
  <1> QED
    BY <1>1, <1>2

\* An interval of Grace and its start are so many places.
LEMMA Widens ==
  ASSUME NEW T, IsFiniteSet(T), NEW n \in Nat, Cardinality(T) <= n, NEW u \in Int
  PROVE  /\ IsFiniteSet(T \cup u..(u + Grace))
         /\ Cardinality(T \cup u..(u + Grace)) <= n + Grace + 1
  <1> DEFINE I == u..(u + Grace)
  <1>0. Grace \in Nat
    BY Settings
  <1>1. IsFiniteSet(I) /\ Cardinality(I) = Grace + 1
    <2>1. IsFiniteSet(I) /\ Cardinality(I) = IF u > u + Grace THEN 0 ELSE (u + Grace) - u + 1
      BY <1>0, FS_Interval
    <2> QED
      BY <1>0, <2>1
  <1> HIDE DEF I
  <1>2. /\ IsFiniteSet(T \cup I)
        /\ Cardinality(T \cup I) = Cardinality(T) + Cardinality(I) - Cardinality(T \cap I)
    BY <1>1, FS_Union
  <1>3. Cardinality(T \cap I) \in Nat /\ Cardinality(T) \in Nat
    BY <1>1, FS_Intersection, FS_CardinalityType
  <1>4. Cardinality(T \cup I) <= n + Grace + 1
    BY <1>0, <1>1, <1>2, <1>3
  <1> QED
    BY <1>2, <1>4 DEF I

\* Of the places from one stamp up to another, or to where the interval ends, as
\* many are covered as Grace tells apart.
Between(S, t, hi) == {x \in t..hi - 1 : \E u \in S \ {Never} : x - u \in 0..Grace}

LEMMA BetweenSize ==
  ASSUME NEW S, S \subseteq Stamp, NEW t \in S, t # Never, NEW hi \in Int, t < hi
  PROVE  /\ IsFiniteSet(Between(S, t, hi)) /\ Cardinality(Between(S, t, hi)) \in Nat
         /\ 1 <= Cardinality(Between(S, t, hi)) /\ Cardinality(Between(S, t, hi)) <= hi - t
         /\ hi - t <= Grace + 1 => Cardinality(Between(S, t, hi)) = hi - t
         /\ hi - t > Grace + 1 => Cardinality(Between(S, t, hi)) >= Grace + 1
  <1> DEFINE C == Between(S, t, hi)
             W == t..(hi - 1)
             N == t..(t + Grace)
  <1>0. Grace \in Nat /\ hi \in Int /\ t \in Int
    BY Settings DEF Stamp
  <1>1. IsFiniteSet(W) /\ Cardinality(W) = hi - t
    BY <1>0, FS_Interval
  <1>2. C \subseteq W
    BY DEF Between
  <1>3. IsFiniteSet(C) /\ Cardinality(C) \in Nat /\ Cardinality(C) <= hi - t
    <2>1. C \in SUBSET W
      BY <1>2
    <2> HIDE DEF C, W
    <2>2. IsFiniteSet(C) /\ Cardinality(C) <= Cardinality(W)
      BY <1>1, <2>1, FS_Subset
    <2> QED
      BY <1>1, <2>2, FS_CardinalityType
  <1>4. \A x \in W : x - t \in 0..Grace => x \in C
    BY DEF Between
  <1>5. t \in C
    BY <1>0, <1>4
  <1>6. 1 <= Cardinality(C)
    <2> HIDE DEF C
    <2>1. Cardinality(C) # 0
      BY <1>3, <1>5, FS_EmptySet
    <2> QED
      BY <1>3, <2>1
  <1>7. hi - t <= Grace + 1 => Cardinality(C) = hi - t
    <2> SUFFICES ASSUME hi - t <= Grace + 1
                 PROVE  Cardinality(C) = hi - t
      OBVIOUS
    <2>1. \A x \in W : x - t \in 0..Grace
      BY <1>0
    <2>2. C = W
      BY <1>2, <1>4, <2>1
    <2> HIDE DEF C, W
    <2> QED
      BY <1>1, <2>2
  <1>8. hi - t > Grace + 1 => Cardinality(C) >= Grace + 1
    <2> SUFFICES ASSUME hi - t > Grace + 1
                 PROVE  Cardinality(C) >= Grace + 1
      OBVIOUS
    <2>1. \A x \in N : x \in W /\ x - t \in 0..Grace
      BY <1>0
    <2>2. N \in SUBSET C
      BY <1>4, <2>1
    <2>3. Cardinality(N) = Grace + 1
      <3>1. Cardinality(N) = IF t > t + Grace THEN 0 ELSE (t + Grace) - t + 1
        BY <1>0, FS_Interval
      <3> QED
        BY <1>0, <3>1
    <2> HIDE DEF C, N
    <2>4. Cardinality(N) <= Cardinality(C)
      BY <1>3, <2>2, FS_Subset
    <2> QED
      BY <1>0, <1>3, <2>3, <2>4
  <1> QED
    BY <1>3, <1>6, <1>7, <1>8

LEMMA CoveredSplits ==
  ASSUME NEW S, S \subseteq Stamp, NEW t \in S, NEW u \in S, t # Never, t < u, u < Interval
  PROVE  Cardinality(Covered(S, t)) = Cardinality(Between(S, t, u)) + Cardinality(Covered(S, u))
  <1> DEFINE C == Covered(S, t)
             D == Between(S, t, u)
             E == Covered(S, u)
  <1>0. Interval \in Int /\ t \in Int /\ u \in Int /\ u # Never
    BY Settings DEF Stamp
  <1>1. E = Between(S, u, Interval)
    BY DEF Covered, Between
  <1>2. IsFiniteSet(D) /\ IsFiniteSet(E) /\ Cardinality(D) \in Nat /\ Cardinality(E) \in Nat
    BY <1>0, <1>1, BetweenSize
  <1>3. C = D \cup E
    BY <1>0 DEF Covered, Between
  <1>4. D \cap E = {}
    BY <1>0 DEF Covered, Between
  <1> HIDE DEF C, D, E
  <1>5. Cardinality(D \cup E) = Cardinality(D) + Cardinality(E) - Cardinality(D \cap E)
    BY <1>2, FS_Union
  <1>6. Cardinality(D \cap E) = 0
    BY <1>4, FS_EmptySet
  <1> QED
    BY <1>2, <1>3, <1>5, <1>6 DEF C, D, E

-----------------------------------------------------------------------------
(* An interval keeps what stamps tell.                                      *)

Thirteen(u) == {u[i] : i \in 1..13}

\* So many stamps do not cover more places than Never leaves them.
LEMMA CoveredBound ==
  ASSUME NEW u \in [1..13 -> Stamp], NEW t \in Thirteen(u), t # Never
  PROVE  Cardinality(Covered(Thirteen(u), t)) <= 13 * (Grace + 1)
  <1> DEFINE R(i) == u[i]..(u[i] + Grace)
             T1 == R(1)
             T2 == T1 \cup R(2)
             T3 == T2 \cup R(3)
             T4 == T3 \cup R(4)
             T5 == T4 \cup R(5)
             T6 == T5 \cup R(6)
             T7 == T6 \cup R(7)
             T8 == T7 \cup R(8)
             T9 == T8 \cup R(9)
             T10 == T9 \cup R(10)
             T11 == T10 \cup R(11)
             T12 == T11 \cup R(12)
             T13 == T12 \cup R(13)
             G == Grace + 1
  <1>0. Grace \in Nat /\ G \in Nat /\ Stamp \subseteq Int /\ \A i \in 1..13 : u[i] \in Int
    <2>1. Grace \in Nat /\ Stamp \subseteq Int
      BY Settings DEF Stamp
    <2>2. G \in Nat
      BY <2>1
    <2>3. \A i \in 1..13 : u[i] \in Stamp
      OBVIOUS
    <2> HIDE DEF G
    <2> QED
      BY <2>1, <2>2, <2>3
  <1>t. t \in Int
    BY <1>0 DEF Thirteen
  <1>s. Covered(Thirteen(u), t) \subseteq T13
    <2> SUFFICES ASSUME NEW x \in Covered(Thirteen(u), t)
                 PROVE  x \in T13
      OBVIOUS
    <2>1. x \in Int /\ \E v \in Thirteen(u) : x - v \in 0..Grace
      BY <1>t, Settings DEF Covered
    <2>2. PICK v \in Thirteen(u) : x - v \in 0..Grace
      BY <2>1
    <2>3. PICK i \in 1..13 : v = u[i]
      BY <2>2 DEF Thirteen
    <2>4. x \in R(i)
      BY <1>0, <2>1, <2>2, <2>3
    <2>5. \/ i = 1 \/ i = 2 \/ i = 3 \/ i = 4 \/ i = 5 \/ i = 6 \/ i = 7 \/ i = 8 \/ i = 9
          \/ i = 10 \/ i = 11 \/ i = 12 \/ i = 13
      BY <2>3
    <2> HIDE DEF R
    <2> QED
      BY <2>4, <2>5, Zenon
  <1> HIDE DEF G
  <1>g. G = Grace + 1
    BY DEF G
  <1>1. IsFiniteSet(T1) /\ Cardinality(T1) <= 1 * G
    <2>1. u[1] \in Int /\ u[1] + Grace \in Int
      BY <1>0
    <2>2. /\ IsFiniteSet(u[1]..(u[1] + Grace))
          /\ Cardinality(u[1]..(u[1] + Grace)) =
               IF u[1] > u[1] + Grace THEN 0 ELSE (u[1] + Grace) - u[1] + 1
      BY <2>1, FS_Interval
    <2>3. Cardinality(T1) = IF u[1] > u[1] + Grace THEN 0 ELSE (u[1] + Grace) - u[1] + 1
      BY <2>2
    <2> HIDE DEF T1
    <2>4. Cardinality(T1) = Grace + 1
      BY <1>0, <2>1, <2>3
    <2>5. IsFiniteSet(T1)
      BY <2>2 DEF T1
    <2> QED
      BY <1>0, <1>g, <2>4, <2>5
  <1>2. IsFiniteSet(T2) /\ Cardinality(T2) <= 2 * G
    <2> HIDE DEF T1
    <2>1. 1 * G \in Nat /\ u[2] \in Int
      BY <1>0
    <2>2. IsFiniteSet(T1 \cup R(2)) /\ Cardinality(T1 \cup R(2)) <= 1 * G + Grace + 1
      BY <1>1, <2>1, Widens
    <2> QED
      BY <1>0, <1>g, <2>2
  <1>3. IsFiniteSet(T3) /\ Cardinality(T3) <= 3 * G
    <2> HIDE DEF T2
    <2>1. 2 * G \in Nat /\ u[3] \in Int
      BY <1>0
    <2>2. IsFiniteSet(T2 \cup R(3)) /\ Cardinality(T2 \cup R(3)) <= 2 * G + Grace + 1
      BY <1>2, <2>1, Widens
    <2> QED
      BY <1>0, <1>g, <2>2
  <1>4. IsFiniteSet(T4) /\ Cardinality(T4) <= 4 * G
    <2> HIDE DEF T3
    <2>1. 3 * G \in Nat /\ u[4] \in Int
      BY <1>0
    <2>2. IsFiniteSet(T3 \cup R(4)) /\ Cardinality(T3 \cup R(4)) <= 3 * G + Grace + 1
      BY <1>3, <2>1, Widens
    <2> QED
      BY <1>0, <1>g, <2>2
  <1>5. IsFiniteSet(T5) /\ Cardinality(T5) <= 5 * G
    <2> HIDE DEF T4
    <2>1. 4 * G \in Nat /\ u[5] \in Int
      BY <1>0
    <2>2. IsFiniteSet(T4 \cup R(5)) /\ Cardinality(T4 \cup R(5)) <= 4 * G + Grace + 1
      BY <1>4, <2>1, Widens
    <2> QED
      BY <1>0, <1>g, <2>2
  <1>6. IsFiniteSet(T6) /\ Cardinality(T6) <= 6 * G
    <2> HIDE DEF T5
    <2>1. 5 * G \in Nat /\ u[6] \in Int
      BY <1>0
    <2>2. IsFiniteSet(T5 \cup R(6)) /\ Cardinality(T5 \cup R(6)) <= 5 * G + Grace + 1
      BY <1>5, <2>1, Widens
    <2> QED
      BY <1>0, <1>g, <2>2
  <1>7. IsFiniteSet(T7) /\ Cardinality(T7) <= 7 * G
    <2> HIDE DEF T6
    <2>1. 6 * G \in Nat /\ u[7] \in Int
      BY <1>0
    <2>2. IsFiniteSet(T6 \cup R(7)) /\ Cardinality(T6 \cup R(7)) <= 6 * G + Grace + 1
      BY <1>6, <2>1, Widens
    <2> QED
      BY <1>0, <1>g, <2>2
  <1>8. IsFiniteSet(T8) /\ Cardinality(T8) <= 8 * G
    <2> HIDE DEF T7
    <2>1. 7 * G \in Nat /\ u[8] \in Int
      BY <1>0
    <2>2. IsFiniteSet(T7 \cup R(8)) /\ Cardinality(T7 \cup R(8)) <= 7 * G + Grace + 1
      BY <1>7, <2>1, Widens
    <2> QED
      BY <1>0, <1>g, <2>2
  <1>9. IsFiniteSet(T9) /\ Cardinality(T9) <= 9 * G
    <2> HIDE DEF T8
    <2>1. 8 * G \in Nat /\ u[9] \in Int
      BY <1>0
    <2>2. IsFiniteSet(T8 \cup R(9)) /\ Cardinality(T8 \cup R(9)) <= 8 * G + Grace + 1
      BY <1>8, <2>1, Widens
    <2> QED
      BY <1>0, <1>g, <2>2
  <1>10. IsFiniteSet(T10) /\ Cardinality(T10) <= 10 * G
    <2> HIDE DEF T9
    <2>1. 9 * G \in Nat /\ u[10] \in Int
      BY <1>0
    <2>2. IsFiniteSet(T9 \cup R(10)) /\ Cardinality(T9 \cup R(10)) <= 9 * G + Grace + 1
      BY <1>9, <2>1, Widens
    <2> QED
      BY <1>0, <1>g, <2>2
  <1>11. IsFiniteSet(T11) /\ Cardinality(T11) <= 11 * G
    <2> HIDE DEF T10
    <2>1. 10 * G \in Nat /\ u[11] \in Int
      BY <1>0
    <2>2. IsFiniteSet(T10 \cup R(11)) /\ Cardinality(T10 \cup R(11)) <= 10 * G + Grace + 1
      BY <1>10, <2>1, Widens
    <2> QED
      BY <1>0, <1>g, <2>2
  <1>12. IsFiniteSet(T12) /\ Cardinality(T12) <= 12 * G
    <2> HIDE DEF T11
    <2>1. 11 * G \in Nat /\ u[12] \in Int
      BY <1>0
    <2>2. IsFiniteSet(T11 \cup R(12)) /\ Cardinality(T11 \cup R(12)) <= 11 * G + Grace + 1
      BY <1>11, <2>1, Widens
    <2> QED
      BY <1>0, <1>g, <2>2
  <1>13. IsFiniteSet(T13) /\ Cardinality(T13) <= 13 * G
    <2> HIDE DEF T12
    <2>1. 12 * G \in Nat /\ u[13] \in Int
      BY <1>0
    <2>2. IsFiniteSet(T12 \cup R(13)) /\ Cardinality(T12 \cup R(13)) <= 12 * G + Grace + 1
      BY <1>12, <2>1, Widens
    <2> QED
      BY <1>0, <1>g, <2>2
  <1> HIDE DEF T13
  <1>14. Covered(Thirteen(u), t) \in SUBSET T13
    BY <1>s
  <1>15. /\ Cardinality(Covered(Thirteen(u), t)) \in Nat /\ Cardinality(T13) \in Nat
         /\ Cardinality(Covered(Thirteen(u), t)) <= Cardinality(T13)
    BY <1>13, <1>14, FS_Subset, FS_CardinalityType
  <1> QED
    BY <1>0, <1>g, <1>13, <1>15

\* An aged stamp is a stamp before the new interval, and aged stamps have the
\* order of the old ones and are within Grace of each other if those were.
Faithful(S, age) ==
  /\ \A t \in S : age[t] \in Stamp /\ age[t] <= Now - Interval /\ (age[t] = Never <=> t = Never)
  /\ \A t \in S : age[t] >= t - Interval \/ t = Never
  /\ \A t \in S : age[t] >= 0 => age[t] = t - Interval
  /\ \A t, u \in S : (t < u <=> age[t] < age[u]) /\ (t - u <= Grace <=> age[t] - age[u] <= Grace)

LEMMA AgeIsFaithful ==
  ASSUME NEW u \in [1..13 -> Stamp]
  PROVE  Faithful(Thirteen(u), Age(Thirteen(u)))
  <1> DEFINE S == Thirteen(u)
             age == Age(S)
             Size(t) == Cardinality(Covered(S, t))
  <1>0. /\ Grace \in Nat /\ Interval \in Nat /\ 0 < Interval /\ Never \in Int /\ Now \in Nat
        /\ Interval < Now /\ Never + Grace + 1 < 0 /\ Never = -(14 * (Grace + 1))
    BY Settings
  <1>1. S \subseteq Stamp
    BY DEF Thirteen
  <1>2. \A t \in S : t \in Int /\ (t = Never \/ t >= Never + Grace + 1) /\ t <= Now
    BY <1>0, <1>1 DEF Stamp
  <1>3. \A t \in S : /\ t = Never => age[t] = Never
                     /\ t # Never /\ t >= Interval => age[t] = t - Interval
                     /\ t # Never /\ t < Interval => age[t] = -Size(t)
    BY <1>0, <1>2 DEF Age
  <1>4. ASSUME NEW t \in S, t # Never, t < Interval
        PROVE  /\ Size(t) \in Nat /\ 1 <= Size(t) /\ Size(t) <= Interval - t
               /\ Interval - t <= Grace + 1 => Size(t) = Interval - t
               /\ Interval - t > Grace + 1 => Size(t) >= Grace + 1
               /\ Size(t) <= 13 * (Grace + 1)
    <2>1. Between(S, t, Interval) = Covered(S, t)
      BY DEF Between, Covered
    <2> HIDE DEF S
    <2>2. /\ Size(t) \in Nat /\ 1 <= Size(t) /\ Size(t) <= Interval - t
          /\ Interval - t <= Grace + 1 => Size(t) = Interval - t
          /\ Interval - t > Grace + 1 => Size(t) >= Grace + 1
      BY <1>0, <1>1, <1>4, <2>1, BetweenSize
    <2>3. Size(t) <= 13 * (Grace + 1)
      BY <1>4, CoveredBound DEF S
    <2> QED
      BY <2>2, <2>3
  <1>5. ASSUME NEW t \in S, NEW v \in S, t # Never, t < v, v < Interval
        PROVE  /\ Size(t) > Size(v)
               /\ v - t <= Grace + 1 => Size(t) - Size(v) = v - t
               /\ v - t > Grace + 1 => Size(t) - Size(v) >= Grace + 1
    <2> DEFINE n == Cardinality(Between(S, t, v))
    <2> HIDE DEF S
    <2>1. t \in Int /\ v \in Int /\ v # Never
      BY <1>0, <1>2, <1>5
    <2>2. Size(t) = n + Size(v)
      BY <1>1, <1>5, CoveredSplits
    <2>3. /\ n \in Nat /\ 1 <= n
          /\ v - t <= Grace + 1 => n = v - t
          /\ v - t > Grace + 1 => n >= Grace + 1
      BY <1>1, <1>5, <2>1, BetweenSize
    <2>4. Size(v) \in Nat /\ Size(t) \in Nat
      <3>1. t < Interval
        BY <1>0, <1>5, <2>1
      <3> QED
        BY <1>4, <1>5, <2>1, <3>1
    <2> HIDE DEF n, Size
    <2> QED
      BY <1>0, <2>1, <2>2, <2>3, <2>4
  <1> HIDE DEF S, age, Size
  <1>6. ASSUME NEW t \in S
        PROVE  /\ age[t] \in Stamp /\ age[t] <= Now - Interval /\ (age[t] = Never <=> t = Never)
               /\ age[t] >= t - Interval \/ t = Never
               /\ age[t] >= 0 => age[t] = t - Interval
    <2>1. CASE t = Never
      BY <1>0, <1>3, <2>1 DEF Stamp
    <2>2. CASE t # Never /\ t >= Interval
      BY <1>0, <1>2, <1>3, <2>2 DEF Stamp
    <2>3. CASE t # Never /\ t < Interval
      <3>1. age[t] = -Size(t) /\ Size(t) \in Nat /\ 1 <= Size(t) /\ Size(t) <= Interval - t
            /\ Size(t) <= 13 * (Grace + 1) /\ t \in Int
        BY <1>2, <1>3, <1>4, <2>3
      <3>2. age[t] >= Never + Grace + 1 /\ age[t] < 0 /\ age[t] \in Int
        BY <1>0, <3>1
      <3>3. age[t] >= t - Interval /\ age[t] # Never /\ age[t] <= Now - Interval
        BY <1>0, <3>1, <3>2
      <3> QED
        BY <1>0, <2>3, <3>2, <3>3 DEF Stamp
    <2> QED
      BY <1>0, <1>2, <2>1, <2>2, <2>3
  <1>7. ASSUME NEW t \in S, NEW v \in S, t < v
        PROVE  age[t] < age[v] /\ (v - t <= Grace <=> age[v] - age[t] <= Grace)
    <2>0. t \in Int /\ v \in Int /\ v # Never /\ age[v] \in Int
      BY <1>0, <1>2, <1>6, <1>7 DEF Stamp
    <2>1. CASE t = Never
      <3>1. /\ age[t] = Never /\ age[v] >= Never + Grace + 1 /\ v >= Never + Grace + 1
        BY <1>0, <1>2, <1>3, <1>6, <2>0, <2>1 DEF Stamp
      <3> QED
        BY <1>0, <2>0, <2>1, <3>1
    <2>2. CASE t # Never /\ t >= Interval
      BY <1>0, <1>3, <1>7, <2>0, <2>2
    <2>3. CASE t # Never /\ t < Interval /\ v >= Interval
      <3>1. /\ age[t] = -Size(t) /\ age[v] = v - Interval
            /\ Size(t) \in Nat /\ 1 <= Size(t)
            /\ Interval - t <= Grace + 1 => Size(t) = Interval - t
            /\ Interval - t > Grace + 1 => Size(t) >= Grace + 1
        BY <1>3, <1>4, <2>0, <2>3
      <3> QED
        BY <1>0, <2>0, <2>3, <3>1
    <2>4. CASE t # Never /\ v < Interval
      <3>1. t < Interval
        BY <1>0, <1>7, <2>0, <2>4
      <3>2. /\ age[t] = -Size(t) /\ age[v] = -Size(v) /\ Size(t) \in Nat /\ Size(v) \in Nat
            /\ Size(t) > Size(v)
            /\ v - t <= Grace + 1 => Size(t) - Size(v) = v - t
            /\ v - t > Grace + 1 => Size(t) - Size(v) >= Grace + 1
        BY <1>3, <1>4, <1>5, <1>7, <2>0, <2>4, <3>1
      <3> QED
        BY <1>0, <2>0, <3>2
    <2> QED
      BY <1>0, <2>0, <2>1, <2>2, <2>3, <2>4
  <1>8. ASSUME NEW t \in S, NEW v \in S
        PROVE  (t < v <=> age[t] < age[v]) /\ (t - v <= Grace <=> age[t] - age[v] <= Grace)
    <2>0. t \in Int /\ v \in Int /\ age[t] \in Int /\ age[v] \in Int
      BY <1>0, <1>2, <1>6 DEF Stamp
    <2>1. CASE t < v
      <3>1. age[t] < age[v]
        BY <1>7, <2>1
      <3> QED
        BY <1>0, <2>0, <2>1, <3>1
    <2>2. CASE t = v
      BY <1>0, <2>0, <2>2
    <2>3. CASE v < t
      <3>1. age[v] < age[t] /\ (t - v <= Grace <=> age[t] - age[v] <= Grace)
        BY <1>7, <2>3
      <3> QED
        BY <1>0, <2>0, <2>3, <3>1
    <2> QED
      BY <2>0, <2>1, <2>2, <2>3
  <1>9. Faithful(S, age)
    BY <1>6, <1>8 DEF Faithful
  <1> QED
    BY <1>9 DEF S, age

-----------------------------------------------------------------------------
(* The rows of an account.                                                  *)

LogRow == [act : Stamp, err : Stamp, upd : Stamp, slow : BOOLEAN, identity : 1..2, on : BOOLEAN]
TargetRow ==
  [here : BOOLEAN, active : BOOLEAN, act : Stamp, err : Stamp, resolved : Stamp,
   obsAct : Stamp, obsErr : Stamp, identity : 1..2, src : Stamp]
CheckRow == [at : Stamp, status : ProbeStatus \cup {"none"}]
AlertRow ==
  [failures : 0..MostFailures, recoveries : 0..RecoveryThreshold,
   alerted : {"none", "failed", "operational"}, at : Stamp]
HistoryRow ==
  [changed : Stamp, bad : 0..Len(Tiers), told : {"none", "failed", "operational"},
   stale : BOOLEAN, fails : 0..FailureThreshold, counted : Stamp]

\* The target has the configuration that the account has.
InSync(l, t) == t.here /\ t.identity = l.identity

\* How the stamps of the rows follow each other.
Dated(l, t, c, s, h) ==
  /\ l.act < Now /\ l.err < Now /\ l.upd < Now
  /\ h.changed <= l.upd /\ t.err <= l.err /\ (t.src <= l.upd \/ t.src <= l.act)
  /\ InSync(l, t) =>
       /\ h.changed <= t.src \/ h.changed - l.act <= Grace
       /\ t.src > c.at => c.at = Never \/ h.changed > c.at
       /\ t.src > s.at => s.at = Never \/ h.changed > s.at
  /\ t.here /\ ~InSync(l, t) => h.changed > c.at /\ h.changed > s.at
  /\ ~t.here => c.at = Never /\ s.at = Never /\ ~t.active /\ t.resolved = Never

\* A logged error that was resolved was answered, or belongs to an earlier source.
Settled(l, t, c) ==
  t.here /\ Now - l.err <= ErrorWindow /\ l.err <= t.resolved =>
    l.err < l.act \/ l.err < c.at \/ t.src - l.err > Grace

\* What an alert state knows of what was told.
Remembered(s, h) ==
  /\ s.at = Never => s = NoAlert
  /\ h.changed > s.at => h.stale
  /\ h.told = "failed" => s.alerted = "failed" \/ h.stale

\* Failures of a streak are distinct, and errors that count are marked.
Counted(l, t, s, h) ==
  /\ h.fails >= Smaller(s.failures, FailureThreshold)
  /\ IF t.active THEN h.counted <= t.obsErr ELSE h.counted = Never
  /\ ~l.on => h.counted = Never

\* The failing probes that count are those of the present configuration.
Backing(l, t, c, h) ==
  h.bad > 0 => /\ InSync(l, t) /\ t.active /\ l.on
               /\ Failing(c.status) /\ c.at # Never /\ c.at >= h.changed

AccountInv(l, t, c, s, h) ==
  /\ Dated(l, t, c, s, h) /\ Settled(l, t, c) /\ Remembered(s, h)
  /\ Counted(l, t, s, h) /\ Backing(l, t, c, h)

\* The streak of an alert is as long as that of the probes.
Streaks(c, s, h) == h.bad > 0 => s.at >= c.at /\ s.failures >= h.bad

\* An interval keeps all this.
LEMMA IntervalKeeps ==
  ASSUME NEW l \in LogRow, NEW t \in TargetRow, NEW c \in CheckRow, NEW s \in AlertRow,
         NEW h \in HistoryRow, NEW k \in Traffic, NEW S, NEW age, Faithful(S, age),
         {l.act, l.err, l.upd, t.act, t.err, t.resolved, t.obsAct, t.obsErr, t.src,
          c.at, s.at, h.changed, h.counted} \subseteq S,
         k.change \/ k.switch => k.upd > 0,
         l.on \/ (k.ok = 0 /\ k.err = 0 /\ ~k.change),
         k.change => ~t.here \/ t.identity = l.identity,
         AccountInv(l, t, c, s, h),
         NEW l2, NEW t2, NEW c2, NEW s2, NEW h2,
         l2 = LogAfter(l, age, k), t2 = TargetAfter(t, age), c2 = [c EXCEPT !.at = age[@]],
         s2 = [s EXCEPT !.at = age[@]], h2 = HistoryAfter(h, age, k)
  PROVE  /\ l2 \in LogRow /\ t2 \in TargetRow /\ c2 \in CheckRow /\ s2 \in AlertRow
         /\ h2 \in HistoryRow
         /\ AccountInv(l2, t2, c2, s2, h2)
         /\ Streaks(c, s, h) => Streaks(c2, s2, h2)
  <1>0. /\ Now \in Nat /\ Grace \in Nat /\ Interval \in Nat /\ 0 < Interval /\ Interval < Now
        /\ Never \in Int /\ Never + Grace + 1 < 0 /\ ErrorWindow \in Nat /\ ErrorWindow < Now
    BY Settings
  <1>1. /\ k.ok \in 0..Interval - 1 /\ k.err \in 0..Interval - 1 /\ k.upd \in 0..Interval - 1
        /\ k.slow \in BOOLEAN /\ k.change \in BOOLEAN /\ k.switch \in BOOLEAN
    BY DEF Traffic
  <1>2. \A n \in 0..Interval - 1 : Now - n \in Stamp /\ Now - n > Now - Interval
    BY <1>0 DEF Stamp
  <1>3. /\ \A x \in S : /\ age[x] \in Stamp /\ age[x] <= Now - Interval
                        /\ age[x] = Never <=> x = Never
        /\ \A x \in S : age[x] >= 0 => age[x] = x - Interval
        /\ \A x, y \in S : /\ (x < y <=> age[x] < age[y])
                           /\ (x - y <= Grace <=> age[x] - age[y] <= Grace)
    BY DEF Faithful
  <1>4. /\ l2.act = When(k.ok, age, l.act) /\ l2.err = When(k.err, age, l.err)
        /\ l2.upd = When(k.upd, age, l.upd) /\ l2.slow = (IF k.ok = 0 THEN l.slow ELSE k.slow)
        /\ l2.identity = (IF k.change THEN 3 - l.identity ELSE l.identity)
        /\ l2.on = (l.on # k.switch)
    BY DEF LogAfter
  <1>5. /\ t2.here = t.here /\ t2.active = t.active /\ t2.identity = t.identity
        /\ t2.act = age[t.act] /\ t2.err = age[t.err] /\ t2.resolved = age[t.resolved]
        /\ t2.obsAct = age[t.obsAct] /\ t2.obsErr = age[t.obsErr] /\ t2.src = age[t.src]
    BY DEF TargetAfter, TargetRow
  <1>6. /\ c2.at = age[c.at] /\ c2.status = c.status
        /\ s2.at = age[s.at] /\ s2.failures = s.failures /\ s2.recoveries = s.recoveries
        /\ s2.alerted = s.alerted
    BY DEF CheckRow, AlertRow
  <1>7. /\ h2.changed = (IF k.change THEN Now - k.upd ELSE age[h.changed])
        /\ h2.counted = (IF k.switch THEN Never ELSE age[h.counted])
        /\ h2.bad = (IF k.change \/ k.switch THEN 0 ELSE h.bad)
        /\ h2.stale = (h.stale \/ k.change)
        /\ h2.told = h.told /\ h2.fails = h.fails
    BY DEF HistoryAfter, HistoryRow
  <1>8. l2 \in LogRow
    <2>1. l2.act \in Stamp /\ l2.err \in Stamp /\ l2.upd \in Stamp
      BY <1>1, <1>2, <1>3, <1>4 DEF When
    <2>2. l2.identity \in 1..2
      BY <1>1, <1>4 DEF LogRow
    <2>3. l2.slow \in BOOLEAN
      BY <1>1, <1>4 DEF LogRow
    <2>4. l2.on \in BOOLEAN
      BY <1>4
    <2> QED
      BY <2>1, <2>2, <2>3, <2>4 DEF LogAfter, LogRow
  <1>9. t2 \in TargetRow /\ c2 \in CheckRow /\ s2 \in AlertRow /\ h2 \in HistoryRow
    <2>1. t2 \in TargetRow
      <3>1. /\ age[t.act] \in Stamp /\ age[t.err] \in Stamp /\ age[t.resolved] \in Stamp
            /\ age[t.obsAct] \in Stamp /\ age[t.obsErr] \in Stamp /\ age[t.src] \in Stamp
        BY <1>3
      <3> QED
        BY <3>1 DEF TargetAfter, TargetRow
    <2>2. c2 \in CheckRow /\ s2 \in AlertRow
      BY <1>3 DEF CheckRow, AlertRow
    <2>3. h2 \in HistoryRow
      <3>1. /\ h2.changed \in Stamp /\ h2.counted \in Stamp
            /\ h2.bad \in 0..Len(Tiers) /\ h2.stale \in BOOLEAN
        <4>1. h2.changed \in Stamp /\ h2.counted \in Stamp
          BY <1>1, <1>2, <1>3, <1>7 DEF Stamp
        <4>2. h2.bad \in 0..Len(Tiers)
          BY <1>7, HealthAssumption DEF HistoryRow
        <4>3. h2.stale \in BOOLEAN
          BY <1>7
        <4> QED
          BY <4>1, <4>2, <4>3
      <3>2. h2.told = h.told /\ h2.fails = h.fails
        BY <1>7
      <3> QED
        BY <3>1, <3>2 DEF HistoryAfter, HistoryRow
    <2> QED
      BY <2>1, <2>2, <2>3
  <1>10. /\ \A x \in S : x \in Int => age[x] \in Int
         /\ {l.act, l.err, l.upd, t.err, t.resolved, t.obsErr, t.src, c.at, s.at,
             h.changed, h.counted} \subseteq Int
    <2>0. \A x \in Stamp : x \in Int
      BY <1>0 DEF Stamp
    <2>1. \A x \in S : x \in Int => age[x] \in Int
      BY <1>3, <2>0
    <2>2. /\ l.act \in Stamp /\ l.err \in Stamp /\ l.upd \in Stamp /\ t.err \in Stamp
          /\ t.resolved \in Stamp /\ t.obsErr \in Stamp /\ t.src \in Stamp /\ c.at \in Stamp
          /\ s.at \in Stamp /\ h.changed \in Stamp /\ h.counted \in Stamp
      BY DEF LogRow, TargetRow, CheckRow, AlertRow, HistoryRow
    <2> QED
      BY <2>0, <2>1, <2>2
  <1>11. /\ l2.act \in Int /\ l2.act < Now /\ (l2.act = age[l.act] \/ l2.act > Now - Interval)
         /\ l2.err \in Int /\ l2.err < Now /\ (l2.err = age[l.err] \/ l2.err > Now - Interval)
         /\ l2.upd \in Int /\ l2.upd < Now /\ (l2.upd = age[l.upd] \/ l2.upd > Now - Interval)
    BY <1>0, <1>1, <1>2, <1>3, <1>4, <1>10 DEF When
  <1>12. InSync(l2, t2) => InSync(l, t) /\ ~k.change
    BY <1>1, <1>4, <1>5 DEF InSync, LogRow, TargetRow
  <1>13. Dated(l2, t2, c2, s2, h2)
    <2>1. h2.changed <= l2.upd
      <3>1. CASE k.change
        BY <1>0, <1>1, <1>4, <1>7, <3>1 DEF When
      <3>2. CASE ~k.change
        <4>1. h.changed <= l.upd
          BY DEF AccountInv, Dated
        <4>2. age[h.changed] <= age[l.upd] /\ age[h.changed] <= Now - Interval
          BY <1>3, <1>10, <4>1
        <4> QED
          BY <1>0, <1>3, <1>7, <1>10, <1>11, <3>2, <4>2
      <3> QED
        BY <3>1, <3>2
    <2>2. t2.err <= l2.err
      <3>1. t.err <= l.err
        BY DEF AccountInv, Dated
      <3>2. age[t.err] <= age[l.err] /\ age[t.err] <= Now - Interval
        BY <1>3, <1>10, <3>1
      <3> QED
        BY <1>0, <1>3, <1>5, <1>10, <1>11, <3>2
    <2>3. t2.src <= l2.upd \/ t2.src <= l2.act
      <3>1. t.src <= l.upd \/ t.src <= l.act
        BY DEF AccountInv, Dated
      <3>2. (age[t.src] <= age[l.upd] \/ age[t.src] <= age[l.act]) /\ age[t.src] <= Now - Interval
        BY <1>3, <1>10, <3>1
      <3> QED
        BY <1>0, <1>3, <1>5, <1>10, <1>11, <3>2
    <2>4. ASSUME InSync(l2, t2)
          PROVE  /\ h2.changed <= t2.src \/ h2.changed - l2.act <= Grace
                 /\ t2.src > c2.at => c2.at = Never \/ h2.changed > c2.at
                 /\ t2.src > s2.at => s2.at = Never \/ h2.changed > s2.at
      <3>1. /\ h.changed <= t.src \/ h.changed - l.act <= Grace
            /\ t.src > c.at => c.at = Never \/ h.changed > c.at
            /\ t.src > s.at => s.at = Never \/ h.changed > s.at
        BY <1>12, <2>4 DEF AccountInv, Dated
      <3>2. h2.changed = age[h.changed]
        BY <1>7, <1>12, <2>4
      <3>3. /\ age[t.src] > age[c.at] => age[c.at] = Never \/ age[h.changed] > age[c.at]
            /\ age[t.src] > age[s.at] => age[s.at] = Never \/ age[h.changed] > age[s.at]
        BY <1>3, <1>10, <3>1
      <3>4. age[h.changed] <= age[t.src] \/ age[h.changed] - age[l.act] <= Grace
        BY <1>3, <1>10, <3>1
      <3>5. age[h.changed] <= age[t.src] \/ age[h.changed] - l2.act <= Grace
        BY <1>0, <1>3, <1>10, <1>11, <3>4
      <3> QED
        BY <1>5, <1>6, <3>2, <3>3, <3>5
    <2>5. t2.here /\ ~InSync(l2, t2) => h2.changed > c2.at /\ h2.changed > s2.at
      <3> SUFFICES ASSUME t2.here, ~InSync(l2, t2)
                   PROVE  h2.changed > c2.at /\ h2.changed > s2.at
        OBVIOUS
      <3>0. age[c.at] <= Now - Interval /\ age[s.at] <= Now - Interval
        BY <1>3
      <3>1. CASE k.change
        <4>1. Now - k.upd > Now - Interval /\ h2.changed = Now - k.upd
          BY <1>1, <1>2, <1>7, <3>1
        <4> QED
          BY <1>0, <1>1, <1>3, <1>6, <1>10, <3>0, <4>1
      <3>2. CASE ~k.change
        <4>1. h.changed > c.at /\ h.changed > s.at
          BY <1>4, <1>5, <3>2 DEF AccountInv, Dated, InSync
        <4>2. age[h.changed] > age[c.at] /\ age[h.changed] > age[s.at]
          BY <1>3, <1>10, <4>1
        <4> QED
          BY <1>6, <1>7, <3>2, <4>2
      <3> QED
        BY <3>1, <3>2
    <2>6. ~t2.here => c2.at = Never /\ s2.at = Never /\ ~t2.active /\ t2.resolved = Never
      BY <1>3, <1>5, <1>6 DEF AccountInv, Dated
    <2> QED
      BY <1>11, <2>1, <2>2, <2>3, <2>4, <2>5, <2>6 DEF Dated
  <1>14. Settled(l2, t2, c2)
    <2> SUFFICES ASSUME t2.here, Now - l2.err <= ErrorWindow, l2.err <= t2.resolved
                 PROVE  l2.err < l2.act \/ l2.err < c2.at \/ t2.src - l2.err > Grace
      BY DEF Settled
    <2>1. l2.err = age[l.err]
      <3>1. age[t.resolved] <= Now - Interval
        BY <1>3
      <3> QED
        BY <1>0, <1>3, <1>5, <1>10, <1>11, <3>1
    <2>2. age[l.err] >= 0 /\ age[l.err] = l.err - Interval
      <3>1. age[l.err] >= 0
        BY <1>0, <1>3, <1>10, <2>1
      <3> QED
        BY <1>3, <3>1
    <2>3. Now - l.err <= ErrorWindow
      BY <1>0, <1>10, <2>1, <2>2
    <2>4. l.err <= t.resolved
      BY <1>3, <1>5, <1>10, <2>1
    <2>5. l.err < l.act \/ l.err < c.at \/ t.src - l.err > Grace
      BY <1>5, <2>3, <2>4 DEF AccountInv, Settled
    <2>6. age[l.err] < age[l.act] \/ age[l.err] < age[c.at] \/ age[t.src] - age[l.err] > Grace
      BY <1>0, <1>3, <1>10, <2>5
    <2>7. age[l.err] < age[l.act] => age[l.err] < l2.act
      BY <1>0, <1>3, <1>10, <1>11
    <2> QED
      BY <1>5, <1>6, <2>1, <2>6, <2>7
  <1>15. Remembered(s2, h2)
    <2>1. s2.at = Never => s2 = NoAlert
      <3> SUFFICES ASSUME s2.at = Never
                   PROVE  s2 = NoAlert
        OBVIOUS
      <3>1. s.at = Never /\ age[s.at] = Never
        BY <1>3, <1>6
      <3>2. s = NoAlert
        BY <3>1 DEF AccountInv, Remembered
      <3> QED
        BY <3>1, <3>2 DEF NoAlert
    <2>2. h2.changed > s2.at => h2.stale
      <3>1. CASE k.change
        BY <1>7, <3>1
      <3>2. CASE ~k.change
        <4>1. age[h.changed] > age[s.at] => h.changed > s.at
          BY <1>3, <1>10
        <4> QED
          BY <1>6, <1>7, <3>2, <4>1 DEF AccountInv, Remembered
      <3> QED
        BY <3>1, <3>2
    <2>3. h2.told = "failed" => s2.alerted = "failed" \/ h2.stale
      BY <1>6, <1>7 DEF AccountInv, Remembered
    <2> QED
      BY <2>1, <2>2, <2>3 DEF Remembered
  <1>16. Counted(l2, t2, s2, h2)
    <2>1. h2.fails >= Smaller(s2.failures, FailureThreshold)
      BY <1>6, <1>7 DEF AccountInv, Counted
    <2>2. IF t2.active THEN h2.counted <= t2.obsErr ELSE h2.counted = Never
      <3>1. CASE k.switch
        <4>1. h2.counted = Never /\ Never <= age[t.obsErr]
          BY <1>0, <1>3, <1>7, <3>1 DEF Stamp
        <4> QED
          BY <1>5, <4>1
      <3>2. CASE ~k.switch
        <4>1. IF t.active THEN h.counted <= t.obsErr ELSE h.counted = Never
          BY DEF AccountInv, Counted
        <4>2. IF t.active THEN age[h.counted] <= age[t.obsErr] ELSE age[h.counted] = Never
          BY <1>3, <1>10, <4>1
        <4> QED
          BY <1>5, <1>7, <3>2, <4>2
      <3> QED
        BY <3>1, <3>2
    <2>3. ~l2.on => h2.counted = Never
      <3>1. CASE k.switch
        BY <1>7, <3>1
      <3>2. CASE ~k.switch
        BY <1>1, <1>3, <1>4, <1>7, <3>2 DEF AccountInv, Counted, LogRow
      <3> QED
        BY <3>1, <3>2
    <2> QED
      BY <2>1, <2>2, <2>3 DEF Counted
  <1>17. Backing(l2, t2, c2, h2)
    <2> SUFFICES ASSUME h2.bad > 0
                 PROVE  /\ InSync(l2, t2) /\ t2.active /\ l2.on
                        /\ Failing(c2.status) /\ c2.at # Never /\ c2.at >= h2.changed
      BY DEF Backing
    <2>1. ~k.change /\ ~k.switch /\ h.bad > 0 /\ h2.changed = age[h.changed]
      BY <1>7
    <2>2. /\ InSync(l, t) /\ t.active /\ l.on
          /\ Failing(c.status) /\ c.at # Never /\ c.at >= h.changed
      BY <2>1 DEF AccountInv, Backing
    <2>3. age[c.at] # Never /\ age[c.at] >= age[h.changed]
      BY <1>3, <1>10, <2>2
    <2>4. InSync(l2, t2)
      BY <1>4, <1>5, <2>1, <2>2 DEF InSync
    <2>5. l2.on
      BY <1>1, <1>4, <2>1, <2>2 DEF LogRow
    <2> QED
      BY <1>5, <1>6, <2>1, <2>2, <2>3, <2>4, <2>5
  <1>18. Streaks(c, s, h) => Streaks(c2, s2, h2)
    <2> SUFFICES ASSUME Streaks(c, s, h), h2.bad > 0
                 PROVE  s2.at >= c2.at /\ s2.failures >= h2.bad
      BY DEF Streaks
    <2>1. h2.bad = h.bad
      BY <1>7
    <2>2. s.at >= c.at /\ s.failures >= h.bad
      BY <2>1 DEF Streaks
    <2>3. age[s.at] >= age[c.at]
      BY <1>3, <1>10, <2>2
    <2> QED
      BY <1>6, <2>1, <2>2, <2>3
  <1> QED
    BY <1>8, <1>9, <1>13, <1>14, <1>15, <1>16, <1>17, <1>18 DEF AccountInv

-----------------------------------------------------------------------------
(* The synchronisation of an account.                                       *)

LEMMA StampsAreInts ==
  /\ \A x \in Stamp : x \in Int /\ x >= Never /\ x <= Now /\ (x # Never => x > Never + Grace)
  /\ Never \in Stamp /\ Now \in Stamp /\ Now # Never
  BY Settings DEF Stamp

\* Never is so far below that validity is a matter of distance.
LEMMA ValidIsNear ==
  ASSUME NEW x \in Stamp, NEW y \in Stamp
  PROVE  Valid(x, y) <=> x # Never /\ y - x <= Grace
  BY Settings, StampsAreInts DEF Valid

\* The rows of an account, and what the snapshot makes of its source.
LEMMA SourceFacts ==
  ASSUME NEW l \in LogRow, NEW t \in TargetRow, NEW c \in CheckRow, NEW s \in AlertRow,
         NEW h \in HistoryRow, AccountInv(l, t, c, s, h),
         NEW src, src = Snapshot(l, t, c, s).src
  PROVE  /\ src \in Stamp
         /\ src <= l.upd \/ src <= l.act
         /\ h.changed <= src \/ h.changed - l.act <= Grace
         /\ src > c.at => c.at = Never \/ h.changed > c.at
         /\ src > s.at => s.at = Never \/ h.changed > s.at
         /\ \A x \in Stamp : t.here /\ t.src - x > Grace => src - x > Grace \/ x < l.act
  <1>0. Grace \in Nat /\ Never \in Int
    BY Settings
  <1>1. src = IF InSync(l, t) THEN t.src ELSE Candidate(l)
    BY DEF Snapshot, SourceAt, InSync
  <1>2. /\ l.act \in Stamp /\ l.upd \in Stamp /\ t.src \in Stamp /\ c.at \in Stamp
        /\ s.at \in Stamp /\ h.changed \in Stamp
    BY DEF LogRow, TargetRow, CheckRow, AlertRow, HistoryRow
  <1>3. /\ l.act \in Int /\ l.upd \in Int /\ t.src \in Int /\ c.at \in Int
        /\ s.at \in Int /\ h.changed \in Int
    BY <1>2, StampsAreInts
  <1>4. Dated(l, t, c, s, h)
    BY DEF AccountInv
  <1>5. CASE InSync(l, t)
    BY <1>1, <1>2, <1>4, <1>5 DEF Dated
  <1>6. CASE ~InSync(l, t)
    <2>1. src = l.upd \/ (src = l.act /\ l.upd - l.act <= Grace)
      BY <1>1, <1>6 DEF Candidate, Effective, Near
    <2>2. h.changed <= l.upd /\ (t.src <= l.upd \/ t.src <= l.act)
      BY <1>4 DEF Dated
    <2>3. (c.at = Never \/ h.changed > c.at) /\ (s.at = Never \/ h.changed > s.at)
      BY <1>4, <1>6 DEF Dated
    <2>4. ASSUME NEW x \in Stamp, t.src - x > Grace
          PROVE  src - x > Grace \/ x < l.act
      <3>1. x \in Int
        BY StampsAreInts
      <3> QED
        BY <1>0, <1>3, <2>1, <2>2, <2>4, <3>1
    <2> QED
      BY <1>0, <1>2, <1>3, <2>1, <2>2, <2>3, <2>4
  <1> QED
    BY <1>5, <1>6

\* What the snapshot makes of the last error.
LEMMA ErrorFacts ==
  ASSUME NEW l \in LogRow, NEW t \in TargetRow, NEW c \in CheckRow, NEW s \in AlertRow,
         NEW h \in HistoryRow, AccountInv(l, t, c, s, h),
         NEW v, v = Snapshot(l, t, c, s)
  PROVE  /\ v.err \in Stamp /\ v.err <= l.err
         /\ v.err # Never => l.act <= v.err /\ (Successful(c.status) => c.at <= v.err)
         /\ Now - l.err <= ErrorWindow =>
              \/ v.err = l.err \/ l.err < l.act \/ l.err < c.at \/ v.src - l.err > Grace
         /\ v.act = l.act /\ v.slow = l.slow /\ v.probe = c
  <1>0. /\ Grace \in Nat /\ Never \in Int /\ Now \in Nat /\ ErrorWindow \in Nat
        /\ ErrorWindow < Now /\ Never + Grace + 1 < 0
    BY Settings
  <1>1. /\ l.act \in Stamp /\ l.err \in Stamp /\ t.src \in Stamp /\ t.err \in Stamp
        /\ c.at \in Stamp /\ t.resolved \in Stamp
    BY DEF LogRow, TargetRow, CheckRow
  <1>2. /\ l.act \in Int /\ l.err \in Int /\ t.src \in Int /\ t.err \in Int /\ c.at \in Int
        /\ t.resolved \in Int /\ l.err >= Never
    BY <1>1, StampsAreInts
  <1> DEFINE L == Logged(l, t)
             S == Stored(t)
             E == Larger(L, S)
  <1>3. v.err = LastError(E, l, c) /\ v.act = l.act /\ v.slow = l.slow /\ v.probe = c
    BY DEF Snapshot
  <1>4. t.err <= l.err
    BY DEF AccountInv, Dated
  <1>5. (L = Never \/ L = l.err) /\ (S = Never \/ S = t.err)
    BY DEF Logged, Stored
  <1>6. E \in Stamp /\ E <= l.err /\ E >= L
    BY <1>0, <1>1, <1>2, <1>4, <1>5, StampsAreInts DEF Larger
  <1>7. Now - l.err <= ErrorWindow /\ L # l.err =>
          t.here /\ (l.err <= t.resolved \/ t.src - l.err > Grace)
    <2> SUFFICES ASSUME Now - l.err <= ErrorWindow, L # l.err
                 PROVE  t.here /\ (l.err <= t.resolved \/ t.src - l.err > Grace)
      OBVIOUS
    <2>1. ~Unresolved(t, l.err)
      BY DEF Logged
    <2>2. Known(t) /\ (~Valid(l.err, t.src) \/ ~(l.err > t.resolved))
      BY <2>1 DEF Unresolved
    <2>3. l.err # Never
      BY <1>0, <1>2
    <2>4. ~Valid(l.err, t.src) => t.src - l.err > Grace
      BY <1>0, <1>1, <1>2, <2>3, ValidIsNear
    <2> QED
      BY <1>2, <2>2, <2>4 DEF Known
  <1>8. Now - l.err <= ErrorWindow /\ L # l.err =>
          l.err < l.act \/ l.err < c.at \/ v.src - l.err > Grace
    <2> SUFFICES ASSUME Now - l.err <= ErrorWindow, L # l.err
                 PROVE  l.err < l.act \/ l.err < c.at \/ v.src - l.err > Grace
      OBVIOUS
    <2>1. t.here /\ (l.err <= t.resolved \/ t.src - l.err > Grace)
      BY <1>7
    <2>2. l.err < l.act \/ l.err < c.at \/ t.src - l.err > Grace
      BY <2>1 DEF AccountInv, Settled
    <2>3. \A x \in Stamp : t.here /\ t.src - x > Grace => v.src - x > Grace \/ x < l.act
      BY SourceFacts
    <2> QED
      BY <1>1, <2>1, <2>2, <2>3
  <1> HIDE DEF L, S, E
  <1>9. Answered(E, l, c) => l.act > E \/ c.at > E
    BY DEF Answered
  <1>10. CASE Answered(E, l, c)
    <2>1. v.err = Never
      BY <1>3, <1>10 DEF LastError
    <2>2. Never \in Stamp /\ Never <= l.err
      BY <1>1, StampsAreInts
    <2>3. L = l.err => l.err < l.act \/ l.err < c.at
      BY <1>2, <1>6, <1>9, <1>10, StampsAreInts
    <2> QED
      BY <1>3, <1>8, <2>1, <2>2, <2>3
  <1>11. CASE ~Answered(E, l, c)
    <2>1. v.err = E
      BY <1>3, <1>11 DEF LastError
    <2>2. l.act <= E /\ (Successful(c.status) => c.at <= E)
      BY <1>2, <1>6, <1>11, StampsAreInts DEF Answered
    <2>3. L = l.err => E = l.err
      BY <1>2, <1>6, StampsAreInts
    <2> QED
      BY <1>3, <1>6, <1>8, <2>1, <2>2, <2>3
  <1> QED
    BY <1>10, <1>11

\* What is resolved at is a success or a new source after the error.
LEMMA ResolvedFacts ==
  ASSUME NEW v, v.act \in Stamp, v.err \in Stamp, v.probe.at \in Stamp, v.src \in Stamp,
         NEW r, r = ResolvedAt(v)
  PROVE  /\ r \in Stamp
         /\ \/ r = Never
            \/ r = v.act /\ v.act > v.err
            \/ r = v.probe.at /\ v.probe.at > v.err
            \/ r = v.src /\ v.src - v.err > Grace
  <1> DEFINE x == IfLater(v.act, v.err)
             y == IF Successful(v.probe.status) THEN IfLater(v.probe.at, v.err) ELSE Never
             z == IF v.src - v.err > Grace THEN v.src ELSE Never
             M == {x, y, z}
  <1>1. x = Never \/ (x = v.act /\ v.act > v.err)
    BY DEF IfLater
  <1>2. y = Never \/ (y = v.probe.at /\ v.probe.at > v.err)
    BY DEF IfLater
  <1>3. z = Never \/ (z = v.src /\ v.src - v.err > Grace)
    OBVIOUS
  <1>4. x \in Int /\ y \in Int /\ z \in Int /\ x \in Stamp /\ y \in Stamp /\ z \in Stamp
    BY <1>1, <1>2, <1>3, StampsAreInts
  <1>5. r = Max(M)
    BY DEF ResolvedAt
  <1> HIDE DEF x, y, z
  <1>6. \E m \in M : \A n \in M : m >= n
    BY <1>4
  <1>7. Max(M) \in M
    BY <1>6 DEF Max
  <1>8. r = x \/ r = y \/ r = z
    BY <1>5, <1>7
  <1> QED
    BY <1>1, <1>2, <1>3, <1>4, <1>8

\* SyncTargets keeps what is true of an account.
LEMMA SyncKeeps ==
  ASSUME NEW l \in LogRow, NEW t \in TargetRow, NEW c \in CheckRow, NEW s \in AlertRow,
         NEW h \in HistoryRow, AccountInv(l, t, c, s, h),
         NEW v, v = Snapshot(l, t, c, s), NEW t2, t2 = Synced(l, t, v)
  PROVE  /\ t2 \in TargetRow /\ AccountInv(l, t2, c, s, h)
         /\ l.on => InSync(l, t2) /\ t2.active /\ t2.src = v.src
  <1>0. /\ Grace \in Nat /\ Never \in Int /\ Now \in Nat /\ ErrorWindow \in Nat
        /\ ErrorWindow < Now /\ Never + Grace + 1 < 0
    BY Settings
  <1>1. /\ l.act \in Stamp /\ l.err \in Stamp /\ t.src \in Stamp /\ t.err \in Stamp
        /\ c.at \in Stamp /\ t.resolved \in Stamp /\ t.act \in Stamp
        /\ t.obsAct \in Stamp /\ t.obsErr \in Stamp
    BY DEF LogRow, TargetRow, CheckRow
  <1>2. CASE ~l.on
    <2>1. t2 = [t EXCEPT !.active = FALSE]
      BY <1>2 DEF Synced
    <2>2. /\ t2 \in TargetRow /\ ~t2.active /\ t2.here = t.here /\ t2.identity = t.identity
          /\ t2.src = t.src /\ t2.err = t.err /\ t2.resolved = t.resolved
          /\ t2.obsErr = t.obsErr
      BY <2>1 DEF TargetRow
    <2>3. InSync(l, t2) <=> InSync(l, t)
      BY <2>2 DEF InSync
    <2>4. Dated(l, t2, c, s, h)
      BY <2>2, <2>3 DEF Dated, AccountInv
    <2>5. Settled(l, t2, c)
      BY <2>2 DEF Settled, AccountInv
    <2>6. Counted(l, t2, s, h)
      BY <1>2, <2>2 DEF Counted, AccountInv
    <2>7. Backing(l, t2, c, h)
      BY <1>2 DEF Backing, AccountInv
    <2> QED
      BY <1>2, <2>2, <2>4, <2>5, <2>6, <2>7 DEF AccountInv
  <1>3. CASE l.on
    <2>0. /\ v.src \in Stamp
          /\ v.src <= l.upd \/ v.src <= l.act
          /\ h.changed <= v.src \/ h.changed - l.act <= Grace
          /\ v.src > c.at => c.at = Never \/ h.changed > c.at
          /\ v.src > s.at => s.at = Never \/ h.changed > s.at
          /\ \A x \in Stamp : t.here /\ t.src - x > Grace => v.src - x > Grace \/ x < l.act
      BY SourceFacts
    <2>1. /\ v.err \in Stamp /\ v.err <= l.err
          /\ Now - l.err <= ErrorWindow =>
               \/ v.err = l.err \/ l.err < l.act \/ l.err < c.at \/ v.src - l.err > Grace
          /\ v.act = l.act /\ v.probe = c
      BY ErrorFacts
    <2> DEFINE r == ResolvedAt(v)
    <2>2. /\ r \in Stamp
          /\ \/ r = Never
             \/ r = l.act /\ l.act > v.err
             \/ r = c.at /\ c.at > v.err
             \/ r = v.src /\ v.src - v.err > Grace
      BY <1>1, <2>0, <2>1, ResolvedFacts
    <2> HIDE DEF r
    <2>3. t2 = [here |-> TRUE, active |-> TRUE, act |-> Larger(t.act, v.act),
                err |-> ErrorOf(v, t), resolved |-> Larger(t.resolved, r),
                obsAct |-> t.obsAct, obsErr |-> t.obsErr, identity |-> l.identity, src |-> v.src]
      BY <1>3 DEF Synced, Upsert, r
    <2>4. ErrorOf(v, t) \in {v.err, t.err, Never}
      BY DEF ErrorOf
    <2>5. /\ t2.here = TRUE /\ t2.active = TRUE /\ t2.err = ErrorOf(v, t)
          /\ t2.resolved = Larger(t.resolved, r) /\ t2.obsErr = t.obsErr
          /\ t2.identity = l.identity /\ t2.src = v.src
      BY <2>3
    <2>6. InSync(l, t2)
      BY <2>5 DEF InSync
    <2>7. t2 \in TargetRow
      <3>1. ErrorOf(v, t) \in Stamp
        BY <1>1, <2>1, <2>4, StampsAreInts
      <3>2. Larger(t.resolved, r) \in Stamp /\ Larger(t.act, v.act) \in Stamp
        BY <1>1, <2>1, <2>2 DEF Larger
      <3>3. l.identity \in 1..2
        BY DEF LogRow
      <3> QED
        BY <1>1, <2>0, <2>3, <3>1, <3>2, <3>3 DEF TargetRow
    <2>8. t2.err <= l.err
      <3>1. t.err <= l.err /\ Never <= l.err
        BY <1>1, StampsAreInts DEF AccountInv, Dated
      <3> QED
        BY <2>1, <2>4, <2>5, <3>1
    <2>9. Dated(l, t2, c, s, h)
      BY <2>0, <2>5, <2>6, <2>8 DEF Dated, AccountInv
    <2>10. Settled(l, t2, c)
      <3> SUFFICES ASSUME Now - l.err <= ErrorWindow, l.err <= Larger(t.resolved, r)
                   PROVE  l.err < l.act \/ l.err < c.at \/ v.src - l.err > Grace
        BY <2>5 DEF Settled
      <3>1. /\ l.act \in Int /\ l.err \in Int /\ c.at \in Int /\ v.src \in Int /\ v.err \in Int
            /\ t.resolved \in Int /\ r \in Int /\ t.src \in Int
        BY <1>1, <2>0, <2>1, <2>2, StampsAreInts
      <3>2. l.err # Never /\ l.err > Never
        BY <1>0, <3>1
      <3>3. CASE l.err <= t.resolved
        <4>1. t.here
          BY <1>0, <3>1, <3>2, <3>3 DEF AccountInv, Dated
        <4>2. l.err < l.act \/ l.err < c.at \/ t.src - l.err > Grace
          BY <3>3, <4>1 DEF AccountInv, Settled
        <4> QED
          BY <1>1, <2>0, <4>1, <4>2
      <3>4. CASE l.err <= r /\ v.err = l.err
        BY <1>0, <2>2, <3>1, <3>2, <3>4
      <3>5. l.err <= t.resolved \/ l.err <= r
        BY <3>1 DEF Larger
      <3> QED
        BY <2>1, <3>3, <3>4, <3>5
    <2>11. Counted(l, t2, s, h)
      <3>1. h.counted <= t.obsErr
        <4>1. Never <= t.obsErr
          BY <1>1, StampsAreInts
        <4> QED
          BY <4>1 DEF AccountInv, Counted
      <3> QED
        BY <1>3, <2>5, <3>1 DEF AccountInv, Counted
    <2>12. Backing(l, t2, c, h)
      BY <1>3, <2>5, <2>6 DEF AccountInv, Backing
    <2> QED
      BY <2>5, <2>6, <2>7, <2>9, <2>10, <2>11, <2>12 DEF AccountInv
  <1> QED
    BY <1>2, <1>3

\* What a recovery of an account is told of (RecoveryIsReal).
LastOf(l, c) ==
  Larger(IF l.slow THEN Never ELSE l.act, IF c.status = "operational" THEN c.at ELSE Never)
Real(l, c, h) ==
  /\ Valid(LastOf(l, c), h.changed)
  /\ Now - l.err <= ErrorWindow => l.err < LastOf(l, c)

\* What the snapshot shows is so.
LEMMA EvidenceFacts ==
  ASSUME NEW l \in LogRow, NEW t \in TargetRow, NEW c \in CheckRow, NEW s \in AlertRow,
         NEW h \in HistoryRow, AccountInv(l, t, c, s, h),
         NEW v, v = Snapshot(l, t, c, s), NEW e, e = Evidence(v)
  PROVE  /\ e.source = "history" =>
              /\ e.at = l.act /\ e.status = (IF l.slow THEN "degraded" ELSE "operational")
              /\ e.status = "operational" => Real(l, c, h)
         /\ e.source = "request_error" =>
              /\ e.at = v.err /\ e.status = "failed" /\ v.err # Never
              /\ NewError(v) => v.err > h.counted
  <1>0. /\ Grace \in Nat /\ Never \in Int /\ Now \in Nat /\ ErrorWindow \in Nat
        /\ ErrorWindow < Now /\ Never + Grace + 1 < 0
    BY Settings
  <1>1. /\ l.act \in Stamp /\ l.err \in Stamp /\ c.at \in Stamp /\ h.changed \in Stamp
        /\ t.obsErr \in Stamp
    BY DEF LogRow, CheckRow, HistoryRow, TargetRow
  <1>2. /\ v.src \in Stamp
        /\ h.changed <= v.src \/ h.changed - l.act <= Grace
    BY SourceFacts
  <1>3. /\ v.err \in Stamp /\ v.err <= l.err
        /\ Now - l.err <= ErrorWindow =>
             \/ v.err = l.err \/ l.err < l.act \/ l.err < c.at \/ v.src - l.err > Grace
        /\ v.act = l.act /\ v.slow = l.slow /\ v.probe = c
    BY ErrorFacts
  <1>4. /\ l.act \in Int /\ l.err \in Int /\ c.at \in Int /\ h.changed \in Int
        /\ v.src \in Int /\ v.err \in Int
    BY <1>1, <1>2, <1>3, StampsAreInts
  <1> DEFINE e1 == OfRequest(v)
             e2 == WithProbe(e1, v)
  <1>5. e = WithError(e2, v)
    BY DEF Evidence
  <1>6. /\ Valid(l.act, v.src) => e1.source = "history" /\ e1.at = l.act
                                  /\ e1.status = IF l.slow THEN "degraded" ELSE "operational"
        /\ ~Valid(l.act, v.src) => e1.source = "none" /\ e1.at = Never
    BY <1>3 DEF OfRequest, NoEvidence
  <1> HIDE DEF e1
  <1>7. /\ Valid(c.at, v.src) /\ c.at > e1.at => e2.source = "probe"
        /\ ~(Valid(c.at, v.src) /\ c.at > e1.at) => e2 = e1
    BY <1>3 DEF WithProbe
  <1> HIDE DEF e2
  <1>8. /\ Valid(v.err, v.src) /\ v.err >= e2.at =>
             e.source = "request_error" /\ e.at = v.err /\ e.status = "failed"
        /\ ~(Valid(v.err, v.src) /\ v.err >= e2.at) => e = e2
    BY <1>5 DEF WithError
  <1>9. ASSUME e.source = "history"
        PROVE  /\ e.at = l.act /\ e.status = (IF l.slow THEN "degraded" ELSE "operational")
               /\ e.status = "operational" => Real(l, c, h)
    <2>1. /\ e = e2 /\ e2 = e1 /\ Valid(l.act, v.src) /\ e1.at = l.act
          /\ e1.status = IF l.slow THEN "degraded" ELSE "operational"
          /\ ~(Valid(v.err, v.src) /\ v.err >= l.act)
          /\ ~(Valid(c.at, v.src) /\ c.at > l.act)
      BY <1>6, <1>7, <1>8, <1>9
    <2>2. l.act # Never /\ v.src - l.act <= Grace
      BY <1>1, <1>2, <2>1, ValidIsNear
    <2>3. c.at <= l.act \/ c.at = Never \/ v.src - c.at > Grace
      <3>1. Valid(c.at, v.src) <=> c.at # Never /\ v.src - c.at <= Grace
        BY <1>1, <1>2, ValidIsNear
      <3> QED
        BY <1>0, <1>4, <2>1, <3>1
    <2>4. v.err < l.act \/ v.err = Never \/ v.src - v.err > Grace
      <3>1. Valid(v.err, v.src) <=> v.err # Never /\ v.src - v.err <= Grace
        BY <1>2, <1>3, ValidIsNear
      <3> QED
        BY <1>0, <1>4, <2>1, <3>1
    <2>5. ASSUME ~l.slow
          PROVE  Real(l, c, h)
      <3>1. LastOf(l, c) \in Stamp /\ LastOf(l, c) >= l.act
        BY <1>1, <1>4, <2>5, StampsAreInts DEF LastOf, Larger
      <3> DEFINE last == LastOf(l, c)
      <3> HIDE DEF last
      <3>2. last \in Int /\ last >= l.act
        BY <3>1, StampsAreInts DEF last
      <3>3. last # Never
        BY <1>0, <1>1, <1>4, <2>2, <3>2, StampsAreInts
      <3>4. h.changed - last <= Grace
        BY <1>0, <1>2, <1>4, <2>2, <3>2
      <3>5. Valid(last, h.changed)
        BY <1>1, <3>1, <3>3, <3>4, ValidIsNear DEF last
      <3>6. ASSUME Now - l.err <= ErrorWindow
            PROVE  l.err < last
        <4>1. l.err # Never /\ l.err > Never
          BY <1>0, <1>4, <3>6
        <4> QED
          BY <1>0, <1>3, <1>4, <2>2, <2>3, <2>4, <3>2, <3>6, <4>1
      <3> QED
        BY <3>5, <3>6 DEF Real, last
    <2> QED
      BY <2>1, <2>5
  <1>10. ASSUME e.source = "request_error"
         PROVE  /\ e.at = v.err /\ e.status = "failed" /\ v.err # Never
                /\ NewError(v) => v.err > h.counted
    <2>1. e1.source # "request_error" /\ e2.source # "request_error"
      BY <1>6, <1>7
    <2>2. Valid(v.err, v.src) /\ e.at = v.err /\ e.status = "failed"
      BY <1>8, <1>10, <2>1
    <2>3. v.err # Never /\ v.err > Never
      BY <1>2, <1>3, <1>4, <2>2, Settings, ValidIsNear, StampsAreInts
    <2>4. ASSUME NewError(v) PROVE v.err > h.counted
      <3>1. v.err > v.obsErr
        BY <2>4 DEF NewError
      <3>2. v.obsErr = IF Known(t) THEN t.obsErr ELSE Never
        BY DEF Snapshot
      <3>3. IF t.active THEN h.counted <= t.obsErr ELSE h.counted = Never
        BY DEF AccountInv, Counted
      <3>4. t.active => t.here
        BY DEF AccountInv, Dated
      <3>5. h.counted \in Int /\ t.obsErr \in Int
        BY <1>1, StampsAreInts DEF HistoryRow
      <3> QED
        BY <1>0, <1>4, <2>3, <3>1, <3>2, <3>3, <3>4, <3>5 DEF Known
    <2> QED
      BY <2>2, <2>3, <2>4
  <1> QED
    BY <1>9, <1>10

-----------------------------------------------------------------------------
(* Probes that are due.                                                     *)

\* The intervals of the retries grow with the streak.
LEMMA TiersGrow ==
  ASSUME NEW m \in Nat, NEW n \in Nat, m <= n
  PROVE  /\ Tier(m) \in Nat /\ Tier(n) \in Nat /\ Tiers[1] \in Nat /\ Tiers[Len(Tiers)] \in Nat
         /\ Tiers[1] <= Tier(m) /\ Tier(m) <= Tier(n) /\ Tier(n) <= Tiers[Len(Tiers)]
  <1> DEFINE N == Len(Tiers)
             i == Larger(1, Smaller(m, N))
             j == Larger(1, Smaller(n, N))
  <1>1. /\ N \in Nat /\ N > 0 /\ Now \in Nat /\ \A k \in 1..N : Tiers[k] \in 1..Now
        /\ \A k1, k2 \in 1..N : k1 < k2 => Tiers[k1] < Tiers[k2]
    BY HealthAssumption
  <1>2. \A k \in 1..N : Tiers[k] \in Nat
    BY <1>1
  <1> HIDE DEF N
  <1>3. i \in 1..N /\ j \in 1..N /\ i <= j /\ 1 \in 1..N /\ N \in 1..N
    BY <1>1 DEF Larger, Smaller
  <1> HIDE DEF i, j
  <1>4. \A k1, k2 \in 1..N : k1 <= k2 => Tiers[k1] <= Tiers[k2]
    <2> SUFFICES ASSUME NEW k1 \in 1..N, NEW k2 \in 1..N, k1 <= k2
                 PROVE  Tiers[k1] <= Tiers[k2]
      OBVIOUS
    <2>1. CASE k1 = k2
      BY <1>2, <2>1
    <2>2. CASE k1 < k2
      BY <1>1, <1>2, <2>2
    <2> QED
      BY <1>1, <2>1, <2>2
  <1>5. Tier(m) = Tiers[i] /\ Tier(n) = Tiers[j]
    BY DEF Tier, i, j, N
  <1>6. 1 <= i /\ j <= N
    BY <1>1, <1>3
  <1> QED
    BY <1>2, <1>3, <1>4, <1>5, <1>6 DEF N

\* What an account that is probed has (Open, ProbesBackOff).
OpenError(l, c, h) ==
  /\ l.err # Never /\ l.err >= l.act
  /\ Successful(c.status) => l.err > c.at
  /\ Valid(l.err, h.changed)
Rested(c, h) ==
  c.at # Never => Now - c.at >= Tiers[1] \/ h.changed > c.at
BackedOff(c, h) ==
  c.at # Never /\ h.bad > 0 => Now - c.at >= Tier(h.bad)

LEMMA ProbeIsEarned ==
  ASSUME NEW l \in LogRow, NEW t \in TargetRow, NEW c \in CheckRow, NEW s \in AlertRow,
         NEW h \in HistoryRow, AccountInv(l, t, c, s, h),
         NEW v, v = Snapshot(l, t, c, s), ToProbe(v)
  PROVE  /\ Evidence(v).source # "history"
         /\ OpenError(l, c, h) /\ Rested(c, h)
         /\ Streaks(c, s, h) => BackedOff(c, h)
  <1>0. /\ Grace \in Nat /\ Never \in Int /\ Now \in Nat /\ Interval \in Nat
        /\ Never + Grace + 1 < 0
    BY Settings
  <1>1. /\ l.act \in Stamp /\ l.err \in Stamp /\ c.at \in Stamp /\ h.changed \in Stamp
        /\ s.at \in Stamp /\ t.src \in Stamp
    BY DEF LogRow, CheckRow, HistoryRow, AlertRow, TargetRow
  <1>2. /\ v.src \in Stamp
        /\ h.changed <= v.src \/ h.changed - l.act <= Grace
        /\ v.src > c.at => c.at = Never \/ h.changed > c.at
    BY SourceFacts
  <1>3. /\ v.err \in Stamp /\ v.err <= l.err
        /\ v.err # Never => l.act <= v.err /\ (Successful(c.status) => c.at <= v.err)
        /\ v.act = l.act /\ v.probe = c
    BY ErrorFacts
  <1>4. /\ l.act \in Int /\ l.err \in Int /\ c.at \in Int /\ h.changed \in Int
        /\ v.src \in Int /\ v.err \in Int /\ s.at \in Int /\ t.src \in Int
    BY <1>1, <1>2, <1>3, StampsAreInts
  <1>5. ~Successful(Evidence(v).status) /\ Eligible(v) /\ Due(v)
    BY DEF ToProbe
  <1>6. Evidence(v).source # "history"
    <2> SUFFICES ASSUME Evidence(v).source = "history"
                 PROVE  FALSE
      OBVIOUS
    <2>1. Evidence(v).status \in {"degraded", "operational"}
      BY EvidenceFacts
    <2> QED
      BY <1>5, <2>1 DEF Successful
  <1>7. v.err # Never /\ v.src - v.err <= Grace /\ (v.err > c.at \/ Failing(c.status))
    BY <1>2, <1>3, <1>5, ValidIsNear DEF Eligible
  <1>8. OpenError(l, c, h)
    <2>1. l.err # Never /\ l.err >= l.act
      BY <1>0, <1>1, <1>3, <1>4, <1>7, StampsAreInts
    <2>2. Successful(c.status) => l.err > c.at
      BY <1>3, <1>4, <1>7 DEF Successful, Failing
    <2>3. h.changed - l.err <= Grace
      BY <1>0, <1>2, <1>3, <1>4, <1>7
    <2> QED
      BY <1>1, <2>1, <2>2, <2>3, ValidIsNear DEF OpenError
  <1>9. ASSUME c.at # Never
        PROVE  \/ ~Failing(c.status) /\ v.src - c.at > Grace
               \/ ~Failing(c.status) /\ Now - c.at >= Tiers[1]
               \/ Now - c.at >= Delay(v)
    BY <1>3, <1>5, <1>9 DEF Due, Immediate
  <1> DEFINE n == v.streak
  <1>10. n = Streak(s, SourceAt(Known(t), t, l.identity, Candidate(l)), l.act)
    BY DEF Snapshot
  <1>11. n \in Nat
    <2>1. s.failures \in Nat
      BY HealthAssumption DEF AlertRow, MostFailures, Larger
    <2> QED
      BY <1>10, <2>1 DEF Streak
  <1>12. Delay(v) \in Int /\ Delay(v) >= Tier(n) /\ Delay(v) >= Tiers[1]
    <2>1. /\ Tier(n) \in Nat /\ Tiers[1] \in Nat /\ Tiers[Len(Tiers)] \in Nat
          /\ Tiers[1] <= Tier(n) /\ Tier(n) <= Tiers[Len(Tiers)]
      BY <1>11, TiersGrow
    <2>2. IdleFloor \in Nat
      BY HealthAssumption
    <2> DEFINE x == IF v.probe.status = "config" THEN Tiers[Len(Tiers)] ELSE Tier(n)
    <2>3. x \in Nat /\ x >= Tier(n)
      BY <2>1
    <2>4. Retry(v) = Larger(Interval, x)
      BY DEF Retry
    <2> HIDE DEF x, n
    <2>5. Retry(v) \in Nat /\ Retry(v) >= x
      BY <1>0, <2>3, <2>4 DEF Larger
    <2>6. Delay(v) \in Nat /\ Delay(v) >= Retry(v)
      BY <2>2, <2>5 DEF Delay, Larger
    <2> QED
      BY <2>1, <2>3, <2>5, <2>6
  <1>13. Rested(c, h)
    <2> SUFFICES ASSUME c.at # Never
                 PROVE  Now - c.at >= Tiers[1] \/ h.changed > c.at
      BY DEF Rested
    <2>1. Tiers[1] \in Nat
      BY <1>11, TiersGrow
    <2>2. v.src - c.at > Grace => h.changed > c.at
      BY <1>0, <1>2, <1>4
    <2> QED
      BY <1>0, <1>4, <1>9, <1>12, <2>1, <2>2
  <1>14. ASSUME Streaks(c, s, h), c.at # Never, h.bad > 0
         PROVE  Now - c.at >= Tier(h.bad)
    <2>1. s.at >= c.at /\ s.failures >= h.bad
      BY <1>14 DEF Streaks
    <2>2. /\ InSync(l, t) /\ t.active /\ Failing(c.status) /\ c.at >= h.changed
      BY <1>14 DEF AccountInv, Backing
    <2>3. SourceAt(Known(t), t, l.identity, Candidate(l)) = t.src
      BY <2>2 DEF SourceAt, Known, InSync
    <2>4. t.src > s.at => s.at = Never \/ h.changed > s.at
      BY <2>2 DEF AccountInv, Dated
    <2>5. s.at # Never /\ t.src <= s.at
      BY <1>0, <1>1, <1>4, <1>14, <2>1, <2>2, <2>4, StampsAreInts
    <2>6. Current(s, t.src, l.act)
      BY <1>4, <2>5 DEF Current
    <2>7. n = s.failures
      BY <1>10, <2>3, <2>6 DEF Streak
    <2>8. h.bad \in Nat
      BY HealthAssumption DEF HistoryRow
    <2> HIDE DEF n
    <2>9. Tier(h.bad) <= Tier(n) /\ Tier(h.bad) \in Nat /\ Tier(n) \in Nat
      BY <1>11, <2>1, <2>7, <2>8, TiersGrow
    <2>10. Now - c.at >= Delay(v)
      BY <1>9, <1>14, <2>2
    <2> QED
      BY <1>0, <1>4, <1>12, <2>9, <2>10
  <1> QED
    BY <1>6, <1>8, <1>13, <1>14 DEF BackedOff

-----------------------------------------------------------------------------
(* Sequences and finite sets.                                               *)

\* SetToSeq lists a finite set.
LEMMA SetToSeqLists ==
  ASSUME NEW S, IsFiniteSet(S)
  PROVE  SetToSeq(S) \in Seq(S) /\ ToSet(SetToSeq(S)) = S
<1> DEFINE n == Cardinality(S)
<1>1. n \in Nat /\ ExistsBijection(1..n, S)
  BY FS_CardinalityType
<1>2. \E f \in [1..n -> S] : IsInjective(f)
  BY <1>1 DEF ExistsBijection, Bijection, Injection, IsInjective
<1>3. SetToSeq(S) \in [1..n -> S] /\ IsInjective(SetToSeq(S))
  BY <1>2 DEF SetToSeq
<1>4. SetToSeq(S) \in Injection(1..n, S)
  BY <1>3 DEF Injection, IsInjective
<1>5. Cardinality(1..n) = n
  BY <1>1, FS_Interval
<1>6. SetToSeq(S) \in Surjection(1..n, S)
  BY <1>4, <1>5, FS_Injection
<1>7. DOMAIN SetToSeq(S) = 1..n /\ \A x \in S : \E i \in 1..n : SetToSeq(S)[i] = x
  BY <1>3, <1>6 DEF Surjection
<1> QED
  BY <1>1, <1>3, <1>7 DEF ToSet

\* What two sequences hold together.
LEMMA ConcatHolds ==
  ASSUME NEW A, NEW B, NEW s \in Seq(A), NEW t \in Seq(B)
  PROVE  ToSet(s \o t) = ToSet(s) \cup ToSet(t)
<1>1. Len(s) \in Nat /\ Len(t) \in Nat /\ DOMAIN s = 1..Len(s) /\ DOMAIN t = 1..Len(t)
  OBVIOUS
<1>2. s \in Seq(A \cup B) /\ t \in Seq(A \cup B)
  OBVIOUS
<1>3. /\ Len(s \o t) = Len(s) + Len(t) /\ DOMAIN (s \o t) = 1..(Len(s) + Len(t))
      /\ \A i \in 1..(Len(s) + Len(t)) :
           (s \o t)[i] = IF i <= Len(s) THEN s[i] ELSE t[i - Len(s)]
  BY <1>1, <1>2
<1>4. ASSUME NEW i \in 1..Len(s) PROVE s[i] \in ToSet(s \o t)
  <2>1. i \in 1..(Len(s) + Len(t)) /\ (s \o t)[i] = s[i]
    BY <1>1, <1>3
  <2> QED BY <2>1, <1>3 DEF ToSet
<1>5. ASSUME NEW i \in 1..Len(t) PROVE t[i] \in ToSet(s \o t)
  <2>1. /\ i + Len(s) \in 1..(Len(s) + Len(t)) /\ ~(i + Len(s) <= Len(s))
        /\ (i + Len(s)) - Len(s) = i
    BY <1>1
  <2>2. (s \o t)[i + Len(s)] = t[i]
    BY <2>1, <1>3
  <2> QED BY <2>1, <2>2, <1>3 DEF ToSet
<1>6. ASSUME NEW i \in 1..(Len(s) + Len(t)) PROVE (s \o t)[i] \in ToSet(s) \cup ToSet(t)
  <2>1. CASE i <= Len(s)
    BY <2>1, <1>1, <1>3 DEF ToSet
  <2>2. CASE ~(i <= Len(s))
    <3>1. i - Len(s) \in 1..Len(t)
      BY <2>2, <1>1
    <3> QED BY <2>2, <3>1, <1>1, <1>3 DEF ToSet
  <2> QED BY <2>1, <2>2
<1> QED
  BY <1>1, <1>3, <1>4, <1>5, <1>6 DEF ToSet

-----------------------------------------------------------------------------
(* The type of the pool.                                                    *)

\* How many workers a pool has.
LEMMA WorkerCountBound ==
  ASSUME NEW S, IsFiniteSet(S)
  PROVE  /\ WorkerCount(S) \in Nat /\ WorkerCount(S) <= Concurrency
         /\ S # {} => WorkerCount(S) >= 1
<1>1. Cardinality(S) \in Nat /\ (Cardinality(S) = 0 <=> S = {})
  BY FS_CardinalityType, FS_EmptySet
<1> QED
  BY <1>1, PoolAssumption DEF WorkerCount

\* The feeder takes its next account from those it has.
LEMMA FirstIsOne ==
  ASSUME NEW S, S \subseteq Accounts, S # {}
  PROVE  First(S) \in S
<1>1. S \subseteq Nat
  BY PoolAssumption
<1> DEFINE Less == {p \in Nat \X Nat : p[1] < p[2]}
<1>2. IsWellFoundedOn(Less, Nat)
  BY NatLessThanWellFounded DEF OpToRel
<1> HIDE DEF Less
<1>3. PICK a \in S : \A b \in S : ~(<<b, a>> \in Less)
  BY <1>1, <1>2, WFMin
<1>4. \A b \in S : a <= b
  <2> SUFFICES ASSUME NEW b \in S PROVE a <= b
    OBVIOUS
  <2>1. a \in Nat /\ b \in Nat
    BY <1>1
  <2>2. ~(b < a)
    BY <1>3, <2>1 DEF Less
  <2> QED BY <2>1, <2>2
<1> QED
  BY <1>4 DEF First

\* What the environments allow of probes and accounts.
LEMMA EnvironmentBounds ==
  ASSUME env \in DOMAIN Environments
  PROVE  Environments[env].probes \subseteq ProbeStatus /\ Present \subseteq Accounts
  BY CycleAssumption DEF Environment, Present

\* PoolTypeOK, with what a worker holds in each of its states.
PoolShape ==
  /\ PoolTypeOK
  /\ IsFiniteSet(results) /\ IsFiniteSet(answers)
  /\ \A w \in Workers :
       /\ worker[w].at \in {"probing", "sending"} => worker[w].job \in Accounts
       /\ worker[w].at = "sending" => worker[w].found \in ProbeStatus

\* A step of the pool keeps its shape.
LEMMA PoolStepKeepsShape ==
  ASSUME NEW n, NEW S, S \subseteq ProbeStatus,
         PoolShape, PoolStep(n, S), canceled' = canceled
  PROVE  PoolShape'
<1> USE DEF PoolShape, PoolTypeOK
<1>1. ASSUME NEW w \in Workers, Give(w)
      PROVE  PoolShape'
  <2>1. First(queue) \in queue
    BY <1>1, FirstIsOne DEF Give
  <2> QED BY <1>1, <2>1 DEF Give, Rest
<1>2. ASSUME NEW w \in Workers, Send(w, n)
      PROVE  PoolShape'
  <2>1. IsFiniteSet(results')
    BY <1>2, FS_AddElement DEF Send
  <2> QED BY <1>2, <2>1 DEF Send, Ready, Result
<1>3. ASSUME NEW w \in Workers, Return(w)
      PROVE  PoolShape'
  BY <1>3 DEF Return, Gone
<1>4. ASSUME NEW w \in Workers, NEW found \in S, Probe(w, found)
      PROVE  PoolShape'
  BY <1>4 DEF Probe
<1>5. CASE CloseJobs
  BY <1>5 DEF CloseJobs
<1>6. CASE Collect
  <2>1. PICK r \in results : /\ results' = results \ {r} /\ answers' = answers \cup {r}
                             /\ UNCHANGED <<queue, jobs, worker>>
    BY <1>6 DEF Collect
  <2>2. IsFiniteSet(results') /\ IsFiniteSet(answers')
    BY <2>1, FS_RemoveElement, FS_AddElement
  <2> QED BY <2>1, <2>2
<1> QED
  BY <1>1, <1>2, <1>3, <1>4, <1>5, <1>6 DEF PoolStep

-----------------------------------------------------------------------------
(* Where the accounts of a pool are.                                        *)

Held == {worker[w].job : w \in {v \in Workers : worker[v].at \in {"probing", "sending"}}}
JobsOf(R) == {r.job : r \in R}

\* Unless the context is cancelled, every account waits, is held by a worker, or
\* is in a result; workers return only when the feeder has given all away.
Accounted ==
  ~canceled =>
    /\ due = queue \cup Held \cup JobsOf(results) \cup JobsOf(answers)
    /\ jobs = "closed" => queue = {}
    /\ jobs = "open" => \A w \in 1..WorkerCount(due) : worker[w].at # "gone"

LEMMA PoolStepKeepsAccounted ==
  ASSUME NEW n, NEW S, PoolShape, Accounted, PoolStep(n, S),
         canceled' = canceled, due' = due, IsFiniteSet(due)
  PROVE  Accounted'
<1> SUFFICES ASSUME ~canceled PROVE Accounted'
  BY DEF Accounted
<1> USE DEF PoolShape, PoolTypeOK
<1>0. /\ due = queue \cup Held \cup JobsOf(results) \cup JobsOf(answers)
      /\ jobs = "closed" => queue = {}
      /\ jobs = "open" => \A w \in 1..WorkerCount(due) : worker[w].at # "gone"
  BY DEF Accounted
<1>w. WorkerCount(due)' = WorkerCount(due) /\ 1..WorkerCount(due) \subseteq Workers
  BY WorkerCountBound, PoolAssumption DEF Workers, WorkerCount
<1>1. ASSUME NEW w \in Workers, Give(w) PROVE Accounted'
  <2>1. First(queue) \in queue
    BY <1>1, FirstIsOne DEF Give
  <2>2. Held' = Held \cup {First(queue)}
    BY <1>1 DEF Give, Held
  <2>3. /\ queue' = queue \ {First(queue)} /\ jobs' = "open" /\ results' = results
        /\ answers' = answers
    BY <1>1 DEF Give, Rest
  <2>4. \A v \in 1..WorkerCount(due) : worker'[v].at # "gone"
    BY <1>0, <1>1, <1>w DEF Give
  <2> QED BY <1>0, <1>w, <2>1, <2>2, <2>3, <2>4 DEF Accounted, JobsOf
<1>2. ASSUME NEW w \in Workers, Send(w, n) PROVE Accounted'
  <2>0. results' = results \cup {[job |-> worker[w].job, found |-> worker[w].found]}
    BY <1>2 DEF Send
  <2>1. JobsOf(results') = JobsOf(results) \cup {worker[w].job}
    <3> DEFINE new == [job |-> worker[w].job, found |-> worker[w].found]
    <3>1. new.job = worker[w].job
      OBVIOUS
    <3> HIDE DEF new
    <3>2. results' = results \cup {new}
      BY <2>0 DEF new
    <3> QED BY <3>1, <3>2 DEF JobsOf
  <2>2. Held \subseteq Held' \cup {worker[w].job} /\ Held' \subseteq Held
    BY <1>2 DEF Send, Held, Ready
  <2>3. worker[w].job \in Held
    BY <1>2 DEF Send, Held
  <2>4. \A v \in 1..WorkerCount(due) : worker[v].at # "gone" => worker'[v].at # "gone"
    BY <1>2, <1>w DEF Send, Ready
  <2>5. queue' = queue /\ jobs' = jobs /\ answers' = answers
    BY <1>2 DEF Send
  <2>6. due = queue \cup Held' \cup JobsOf(results') \cup JobsOf(answers)
    BY <1>0, <2>1, <2>2, <2>3
  <2> QED BY <1>0, <1>w, <2>4, <2>5, <2>6 DEF Accounted, JobsOf, Held
<1>3. ASSUME NEW w \in Workers, Return(w) PROVE Accounted'
  <2>1. /\ worker[w].at = "ready" /\ jobs = "closed"
        /\ worker' = [worker EXCEPT ![w] = Gone]
        /\ UNCHANGED <<queue, jobs, results, answers>>
    BY <1>3 DEF Return
  <2>2. Held' = Held
    BY <2>1 DEF Held, Gone
  <2> QED BY <1>0, <2>1, <2>2 DEF Accounted, JobsOf
<1>4. ASSUME NEW w \in Workers, NEW found \in S, Probe(w, found) PROVE Accounted'
  <2>1. Held' = Held
    BY <1>4 DEF Probe, Held
  <2>2. \A v \in 1..WorkerCount(due) : worker[v].at # "gone" => worker'[v].at # "gone"
    BY <1>4, <1>w DEF Probe
  <2>3. UNCHANGED <<queue, jobs, results, answers>>
    BY <1>4 DEF Probe
  <2> QED BY <1>0, <1>w, <2>1, <2>2, <2>3 DEF Accounted, JobsOf
<1>5. CASE CloseJobs
  BY <1>0, <1>5 DEF CloseJobs, Accounted, Held, JobsOf
<1>6. CASE Collect
  <2>1. PICK r \in results : /\ results' = results \ {r} /\ answers' = answers \cup {r}
                             /\ UNCHANGED <<queue, jobs, worker>>
    BY <1>6 DEF Collect
  <2>2. JobsOf(results') \cup JobsOf(answers') = JobsOf(results) \cup JobsOf(answers)
    BY <2>1 DEF JobsOf
  <2>3. Held' = Held
    BY <2>1 DEF Held
  <2> QED BY <1>0, <1>w, <2>1, <2>2, <2>3 DEF Accounted, JobsOf
<1> QED
  BY <1>1, <1>2, <1>3, <1>4, <1>5, <1>6 DEF PoolStep

\* A pool that starts holds its accounts.
LEMMA StartIsAccounted ==
  ASSUME NEW S, S \subseteq Accounts, IsFiniteSet(S), StartPool(S), due' = S
  PROVE  Accounted'
<1>1. /\ queue' = S /\ jobs' = "open" /\ results' = {} /\ answers' = {}
      /\ worker' = [w \in Workers |-> IF w <= WorkerCount(S) THEN Ready ELSE Gone]
  BY DEF StartPool
<1>2. 1..WorkerCount(S) \subseteq Workers
  BY WorkerCountBound, PoolAssumption DEF Workers
<1>3. \A w \in 1..WorkerCount(S) : worker'[w].at # "gone"
  BY <1>1, <1>2 DEF Ready
<1>4. Held' = {}
  BY <1>1 DEF Held, Ready, Gone
<1>5. WorkerCount(due)' = WorkerCount(S)
  BY DEF WorkerCount
<1> QED
  BY <1>1, <1>3, <1>4, <1>5 DEF Accounted, JobsOf

\* When all workers have returned, every account has a collected result.
LEMMA DrainedHasAll ==
  ASSUME PoolShape, Accounted, Drained, ~canceled, IsFiniteSet(due)
  PROVE  JobsOf(answers) = due
<1>1. /\ due = queue \cup Held \cup JobsOf(results) \cup JobsOf(answers)
      /\ jobs = "closed" => queue = {}
      /\ jobs = "open" => \A w \in 1..WorkerCount(due) : worker[w].at # "gone"
  BY DEF Accounted
<1>2. Held = {} /\ JobsOf(results) = {}
  BY DEF Drained, Started, Held, JobsOf
<1>3. CASE due = {}
  BY <1>1, <1>3
<1>4. CASE due # {}
  <2>1. 1 \in 1..WorkerCount(due) /\ 1 \in Workers
    BY <1>4, WorkerCountBound, PoolAssumption DEF Workers
  <2>2. worker[1].at = "gone"
    BY <2>1 DEF Drained, Started
  <2>3. queue = {}
    BY <1>1, <2>1, <2>2 DEF PoolShape, PoolTypeOK
  <2> QED BY <1>1, <1>2, <2>3
<1> QED BY <1>3, <1>4

-----------------------------------------------------------------------------
(* The cycle.                                                               *)

\* The inductive invariant.  While probes are under way no observation is one of
\* a probe, and every account is accounted for.
CycleInv ==
  /\ env \in DOMAIN Environments
  /\ PoolShape
  /\ due \subseteq Present
  /\ phase = "probing" =>
       /\ Accounted
       /\ obs \in Seq(ToSet(obs))
       /\ \A o \in ToSet(obs) : o.source # "probe"
  /\ EveryProbeCounts

LEMMA DueIsFinite ==
  ASSUME env \in DOMAIN Environments, NEW S, S \subseteq Present
  PROVE  S \subseteq Accounts /\ IsFiniteSet(S)
  BY EnvironmentBounds, PoolAssumption, FS_Subset

\* An observation of a snapshot is of a request or an error.
LEMMA ObservedIsNoProbe ==
  ASSUME NEW views, NEW o \in ObservedIn(views)
  PROVE  o.source # "probe"
<1>1. PICK a : /\ ToObserve(views[a])
               /\ o = Observation(a, Evidence(views[a]))
  BY DEF ObservedIn
<1>2. Evidence(views[a]).source \in {"history", "request_error"}
  BY <1>1 DEF ToObserve, NewRequest, NewError
<1> QED
  BY <1>1, <1>2 DEF Observation

LEMMA ObservedIsFinite ==
  ASSUME NEW views, IsFiniteSet(DOMAIN views)
  PROVE  IsFiniteSet(ObservedIn(views))
<1> DEFINE A == {b \in DOMAIN views : log[b].on /\ ToObserve(views[b])}
           f == [a \in A |-> Observation(a, Evidence(views[a]))]
<1>1. IsFiniteSet(A)
  BY FS_Subset
<1>2. ObservedIn(views) = {f[a] : a \in A}
  BY DEF ObservedIn
<1>3. f \in Surjection(A, {f[a] : a \in A})
  BY DEF Surjection
<1> QED
  BY <1>1, <1>2, <1>3, FS_Surjection

LEMMA ResultsAreFinite ==
  ASSUME IsFiniteSet(answers)
  PROVE  IsFiniteSet({ProbeResult(r) : r \in answers})
<1> DEFINE f == [r \in answers |-> ProbeResult(r)]
<1>1. {ProbeResult(r) : r \in answers} = {f[r] : r \in answers}
  OBVIOUS
<1>2. f \in Surjection(answers, {f[r] : r \in answers})
  BY DEF Surjection
<1> QED
  BY <1>1, <1>2, FS_Surjection

LEMMA InitCycle == Init => CycleInv
<1> SUFFICES ASSUME Init PROVE CycleInv
  OBVIOUS
<1>1. IsFiniteSet({})
  BY FS_EmptySet
<1>2. PoolShape
  BY <1>1 DEF Init, PoolInit, PoolShape, PoolTypeOK, Gone, NoJob
<1> QED
  BY <1>2 DEF Init, CycleInv, EveryProbeCounts

\* A pool without work has its shape.
LEMMA NoPoolShape ==
  ASSUME PoolShape, NoPool, canceled' \in BOOLEAN
  PROVE  PoolShape'
<1>1. IsFiniteSet({})
  BY FS_EmptySet
<1> QED
  BY <1>1 DEF NoPool, PoolShape, PoolTypeOK, Gone, NoJob

LEMMA LoadKeeps ==
  ASSUME CycleInv, Load
  PROVE  CycleInv'
<1> DEFINE views == [a \in Present |-> View(a)]
           D == Probed(views)
<1>1. /\ due' = D /\ obs' = SetToSeq(ObservedIn(views)) /\ StartPool(D)
      /\ phase' = "probing" /\ UNCHANGED <<env, canceled>>
  BY DEF Load, LoadFrom
<1>2. D \subseteq Present
  BY DEF Probed
<1>3. D \subseteq Accounts /\ IsFiniteSet(D) /\ IsFiniteSet(DOMAIN views)
  BY <1>2, DueIsFinite DEF CycleInv
<1> HIDE DEF D
<1>4. Accounted'
  BY <1>1, <1>3, StartIsAccounted
<1>5. PoolShape'
  <2>1. IsFiniteSet({})
    BY FS_EmptySet
  <2> QED
    BY <1>1, <1>3, <2>1 DEF StartPool, PoolShape, PoolTypeOK, Ready, Gone, NoJob, CycleInv
<1> HIDE DEF views
<1>6. obs' \in Seq(ObservedIn(views)) /\ ToSet(obs') = ObservedIn(views)
  BY <1>1, <1>3, ObservedIsFinite, SetToSeqLists
<1>7. \A o \in ToSet(obs') : o.source # "probe"
  BY <1>6, ObservedIsNoProbe
<1>8. Present' = Present
  BY <1>1 DEF Present
<1> QED
  BY <1>1, <1>2, <1>4, <1>5, <1>6, <1>7, <1>8 DEF CycleInv, EveryProbeCounts

LEMMA PoolKeeps ==
  ASSUME CycleInv, PoolRuns
  PROVE  CycleInv'
<1>1. /\ phase = "probing" /\ phase' = "probing" /\ UNCHANGED <<env, due, obs, canceled>>
      /\ PoolStep(WorkerCount(due), Environments[env].probes)
  BY DEF PoolRuns
<1>2. IsFiniteSet(due) /\ Environments[env].probes \subseteq ProbeStatus
  BY DueIsFinite, EnvironmentBounds DEF CycleInv
<1>3. PoolShape'
  BY <1>1, <1>2, PoolStepKeepsShape DEF CycleInv
<1>4. Accounted'
  BY <1>1, <1>2, PoolStepKeepsAccounted DEF CycleInv
<1> QED
  BY <1>1, <1>3, <1>4 DEF CycleInv, EveryProbeCounts, Present

LEMMA CollectedKeeps ==
  ASSUME CycleInv, ProbesEnd
  PROVE  CycleInv'
<1> DEFINE R == {ProbeResult(r) : r \in answers}
<1>1. PoolShape' /\ Present' = Present /\ env' = env
  BY NoPoolShape DEF ProbesEnd, CycleInv, Present, PoolShape, PoolTypeOK
<1>2. CASE canceled
  BY <1>1, <1>2 DEF ProbesEnd, CycleInv, EveryProbeCounts
<1>3. CASE ~canceled
  <2>1. obs' = obs \o SetToSeq(R) /\ phase' = "insert" /\ due' = due
    BY <1>3 DEF ProbesEnd
  <2>2. IsFiniteSet(due) /\ JobsOf(answers) = due
    BY <1>3, DueIsFinite, DrainedHasAll DEF ProbesEnd, CycleInv
  <2>3. SetToSeq(R) \in Seq(R) /\ ToSet(SetToSeq(R)) = R
    BY ResultsAreFinite, SetToSeqLists DEF CycleInv, PoolShape
  <2>4. obs \in Seq(ToSet(obs)) /\ \A o \in ToSet(obs) : o.source # "probe"
    BY DEF CycleInv, ProbesEnd
  <2>5. \A o \in R : o.source = "probe"
    BY DEF ProbeResult
  <2>6. \A r \in answers : ProbeResult(r).job = r.job
    BY DEF ProbeResult
  <2>7. {o.job : o \in R} = JobsOf(answers)
    BY <2>6 DEF JobsOf
  <2> HIDE DEF R
  <2>8. ToSet(obs') = ToSet(obs) \cup R
    <3>1. ToSet(obs \o SetToSeq(R)) = ToSet(obs) \cup ToSet(SetToSeq(R))
      BY <2>3, <2>4, ConcatHolds
    <3> QED BY <2>1, <2>3, <3>1
  <2>9. {x \in ToSet(obs') : x.source = "probe"} = R
    BY <2>4, <2>5, <2>8
  <2>10. EveryProbeCounts'
    BY <2>1, <2>2, <2>7, <2>9 DEF EveryProbeCounts
  <2> QED
    BY <1>1, <2>1, <2>10 DEF CycleInv
<1> QED BY <1>2, <1>3

LEMMA NextKeepsCycle == CycleInv /\ [Next]_vars => CycleInv'
<1> SUFFICES ASSUME CycleInv, [Next]_vars PROVE CycleInv'
  OBVIOUS
<1> USE DEF CycleInv, PoolShape, PoolTypeOK, EveryProbeCounts, Accounted, Held, Present, pool
<1>1. CASE Load
  BY <1>1, LoadKeeps
<1>2. CASE PoolRuns
  BY <1>2, PoolKeeps
<1>3. CASE ProbesEnd
  BY <1>3, CollectedKeeps
<1>4. CASE Insert
  BY <1>4 DEF Insert
<1>5. CASE Evaluate
  BY <1>5 DEF Evaluate
<1>6. CASE CycleEnds
  BY <1>6 DEF CycleEnds
<1>7. CASE LoadFails
  BY <1>7 DEF LoadFails
<1>8. CASE InsertFails
  BY <1>8 DEF InsertFails
<1>9. CASE EvaluateFails
  BY <1>9 DEF EvaluateFails
<1>10. CASE Stop
  BY <1>10 DEF Stop
<1>11. CASE Crash
  BY <1>11, NoPoolShape DEF Crash
<1>12. CASE Restart
  BY <1>12, NoPoolShape DEF Restart
<1>13. CASE Tick
  BY <1>13 DEF Tick
<1>14. CASE UNCHANGED vars
  BY <1>14 DEF vars
<1> QED
  BY <1>1, <1>2, <1>3, <1>4, <1>5, <1>6, <1>7, <1>8, <1>9, <1>10, <1>11, <1>12, <1>13, <1>14
  DEF Next

\* A cycle that stores results has one of every account it set out to probe, for
\* any number of accounts and workers, any interleaving and cancellation.
THEOREM NoProbeIsLost == Spec => []EveryProbeCounts
<1>1. Init => CycleInv
  BY InitCycle
<1>2. CycleInv /\ [Next]_vars => CycleInv'
  BY NextKeepsCycle
<1>3. CycleInv => EveryProbeCounts
  BY DEF CycleInv
<1> QED
  BY <1>1, <1>2, <1>3, PTL DEF Spec

-----------------------------------------------------------------------------
(* What was told.                                                           *)

\* The alert state remembers the last alert, or nothing after a reset.
ToldInv ==
  /\ alert = [a \in Accounts |-> alert[a]] /\ hist = [a \in Accounts |-> hist[a]]
  /\ \A a \in Accounts :
       /\ "alerted" \in DOMAIN alert[a] /\ "told" \in DOMAIN hist[a]
       /\ alert[a].alerted \in {"none", hist[a].told}

LEMMA InitTold == Init => ToldInv
  BY DEF Init, ToldInv, NoAlert, NoHistory

\* One observation: what is told is what the state remembers.
LEMMA ObservationIsRemembered ==
  ASSUME ToldInv, NEW o, EvaluateFirst(o)
  PROVE  ToldInv'
<1>1. CASE o.job \in Accounts
  <2> DEFINE a == o.job
             s == Basis(a)
  <2>1. /\ alert' = [alert EXCEPT ![a] = Observe(s, o.status)]
        /\ hist' = [hist EXCEPT ![a] = Recount(hist[a], o)]
    BY DEF EvaluateFirst
  <2>2. /\ "alerted" \in DOMAIN Observe(s, o.status)
        /\ Observe(s, o.status).alerted = Alerted(s, o.status)
    BY DEF Observe
  <2>3. /\ "told" \in DOMAIN Recount(hist[a], o)
        /\ Recount(hist[a], o).told = IF Tells(o) = "none" THEN hist[a].told ELSE Tells(o)
    BY <1>1 DEF Recount, ToldInv
  <2>4. s.alerted \in {"none", hist[a].told}
    BY <1>1 DEF Basis, ToldInv, NoAlert
  <2>5. Alerted(s, o.status) \in {"none", Recount(hist[a], o).told}
    BY <2>3, <2>4 DEF Alerted, Tells
  <2>6. /\ alert' = [b \in Accounts |-> IF b = a THEN Observe(s, o.status) ELSE alert[b]]
        /\ hist' = [b \in Accounts |-> IF b = a THEN Recount(hist[a], o) ELSE hist[b]]
    BY <1>1, <2>1 DEF ToldInv
  <2> HIDE DEF a, s
  <2> QED
    BY <2>2, <2>3, <2>5, <2>6 DEF ToldInv
<1>2. CASE o.job \notin Accounts
  <2>1. alert' = alert /\ hist' = hist
    BY <1>2 DEF EvaluateFirst, ToldInv
  <2> QED
    BY <2>1 DEF ToldInv
<1> QED
  BY <1>1, <1>2

\* An interval forgets neither what was alerted nor what was told.
LEMMA PassKeepsTold ==
  ASSUME ToldInv, NEW kinds, NEW ages, Pass(kinds, ages)
  PROVE  ToldInv'
<1>1. alert' = [a \in Accounts |-> [alert[a] EXCEPT !.at = ages[a][@]]]
  BY DEF Pass
<1>2. hist' = [a \in Accounts |-> HistoryAfter(hist[a], ages[a], kinds[a])]
  BY DEF Pass
<1>3. ASSUME NEW a \in Accounts
      PROVE  /\ "alerted" \in DOMAIN alert'[a] /\ alert'[a].alerted = alert[a].alerted
             /\ "told" \in DOMAIN hist'[a] /\ hist'[a].told = hist[a].told
  BY <1>1, <1>2 DEF ToldInv, HistoryAfter
<1> QED
  BY <1>1, <1>2, <1>3 DEF ToldInv

LEMMA NextKeepsTold == ToldInv /\ [Next]_vars => ToldInv'
<1> SUFFICES ASSUME ToldInv, [Next]_vars
             PROVE  ToldInv'
  OBVIOUS
<1>1. CASE UNCHANGED <<alert, hist>>
  BY <1>1 DEF ToldInv
<1>2. CASE Insert
  <2>1. hist' = [a \in Accounts |-> [hist[a] EXCEPT !.bad = FailingProbes(a)]] /\ alert' = alert
    BY <1>2 DEF Insert
  <2>2. ASSUME NEW a \in Accounts
        PROVE  "told" \in DOMAIN hist'[a] /\ hist'[a].told = hist[a].told
    BY <2>1 DEF ToldInv
  <2> QED
    BY <2>1, <2>2 DEF ToldInv
<1>3. CASE Evaluate
  BY <1>3, ObservationIsRemembered DEF Evaluate
<1>4. CASE Tick
  BY <1>4, PassKeepsTold DEF Tick
<1> QED
  BY <1>1, <1>2, <1>3, <1>4
     DEF Next, vars, Load, PoolRuns, ProbesEnd, CycleEnds, LoadFails, InsertFails,
         EvaluateFails, Stop, Crash, Restart

\* A recovery is told only after a failure was: the state of an account says
\* "failed" only while that is the last thing its watchers were told, through
\* every change of configuration, restart and lost evaluation
\* (alertState.observe, Store.EvaluateAlert).
THEOREM RecoveriesFollow == Spec => []RecoveryFollowsFailure
<1>1. CycleInv /\ ToldInv => RecoveryFollowsFailure
  <2> SUFFICES ASSUME CycleInv, ToldInv, NEW a \in Present, Telling(a, "operational")
               PROVE  hist[a].told = "failed"
    BY DEF RecoveryFollowsFailure
  <2>1. a \in Accounts
    BY EnvironmentBounds DEF CycleInv
  <2> DEFINE s == Basis(a)
             status == Head(obs).status
  <2>2. Event(s, status) = "operational"
    BY DEF Telling, Tells
  <2>3. Event(s, status) = "operational" => Heals(s, status)
    <3> HIDE DEF s, status
    <3> SUFFICES ASSUME ~Heals(s, status)
                 PROVE  Event(s, status) # "operational"
      OBVIOUS
    <3>1. CASE Fails(s, status)
      BY <3>1 DEF Event
    <3>2. CASE ~Fails(s, status)
      BY <3>2 DEF Event
    <3> QED
      BY <3>1, <3>2
  <2>4. s.alerted = "failed"
    BY <2>2, <2>3 DEF Heals
  <2> QED
    BY <2>1, <2>4 DEF Basis, ToldInv, NoAlert
<1>2. Spec => []CycleInv
  BY InitCycle, NextKeepsCycle, PTL DEF Spec
<1>3. Spec => []ToldInv
  BY InitTold, NextKeepsTold, PTL DEF Spec
<1> QED
  BY <1>1, <1>2, <1>3, PTL

-----------------------------------------------------------------------------
(* One observation.                                                         *)

\* While the result of a probe is not evaluated, the alert is one failure behind.
Soon(s, h) == h.bad > 1 => s.at >= h.changed /\ s.failures + 1 >= h.bad

LEMMA EventFacts ==
  ASSUME NEW s, NEW status
  PROVE  /\ Event(s, status) \in {"failed", "operational", "none"}
         /\ Event(s, status) = "failed" <=> Fails(s, status)
         /\ Event(s, status) = "operational" => Heals(s, status)
  <1>0. ~(Fails(s, status) /\ Heals(s, status))
    BY DEF Fails, Heals, Failing
  <1>1. Fails(s, status) => Event(s, status) = "failed"
    BY <1>0 DEF Event
  <1>2. ~Fails(s, status) /\ Heals(s, status) => Event(s, status) = "operational"
    BY DEF Event
  <1>3. ~Fails(s, status) /\ ~Heals(s, status) => Event(s, status) = "none"
    BY DEF Event
  <1> QED
    BY <1>1, <1>2, <1>3

Seen == [job : Accounts, source : Sources, status : ProbeStatus, at : Stamp]

\* The rows of an account have their types, and what an alert remembers is true.
RowsOf(a) ==
  /\ log[a] \in LogRow /\ tgt[a] \in TargetRow /\ chk[a] \in CheckRow
  /\ alert[a] \in AlertRow /\ hist[a] \in HistoryRow
Account(a) == RowsOf(a) /\ AccountInv(log[a], tgt[a], chk[a], alert[a], hist[a])

\* The account is synchronised and may be observed.
Synchronised(a) == InSync(log[a], tgt[a]) /\ tgt[a].active /\ log[a].on

LEMMA BasisFacts ==
  ASSUME NEW a, Account(a), Synchronised(a)
  PROVE  /\ Basis(a) \in AlertRow /\ Basis(a) \in {alert[a], NoAlert}
         /\ Basis(a) # alert[a] =>
              /\ tgt[a].src > alert[a].at /\ (alert[a].at = Never \/ hist[a].changed > alert[a].at)
              /\ alert[a].at # Never /\ hist[a].stale
  <1> DEFINE s == alert[a]
             t == tgt[a]
             h == hist[a]
  <1>1. s \in AlertRow /\ t.src \in Int /\ s.at \in Int /\ h.changed \in Int
    BY StampsAreInts DEF Account, RowsOf, TargetRow, AlertRow, HistoryRow
  <1>2. Basis(a) = IF Current(s, t.src, t.act) THEN s ELSE NoAlert
    BY DEF Basis
  <1>3. NoAlert \in AlertRow
    BY HealthAssumption, StampsAreInts DEF NoAlert, AlertRow, MostFailures, Larger
  <1>4. /\ t.src > s.at => s.at = Never \/ h.changed > s.at
        /\ s.at = Never => s = NoAlert
        /\ h.changed > s.at => h.stale
    BY DEF Account, AccountInv, Dated, Remembered, Synchronised
  <1>5. ~Current(s, t.src, t.act) => t.src > s.at
    BY <1>1 DEF Current
  <1> QED
    BY <1>1, <1>2, <1>3, <1>4, <1>5

LEMMA ObservationKeeps ==
  ASSUME NEW o \in Seen, NEW a, a = o.job, Account(a), Synchronised(a),
         o.source = "history" => Successful(o.status),
         o.source = "request_error" =>
           o.status = "failed" /\ o.at > hist[a].counted /\ o.at <= tgt[a].obsErr,
         o.source = "probe" => chk[a].status = o.status,
         NEW s2, s2 = Observe(Basis(a), o.status), NEW h2, h2 = Recount(hist[a], o)
  PROVE  /\ s2 \in AlertRow /\ h2 \in HistoryRow
         /\ AccountInv(log[a], tgt[a], chk[a], s2, h2)
         /\ Streaks(chk[a], alert[a], hist[a]) => Streaks(chk[a], s2, h2)
         /\ Soon(alert[a], hist[a]) => Soon(s2, h2)
         /\ o.source = "probe" /\ Soon(alert[a], hist[a]) => Streaks(chk[a], s2, h2)
         /\ h2.changed = hist[a].changed
         /\ h2.counted = IF o.source = "request_error" THEN Larger(hist[a].counted, o.at)
                         ELSE hist[a].counted
         /\ Tells(o) = "failed" =>
              /\ hist[a].told # "failed" \/ hist[a].stale
              /\ h2.fails >= FailureThreshold
  <1> DEFINE s == alert[a]
             t == tgt[a]
             h == hist[a]
             c == chk[a]
             l == log[a]
             b == Basis(a)
             status == o.status
  <1>0. /\ FailureThreshold \in Nat /\ FailureThreshold > 0 /\ Len(Tiers) \in Nat
        /\ RecoveryThreshold \in Nat /\ MostFailures \in Nat
        /\ MostFailures >= FailureThreshold /\ MostFailures >= Len(Tiers)
    BY HealthAssumption DEF MostFailures, Larger
  <1>1. /\ l \in LogRow /\ t \in TargetRow /\ c \in CheckRow /\ s \in AlertRow /\ h \in HistoryRow
        /\ AccountInv(l, t, c, s, h)
    BY DEF Account, RowsOf
  <1>2. /\ b \in AlertRow /\ b \in {s, NoAlert}
        /\ b # s => t.src > s.at /\ s.at # Never /\ h.changed > s.at /\ h.stale
    BY BasisFacts
  <1>3. Tells(o) = Event(b, status)
    BY DEF Tells
  <1>4. InSync(l, t) /\ t.active /\ l.on
    BY DEF Synchronised
  <1>5. /\ s2.alerted = Alerted(b, status) /\ s2.at = Now
        /\ s2.failures = IF Failing(status) THEN Smaller(b.failures + 1, MostFailures) ELSE 0
    BY DEF Observe
  <1>6. /\ h2.fails = IF ~Failing(status) THEN 0
                      ELSE IF Counts(h, o) THEN Smaller(h.fails + 1, FailureThreshold) ELSE h.fails
        /\ h2.counted = IF o.source = "request_error" THEN Larger(h.counted, o.at) ELSE h.counted
        /\ h2.bad = IF o.source = "history" THEN 0 ELSE h.bad
        /\ h2.told = IF Tells(o) = "none" THEN h.told ELSE Tells(o)
        /\ h2.stale = (h.stale /\ Tells(o) = "none")
        /\ h2.changed = h.changed
    BY <1>1 DEF Recount, HistoryRow
  <1>7. /\ s.failures \in Nat /\ b.failures \in Nat /\ b.failures <= MostFailures
        /\ h.fails \in Nat /\ h.fails <= FailureThreshold
        /\ h.bad \in Nat /\ h.bad <= Len(Tiers)
        /\ NoAlert.failures = 0 /\ NoAlert.alerted = "none"
    BY <1>0, <1>1, <1>2 DEF AlertRow, HistoryRow, NoAlert
  <1>8. /\ s.at \in Stamp /\ c.at \in Stamp /\ h.changed \in Stamp /\ h.counted \in Stamp
        /\ t.src \in Stamp /\ t.obsErr \in Stamp /\ o.at \in Stamp
    BY <1>1 DEF AlertRow, CheckRow, HistoryRow, TargetRow, Seen
  <1>9. /\ s.at \in Int /\ c.at \in Int /\ h.changed \in Int /\ h.counted \in Int
        /\ t.src \in Int /\ t.obsErr \in Int /\ o.at \in Int /\ Now \in Int /\ Never \in Int
        /\ c.at <= Now /\ h.changed <= Now /\ t.src <= Now /\ s.at >= Never /\ Now # Never
    BY <1>8, StampsAreInts, Settings
  <1>10. /\ Tells(o) \in {"failed", "operational", "none"}
         /\ Tells(o) = "failed" <=> Fails(b, status)
    BY <1>3, EventFacts
  <1> HIDE DEF s, t, h, c, l, b, status
  <1>11. s2 \in AlertRow
    <2>1. s2.failures \in 0..MostFailures
      BY <1>0, <1>5, <1>7 DEF Smaller
    <2>2. Alerted(b, status) \in {"none", "failed", "operational"}
      <3>1. /\ Event(b, status) \in {"failed", "operational", "none"}
            /\ b.alerted \in {"none", "failed", "operational"}
        BY <1>2, EventFacts DEF AlertRow
      <3> QED
        BY <3>1 DEF Alerted
    <2>3. (IF status = "operational" THEN Smaller(b.recoveries + 1, RecoveryThreshold) ELSE 0)
            \in 0..RecoveryThreshold
      BY <1>0, <1>2 DEF Smaller, AlertRow
    <2>4. s2 = [alerted |-> Alerted(b, status), failures |-> s2.failures,
                recoveries |-> IF status = "operational"
                               THEN Smaller(b.recoveries + 1, RecoveryThreshold) ELSE 0,
                at |-> Now]
      BY <1>5 DEF Observe, b, status
    <2> QED
      BY <2>1, <2>2, <2>3, <2>4, StampsAreInts DEF AlertRow
  <1>12. h2 \in HistoryRow
    <2>1. h2.fails \in 0..FailureThreshold
      BY <1>0, <1>6, <1>7 DEF Smaller
    <2>2. h2.counted \in Stamp
      BY <1>6, <1>8 DEF Larger
    <2>3. h2.bad \in 0..Len(Tiers)
      BY <1>0, <1>6, <1>7
    <2>4. h2.told \in {"none", "failed", "operational"}
      BY <1>1, <1>6, <1>10 DEF HistoryRow
    <2>5. h2.stale \in BOOLEAN
      BY <1>6
    <2>6. h2 = [changed |-> h.changed, bad |-> h2.bad, told |-> h2.told, stale |-> h2.stale,
                fails |-> h2.fails, counted |-> h2.counted]
      BY <1>1, <1>6 DEF Recount, HistoryRow, h
    <2> QED
      BY <1>8, <2>1, <2>2, <2>3, <2>4, <2>5, <2>6 DEF HistoryRow
  <1>13. Failing(status) => Counts(h, o)
    <2>1. o.source \in {"history", "request_error", "probe"} /\ o.status = status
      BY DEF Seen, Sources, status
    <2> QED
      BY <2>1 DEF Counts, Failing, Successful, h
  <1>14. h.fails >= Smaller(b.failures, FailureThreshold)
    <2>1. h.fails >= Smaller(s.failures, FailureThreshold)
      BY <1>1 DEF AccountInv, Counted
    <2>2. Smaller(0, FailureThreshold) = 0
      BY <1>0 DEF Smaller
    <2> QED
      BY <1>2, <1>7, <2>1, <2>2
  <1>15. Fails(b, status) => h2.fails >= FailureThreshold
    BY <1>0, <1>6, <1>7, <1>13, <1>14 DEF Fails, Smaller
  <1>16. Counted(l, t, s2, h2)
    <2>1. h2.fails >= Smaller(s2.failures, FailureThreshold)
      BY <1>0, <1>5, <1>6, <1>7, <1>13, <1>14 DEF Smaller
    <2>2. h.counted <= t.obsErr
      BY <1>1, <1>4 DEF AccountInv, Counted
    <2>3. o.source = "request_error" => o.at <= t.obsErr
      BY DEF t
    <2>4. h2.counted <= t.obsErr
      BY <1>6, <2>2, <2>3 DEF Larger
    <2> QED
      BY <1>4, <2>1, <2>4 DEF Counted
  <1>17. b # s => h.stale
    BY <1>2
  <1>18. Tells(o) = "failed" => h.told # "failed" \/ h.stale
    <2> SUFFICES ASSUME Fails(b, status), h.told = "failed", ~h.stale
                 PROVE  FALSE
      BY <1>10
    <2>1. b = s /\ s.alerted = "failed"
      BY <1>1, <1>17 DEF AccountInv, Remembered
    <2> QED
      BY <2>1 DEF Fails
  <1>19. Remembered(s2, h2)
    <2>1. s2.at # Never /\ ~(h2.changed > s2.at)
      BY <1>5, <1>6, <1>9
    <2>2. h2.told = "failed" => s2.alerted = "failed" \/ h2.stale
      <3> SUFFICES ASSUME h2.told = "failed", ~h2.stale
                   PROVE  s2.alerted = "failed"
        OBVIOUS
      <3>1. CASE Tells(o) = "failed"
        BY <1>3, <1>5, <3>1 DEF Alerted, b, status
      <3>2. CASE Tells(o) = "none"
        <4>1. h.told = "failed" /\ ~h.stale
          BY <1>6, <3>2
        <4>2. b = s /\ s.alerted = "failed"
          BY <1>1, <1>17, <4>1 DEF AccountInv, Remembered
        <4> QED
          BY <1>3, <1>5, <3>2, <4>2 DEF Alerted, b, status
      <3> QED
        BY <1>6, <1>10, <3>1, <3>2
    <2> QED
      BY <2>1, <2>2 DEF Remembered
  <1>20. Dated(l, t, c, s2, h2)
    <2>1. ~(t.src > s2.at)
      BY <1>5, <1>9
    <2>2. t.here
      BY <1>4 DEF InSync
    <2> QED
      BY <1>1, <1>4, <1>6, <2>1, <2>2 DEF AccountInv, Dated
  <1>21. Backing(l, t, c, h2)
    BY <1>1, <1>6 DEF AccountInv, Backing
  <1>22. AccountInv(l, t, c, s2, h2)
    BY <1>1, <1>16, <1>19, <1>20, <1>21 DEF AccountInv
  <1>23. s.at >= h.changed /\ s.failures > 0 => b = s
    <2> SUFFICES ASSUME s.at >= h.changed, b # s
                 PROVE  FALSE
      OBVIOUS
    <2> QED
      BY <1>2, <1>9
  <1>24. h2.bad > 0 => h2.bad = h.bad /\ Failing(status) /\ c.at >= h.changed
    <2> SUFFICES ASSUME h2.bad > 0
                 PROVE  h2.bad = h.bad /\ Failing(status) /\ c.at >= h.changed
      OBVIOUS
    <2>1. o.source \in {"request_error", "probe"} /\ h2.bad = h.bad
      <3>1. o.source \in {"history", "request_error", "probe"}
        BY DEF Seen, Sources
      <3> QED
        BY <1>6, <3>1
    <2>2. Failing(c.status) /\ c.at >= h.changed
      BY <1>1, <2>1 DEF AccountInv, Backing
    <2>3. o.source = "request_error" => status = "failed"
      BY DEF status
    <2>4. o.source = "probe" => status = c.status
      BY DEF status, c
    <2> QED
      BY <2>1, <2>2, <2>3, <2>4 DEF Failing
  <1>25. Streaks(c, s, h) => Streaks(c, s2, h2)
    <2> SUFFICES ASSUME Streaks(c, s, h), h2.bad > 0
                 PROVE  s2.at >= c.at /\ s2.failures >= h2.bad
      BY DEF Streaks
    <2>1. s.at >= c.at /\ s.failures >= h.bad
      BY <1>24 DEF Streaks
    <2>2. b = s
      BY <1>7, <1>9, <1>23, <1>24, <2>1
    <2>3. s2.failures = Smaller(s.failures + 1, MostFailures)
      BY <1>5, <1>24, <2>2
    <2> QED
      BY <1>0, <1>5, <1>7, <1>9, <1>24, <2>1, <2>3 DEF Smaller
  <1>26. Soon(s, h) => Soon(s2, h2)
    <2> SUFFICES ASSUME Soon(s, h), h2.bad > 1
                 PROVE  s2.at >= h2.changed /\ s2.failures + 1 >= h2.bad
      BY DEF Soon
    <2>0. h2.bad = h.bad /\ Failing(status)
      <3>1. h2.bad \in Int
        BY <1>12, <1>0 DEF HistoryRow
      <3> QED
        BY <1>24, <3>1
    <2>1. s.at >= h.changed /\ s.failures + 1 >= h.bad
      BY <2>0 DEF Soon
    <2>2. b = s
      BY <1>7, <1>23, <2>0, <2>1
    <2>3. s2.failures = Smaller(s.failures + 1, MostFailures)
      BY <1>5, <2>0, <2>2
    <2> QED
      BY <1>0, <1>5, <1>6, <1>7, <1>9, <2>0, <2>1, <2>3 DEF Smaller
  <1>27. o.source = "probe" /\ Soon(s, h) => Streaks(c, s2, h2)
    <2> SUFFICES ASSUME o.source = "probe", Soon(s, h), h2.bad > 0
                 PROVE  s2.at >= c.at /\ s2.failures >= h2.bad
      BY DEF Streaks
    <2>1. s2.failures = Smaller(b.failures + 1, MostFailures)
      BY <1>5, <1>24
    <2>2. h.bad > 1 => b = s /\ s.failures + 1 >= h.bad
      BY <1>7, <1>23 DEF Soon
    <2>3. b.failures + 1 >= h2.bad
      BY <1>7, <1>24, <2>2
    <2> QED
      BY <1>0, <1>5, <1>7, <1>9, <1>24, <2>1, <2>3 DEF Smaller
  <1>28. s2 \in AlertRow /\ h2 \in HistoryRow /\ AccountInv(l, t, c, s2, h2)
    BY <1>11, <1>12, <1>22
  <1> QED
    BY <1>6, <1>10, <1>15, <1>18, <1>25, <1>26, <1>27, <1>28 DEF l, t, c, s, h

-----------------------------------------------------------------------------
(* The results of a cycle are stored.                                        *)

\* What is known of the observations of an account before they are stored.
Pending(a) ==
  /\ \A source \in Sources :
       /\ Of(a, source) \subseteq Seen
       /\ \A o, p \in Of(a, source) : o = p
       /\ Of(a, source) # {} => Synchronised(a)
  /\ Of(a, "history") # {} => Of(a, "probe") = {}
  /\ \A o \in Of(a, "probe") : o.at = Now

LEMMA StoringKeeps ==
  ASSUME NEW a, Account(a), Pending(a),
         NEW t2, t2 = Marked(tgt[a], a), NEW c2, c2 = Checked(chk[a], Of(a, "probe")),
         NEW h2, h2 = [hist[a] EXCEPT !.bad = FailingProbes(a)]
  PROVE  /\ t2 \in TargetRow /\ c2 \in CheckRow /\ h2 \in HistoryRow
         /\ AccountInv(log[a], t2, c2, alert[a], h2)
         /\ InSync(log[a], t2) <=> InSync(log[a], tgt[a])
         /\ t2.active = tgt[a].active
         /\ \A o \in Of(a, "request_error") : o.at <= t2.obsErr
         /\ \A o \in Of(a, "probe") : c2 = [at |-> Now, status |-> o.status]
         /\ Of(a, "probe") = {} => c2 = chk[a]
         /\ h2.changed = hist[a].changed /\ h2.counted = hist[a].counted
         /\ Streaks(chk[a], alert[a], hist[a]) =>
              IF Of(a, "probe") = {} THEN Streaks(c2, alert[a], h2) ELSE Soon(alert[a], h2)
  <1> DEFINE s == alert[a]
             t == tgt[a]
             h == hist[a]
             c == chk[a]
             l == log[a]
             P == Of(a, "probe")
             E == Of(a, "request_error")
             H == Of(a, "history")
             m == Cleared(t, P)
  <1>1. /\ l \in LogRow /\ t \in TargetRow /\ c \in CheckRow /\ s \in AlertRow /\ h \in HistoryRow
        /\ AccountInv(l, t, c, s, h)
    BY DEF Account, RowsOf
  <1>2. /\ P \subseteq Seen /\ E \subseteq Seen /\ H \subseteq Seen
        /\ \A o, p \in P : o = p
        /\ \A o, p \in E : o = p
        /\ P # {} => InSync(l, t) /\ t.active /\ l.on
        /\ \A o \in P : o.at = Now
    BY DEF Pending, Sources, Synchronised
  <1>3. t2 = [m EXCEPT !.obsAct = MarkOf(H, m.obsAct), !.obsErr = MarkOf(E, m.obsErr)]
    BY DEF Marked
  <1>4. /\ h2 = [h EXCEPT !.bad = h2.bad] /\ h2.changed = h.changed /\ h2.counted = h.counted
        /\ h2.told = h.told /\ h2.stale = h.stale /\ h2.fails = h.fails
        /\ h2.bad = FailingProbes(a)
    BY <1>1 DEF HistoryRow
  <1>5. P = {} => h2.bad = h.bad
    BY <1>4 DEF FailingProbes
  <1>6. \A o \in P : h2.bad = IF Failing(o.status) THEN Smaller(h.bad + 1, Len(Tiers)) ELSE 0
    <2> SUFFICES ASSUME NEW o \in P
                 PROVE  h2.bad = IF Failing(o.status) THEN Smaller(h.bad + 1, Len(Tiers)) ELSE 0
      OBVIOUS
    <2>1. P # {} /\ \A p \in P : p = o
      BY <1>2
    <2>2. CASE Failing(o.status)
      <3>1. (\E p \in P : Failing(p.status)) /\ ~(\E p \in P : ~Failing(p.status))
        BY <2>1, <2>2
      <3> QED
        BY <1>4, <2>1, <2>2, <3>1 DEF FailingProbes
    <2>3. CASE ~Failing(o.status)
      <3>1. ~(\E p \in P : Failing(p.status)) /\ (\E p \in P : ~Failing(p.status))
        BY <2>1, <2>3
      <3> QED
        BY <1>4, <2>1, <2>3, <3>1 DEF FailingProbes
    <2> QED
      BY <2>2, <2>3
  <1>7. \A o \in P : c2 = [at |-> Now, status |-> o.status]
    <2> SUFFICES ASSUME NEW o \in P
                 PROVE  c2 = [at |-> Now, status |-> o.status]
      OBVIOUS
    <2>1. One(P) = o
      BY <1>2 DEF One
    <2> QED
      BY <1>2, <2>1 DEF Checked
  <1>at. \A o \in P : c2.at = Now /\ c2.status = o.status
    <2> SUFFICES ASSUME NEW o \in P
                 PROVE  c2.at = Now /\ c2.status = o.status
      OBVIOUS
    <2>1. c2 = [at |-> Now, status |-> o.status]
      BY <1>7
    <2> QED
      BY <2>1
  <1>8. P = {} => c2 = c
    BY DEF Checked
  <1>9. \/ m = t
        \/ \E o \in P : Successful(o.status) /\ m = ClearError(t, Now)
    <2> SUFFICES ASSUME NEW o \in P, Successful(o.status)
                 PROVE  m = ClearError(t, Now)
      BY DEF Cleared
    <2>1. One(P) \in P
      BY DEF One
    <2> QED
      BY <1>2, <2>1 DEF Cleared
  <1> HIDE DEF s, t, h, c, l, P, E, H, m
  <1>10. /\ \A x \in Stamp : x \in Int /\ x >= Never /\ x <= Now
         /\ Now \in Stamp /\ Never \in Stamp /\ Now # Never
         /\ Len(Tiers) \in Nat /\ Len(Tiers) > 0
    BY StampsAreInts, HealthAssumption, Settings
  <1>11. /\ l.act \in Stamp /\ l.err \in Stamp /\ l.upd \in Stamp /\ t.err \in Stamp
         /\ t.resolved \in Stamp /\ t.obsErr \in Stamp /\ t.obsAct \in Stamp /\ t.src \in Stamp
         /\ t.act \in Stamp /\ c.at \in Stamp /\ s.at \in Stamp /\ h.changed \in Stamp
    BY <1>1 DEF LogRow, TargetRow, CheckRow, AlertRow, HistoryRow
  <1>12. t.err <= l.err /\ l.err < Now
    BY <1>1 DEF AccountInv, Dated
  <1>13. /\ m \in TargetRow /\ m.here = t.here /\ m.active = t.active /\ m.identity = t.identity
         /\ m.src = t.src /\ m.obsErr = t.obsErr /\ m.obsAct = t.obsAct
         /\ m.err \in {t.err, Never}
         /\ m.resolved = t.resolved \/ (P # {} /\ m.resolved = Now)
    <2>1. CASE m = t
      BY <1>1, <2>1
    <2>2. CASE P # {} /\ m = ClearError(t, Now)
      <3>1. t.err < Now /\ ~(t.err >= Now)
        <4>1. t.err \in Int /\ l.err \in Int /\ Now \in Int
          BY <1>10, <1>11
        <4> QED
          BY <1>12, <4>1
      <3>2. Larger(t.resolved, Now) = Now
        BY <1>10, <1>11 DEF Larger
      <3>3. m = [t EXCEPT !.resolved = Now, !.err = Never]
        BY <2>2, <3>1, <3>2 DEF ClearError
      <3> QED
        BY <1>1, <1>10, <2>2, <3>3 DEF TargetRow
    <2> QED
      BY <1>9, <2>1, <2>2
  <1>14. \A S, mark : S \subseteq Seen /\ mark \in Stamp =>
           /\ MarkOf(S, mark) \in Stamp /\ MarkOf(S, mark) >= mark
           /\ \A o \in S : (\A p \in S : p = o) => o.at <= MarkOf(S, mark)
    <2> SUFFICES ASSUME NEW S, NEW mark, S \subseteq Seen, mark \in Stamp
                 PROVE  /\ MarkOf(S, mark) \in Stamp /\ MarkOf(S, mark) >= mark
                        /\ \A o \in S : (\A p \in S : p = o) => o.at <= MarkOf(S, mark)
      OBVIOUS
    <2>1. CASE S = {}
      BY <1>10, <2>1 DEF MarkOf
    <2>2. CASE S # {}
      <3>1. One(S) \in S
        BY <2>2 DEF One
      <3>2. One(S).at \in Stamp
        BY <3>1 DEF Seen
      <3>3. MarkOf(S, mark) = Larger(mark, One(S).at)
        BY <2>2 DEF MarkOf
      <3>4. \A o \in S : (\A p \in S : p = o) => One(S) = o
        BY <3>1
      <3>5. Larger(mark, One(S).at) \in Stamp /\ Larger(mark, One(S).at) >= mark
            /\ One(S).at <= Larger(mark, One(S).at)
        BY <1>10, <3>2 DEF Larger
      <3> QED
        BY <3>3, <3>4, <3>5
    <2> QED
      BY <2>1, <2>2
  <1>15. /\ t2 \in TargetRow /\ t2.here = t.here /\ t2.active = t.active /\ t2.identity = t.identity
         /\ t2.src = t.src /\ t2.obsErr >= t.obsErr /\ t2.obsErr \in Stamp
         /\ t2.err \in {t.err, Never} /\ t2.resolved = m.resolved
         /\ \A o \in E : o.at <= t2.obsErr
    <2>1. /\ MarkOf(E, m.obsErr) \in Stamp /\ MarkOf(E, m.obsErr) >= t.obsErr
          /\ \A o \in E : o.at <= MarkOf(E, m.obsErr)
      BY <1>2, <1>11, <1>13, <1>14
    <2>2. MarkOf(H, m.obsAct) \in Stamp
      BY <1>2, <1>11, <1>13, <1>14
    <2>3. t2 \in TargetRow
      BY <1>3, <1>13, <2>1, <2>2 DEF TargetRow
    <2>4. /\ t2.obsErr = MarkOf(E, m.obsErr) /\ t2.here = m.here /\ t2.active = m.active
          /\ t2.identity = m.identity /\ t2.src = m.src /\ t2.err = m.err
          /\ t2.resolved = m.resolved
      BY <1>3, <1>13 DEF TargetRow
    <2> QED
      BY <1>13, <2>1, <2>3, <2>4
  <1>16. c2 \in CheckRow /\ (c2.at = c.at \/ c2.at = Now)
    <2>1. CASE P = {}
      BY <1>1, <1>8, <2>1
    <2>2. ASSUME NEW o \in P PROVE c2 \in CheckRow /\ c2.at = Now
      <3>1. o.status \in ProbeStatus /\ c2 = [at |-> Now, status |-> o.status]
        BY <1>2, <1>7 DEF Seen
      <3> QED
        BY <1>10, <3>1 DEF CheckRow
    <2> QED
      BY <2>1, <2>2
  <1>17. h2.bad \in 0..Len(Tiers) /\ h.bad \in 0..Len(Tiers)
    <2>1. h.bad \in 0..Len(Tiers)
      BY <1>1 DEF HistoryRow
    <2>2. ASSUME NEW o \in P PROVE h2.bad \in 0..Len(Tiers)
      BY <1>6, <1>10, <2>1 DEF Smaller
    <2> QED
      BY <1>5, <2>1, <2>2
  <1>18. h2 \in HistoryRow
    BY <1>1, <1>4, <1>17 DEF HistoryRow
  <1>19. InSync(l, t2) <=> InSync(l, t)
    BY <1>15 DEF InSync
  <1>20. Dated(l, t2, c2, s, h2)
    <2>1. Dated(l, t, c, s, h)
      BY <1>1 DEF AccountInv
    <2>2. t2.err <= l.err
      BY <1>10, <1>11, <1>12, <1>15
    <2>3. t.src > c2.at => c2 = c
      <3>1. t.src \in Int /\ Now \in Int /\ t.src <= Now
        BY <1>10, <1>11
      <3>2. P # {} => c2.at = Now
        BY <1>at
      <3> QED
        BY <1>8, <3>1, <3>2
    <2>4. ~InSync(l, t) => c2 = c /\ t2.resolved = t.resolved
      BY <1>2, <1>8, <1>13, <1>15
    <2> QED
      BY <1>4, <1>15, <1>19, <2>1, <2>2, <2>3, <2>4 DEF Dated, InSync
  <1>21. Settled(l, t2, c2)
    <2> SUFFICES ASSUME t2.here, Now - l.err <= ErrorWindow, l.err <= t2.resolved
                 PROVE  l.err < l.act \/ l.err < c2.at \/ t2.src - l.err > Grace
      BY DEF Settled
    <2>1. CASE P = {}
      <3>1. t2.resolved = t.resolved /\ c2 = c
        BY <1>8, <1>13, <1>15, <2>1
      <3> QED
        BY <1>1, <1>15, <3>1 DEF AccountInv, Settled
    <2>2. P # {} => c2.at = Now
      BY <1>at
    <2> QED
      BY <1>12, <2>1, <2>2
  <1>22. Remembered(s, h2)
    BY <1>1, <1>4 DEF AccountInv, Remembered
  <1>23. Counted(l, t2, s, h2)
    <2>1. h.counted \in Int /\ t.obsErr \in Int /\ t2.obsErr \in Int
      BY <1>1, <1>10, <1>11, <1>15 DEF HistoryRow
    <2> QED
      BY <1>1, <1>4, <1>15, <2>1 DEF AccountInv, Counted
  <1>24. Backing(l, t2, c2, h2)
    <2>1. CASE P = {}
      BY <1>1, <1>4, <1>5, <1>8, <1>15, <1>19, <2>1 DEF AccountInv, Backing
    <2>2. ASSUME NEW o \in P PROVE Backing(l, t2, c2, h2)
      <3>1. h2.bad > 0 => Failing(o.status)
        BY <1>6
      <3>2. c2.at = Now /\ c2.status = o.status
        BY <1>at
      <3> QED
        BY <1>2, <1>4, <1>10, <1>11, <1>15, <1>19, <3>1, <3>2 DEF Backing
    <2> QED
      BY <2>1, <2>2
  <1>25. AccountInv(l, t2, c2, s, h2)
    BY <1>20, <1>21, <1>22, <1>23, <1>24 DEF AccountInv
  <1>26. P = {} /\ Streaks(c, s, h) => Streaks(c2, s, h2)
    BY <1>4, <1>5, <1>8 DEF Streaks
  <1>27. P # {} /\ Streaks(c, s, h) => Soon(s, h2)
    <2> SUFFICES ASSUME NEW o \in P, Streaks(c, s, h), h2.bad > 1
                 PROVE  s.at >= h2.changed /\ s.failures + 1 >= h2.bad
      BY DEF Soon
    <2>1. h2.bad <= h.bad + 1 /\ h.bad > 0
      BY <1>6, <1>10, <1>17 DEF Smaller
    <2>2. c.at >= h.changed /\ s.at >= c.at /\ s.failures >= h.bad
      BY <1>1, <2>1 DEF AccountInv, Backing, Streaks
    <2>3. /\ c.at \in Int /\ h.changed \in Int /\ s.at \in Int /\ s.failures \in Int
          /\ h2.bad \in Int /\ h.bad \in Int
      BY <1>1, <1>10, <1>11, <1>17 DEF AlertRow
    <2> QED
      BY <1>4, <2>1, <2>2, <2>3
  <1> QED
    BY <1>4, <1>7, <1>8, <1>15, <1>16, <1>18, <1>19, <1>25, <1>26, <1>27
    DEF l, t, c, s, h, P, E

-----------------------------------------------------------------------------
(* No account is probed twice in a cycle.                                    *)

Busy == {w \in Workers : worker[w].at \in {"probing", "sending"}}
Apart ==
  /\ \A v, w \in Busy : worker[v].job = worker[w].job => v = w
  /\ \A w \in Busy : worker[w].job \notin queue
  /\ \A w \in Busy : \A r \in results \cup answers : r.job # worker[w].job
  /\ \A r \in results \cup answers : r.job \notin queue
  /\ \A r, q \in results \cup answers : r.job = q.job => r = q

LEMMA PoolStepKeepsApart ==
  ASSUME NEW n, NEW S, PoolShape, Apart, PoolStep(n, S)
  PROVE  Apart'
  <1>0. /\ queue \subseteq Accounts
        /\ worker \in [Workers -> [at : {"ready", "probing", "sending", "gone"},
                                   job : Accounts \cup {NoJob}, found : ProbeStatus \cup {"none"}]]
    BY DEF PoolShape, PoolTypeOK
  <1>1. ASSUME NEW w \in Workers, Give(w)
        PROVE  Apart'
    <2>1. First(queue) \in queue
      BY <1>0, <1>1, FirstIsOne DEF Give
    <2>2. /\ worker' = [worker EXCEPT ![w] = [at |-> "probing", job |-> First(queue),
                                              found |-> "none"]]
          /\ queue' = queue \ {First(queue)} /\ results' = results /\ answers' = answers
          /\ worker[w].at = "ready"
      BY <1>1 DEF Give, Rest
    <2>3. \A v \in Busy' : v # w => v \in Busy /\ worker'[v] = worker[v]
      BY <1>0, <2>2 DEF Busy
    <2>4. worker'[w].job = First(queue)
      BY <1>0, <2>2
    <2> QED
      BY <2>1, <2>2, <2>3, <2>4 DEF Apart
  <1>2. ASSUME NEW w \in Workers, Send(w, n)
        PROVE  Apart'
    <2> DEFINE r == [job |-> worker[w].job, found |-> worker[w].found]
    <2>1. /\ worker' = [worker EXCEPT ![w] = Ready] /\ results' = results \cup {r}
          /\ queue' = queue /\ answers' = answers /\ worker[w].at = "sending"
      BY <1>2 DEF Send
    <2>2. r.job = worker[w].job /\ w \in Busy
      BY <2>1 DEF Busy
    <2> HIDE DEF r
    <2>3. \A v \in Busy' : v # w /\ v \in Busy /\ worker'[v] = worker[v]
      BY <1>0, <2>1 DEF Busy, Ready
    <2>4. results' \cup answers' = (results \cup answers) \cup {r}
      BY <2>1
    <2>5. \A q \in results \cup answers : q.job # r.job
      BY <2>2 DEF Apart
    <2>6. \A v \in Busy' : r.job # worker'[v].job
      BY <2>2, <2>3 DEF Apart
    <2>7. r.job \notin queue
      BY <2>2 DEF Apart
    <2> QED
      BY <2>1, <2>3, <2>4, <2>5, <2>6, <2>7 DEF Apart
  <1>3. ASSUME NEW w \in Workers, Return(w)
        PROVE  Apart'
    <2>1. /\ worker' = [worker EXCEPT ![w] = Gone]
          /\ queue' = queue /\ answers' = answers /\ results' = results
      BY <1>3 DEF Return
    <2>2. \A v \in Busy' : v \in Busy /\ worker'[v].job = worker[v].job
      BY <1>0, <2>1 DEF Busy, Gone
    <2> QED
      BY <2>1, <2>2 DEF Apart
  <1>4. ASSUME NEW w \in Workers, NEW found \in S, Probe(w, found)
        PROVE  Apart'
    <2>1. /\ worker' = [worker EXCEPT ![w].at = "sending", ![w].found = found]
          /\ worker[w].at = "probing"
          /\ queue' = queue /\ answers' = answers /\ results' = results
      BY <1>4 DEF Probe
    <2>2. \A v \in Busy' : v \in Busy /\ worker'[v].job = worker[v].job
      BY <1>0, <2>1 DEF Busy
    <2>3. results' = results /\ answers' = answers /\ queue' = queue
      BY <2>1
    <2> HIDE <2>1
    <2> QED
      BY <2>2, <2>3 DEF Apart
  <1>5. CASE CloseJobs
    BY <1>5 DEF CloseJobs, Apart, Busy
  <1>6. CASE Collect
    <2>1. results' \cup answers' = results \cup answers /\ queue' = queue /\ worker' = worker
      BY <1>6 DEF Collect
    <2> QED
      BY <2>1 DEF Apart, Busy
  <1> QED
    BY <1>1, <1>2, <1>3, <1>4, <1>5, <1>6 DEF PoolStep

\* A pool that starts, or does nothing.
LEMMA FreshPoolIsApart ==
  ASSUME results' = {}, answers' = {},
         \A w \in Workers : worker'[w] \in {Ready, Gone}
  PROVE  Apart'
  <1>1. Busy' = {}
    BY DEF Busy, Ready, Gone
  <1> QED
    BY <1>1 DEF Apart

-----------------------------------------------------------------------------
(* Sequences of observations.                                               *)

\* Of an account and a source there is one observation at most.
Distinct(q) ==
  \A i, j \in DOMAIN q : q[i].job = q[j].job /\ q[i].source = q[j].source => i = j

LEMMA ListIsDistinct ==
  ASSUME NEW S, IsFiniteSet(S),
         \A o, p \in S : o.job = p.job /\ o.source = p.source => o = p
  PROVE  Distinct(SetToSeq(S))
  <1> DEFINE n == Cardinality(S)
             q == SetToSeq(S)
  <1>1. n \in Nat /\ ExistsBijection(1..n, S)
    BY FS_CardinalityType
  <1>2. \E f \in [1..n -> S] : IsInjective(f)
    BY <1>1 DEF ExistsBijection, Bijection, Injection, IsInjective
  <1>3. q \in [1..n -> S] /\ IsInjective(q)
    BY <1>2 DEF SetToSeq
  <1> HIDE DEF n, q
  <1>4. \A i, j \in DOMAIN q : q[i] = q[j] => i = j
    BY <1>3 DEF IsInjective
  <1> QED
    BY <1>3, <1>4 DEF Distinct, q

LEMMA ConcatIsDistinct ==
  ASSUME NEW A, NEW B, NEW p \in Seq(A), NEW q \in Seq(B), Distinct(p), Distinct(q),
         \A o \in ToSet(p), r \in ToSet(q) : o.source # r.source
  PROVE  Distinct(p \o q)
  <1>1. Len(p) \in Nat /\ Len(q) \in Nat /\ DOMAIN p = 1..Len(p) /\ DOMAIN q = 1..Len(q)
    OBVIOUS
  <1>2. p \in Seq(A \cup B) /\ q \in Seq(A \cup B)
    OBVIOUS
  <1>3. /\ DOMAIN (p \o q) = 1..(Len(p) + Len(q))
        /\ \A i \in 1..(Len(p) + Len(q)) :
             (p \o q)[i] = IF i <= Len(p) THEN p[i] ELSE q[i - Len(p)]
    BY <1>1, <1>2
  <1>4. \A i \in DOMAIN p, j \in DOMAIN q : p[i].source # q[j].source
    BY DEF ToSet
  <1> DEFINE r == p \o q
  <1>5. \A i \in DOMAIN r : i <= Len(p) => i \in DOMAIN p /\ r[i] = p[i]
    BY <1>1, <1>3
  <1>6. \A i \in DOMAIN r : ~(i <= Len(p)) => i - Len(p) \in DOMAIN q /\ r[i] = q[i - Len(p)]
    BY <1>1, <1>3
  <1>7. DOMAIN r \subseteq Int
    BY <1>3
  <1> HIDE DEF r
  <1> SUFFICES ASSUME NEW i \in DOMAIN r, NEW j \in DOMAIN r,
                      r[i].job = r[j].job, r[i].source = r[j].source
               PROVE  i = j
    BY DEF Distinct, r
  <1>8. CASE i <= Len(p) /\ j <= Len(p)
    BY <1>5, <1>8 DEF Distinct
  <1>9. CASE ~(i <= Len(p)) /\ ~(j <= Len(p))
    <2>1. i - Len(p) = j - Len(p)
      BY <1>6, <1>9 DEF Distinct
    <2> QED
      BY <1>1, <1>7, <2>1
  <1>10. CASE i <= Len(p) /\ ~(j <= Len(p))
    BY <1>4, <1>5, <1>6, <1>10
  <1>11. CASE ~(i <= Len(p)) /\ j <= Len(p)
    BY <1>4, <1>5, <1>6, <1>11
  <1> QED
    BY <1>8, <1>9, <1>10, <1>11

LEMMA TailIsDistinct ==
  ASSUME NEW A, NEW q \in Seq(A), q # <<>>, Distinct(q)
  PROVE  /\ Head(q) \in A /\ Tail(q) \in Seq(A) /\ Distinct(Tail(q))
         /\ ToSet(q) = {Head(q)} \cup ToSet(Tail(q))
         /\ \A o \in ToSet(Tail(q)) : ~(o.job = Head(q).job /\ o.source = Head(q).source)
  <1> DEFINE t == Tail(q)
             n == Len(q)
  <1>1. /\ n \in Nat /\ n > 0 /\ DOMAIN q = 1..n /\ Head(q) = q[1] /\ q[1] \in A
        /\ t \in Seq(A) /\ DOMAIN t = 1..(n - 1) /\ \A i \in 1..(n - 1) : t[i] = q[i + 1]
    OBVIOUS
  <1> HIDE DEF t, n
  <1>2. \A i \in DOMAIN t : i + 1 \in DOMAIN q /\ i + 1 # 1 /\ t[i] = q[i + 1]
    BY <1>1
  <1>3. Distinct(t)
    <2> SUFFICES ASSUME NEW i \in DOMAIN t, NEW j \in DOMAIN t,
                        t[i].job = t[j].job, t[i].source = t[j].source
                 PROVE  i = j
      BY DEF Distinct
    <2>1. i + 1 = j + 1
      BY <1>2 DEF Distinct
    <2> QED
      BY <1>1, <2>1
  <1>4. \A o \in ToSet(t) : ~(o.job = q[1].job /\ o.source = q[1].source)
    <2> SUFFICES ASSUME NEW i \in DOMAIN t, t[i].job = q[1].job, t[i].source = q[1].source
                 PROVE  FALSE
      BY DEF ToSet
    <2>1. 1 \in DOMAIN q
      BY <1>1
    <2> QED
      BY <1>2, <2>1 DEF Distinct
  <1>5. ToSet(q) = {q[1]} \cup ToSet(t)
    <2>1. \A i \in DOMAIN q : i = 1 \/ (i - 1 \in DOMAIN t /\ q[i] = t[i - 1])
      BY <1>1
    <2>2. 1 \in DOMAIN q
      BY <1>1
    <2> QED
      BY <1>2, <2>1, <2>2 DEF ToSet
  <1> QED
    BY <1>1, <1>3, <1>4, <1>5 DEF t

-----------------------------------------------------------------------------
(* The inductive invariant of the cycle.                                    *)

\* What is stored has its type, and what an alert remembers is true.
Rows ==
  /\ log \in [Accounts -> LogRow] /\ tgt \in [Accounts -> TargetRow]
  /\ chk \in [Accounts -> CheckRow] /\ alert \in [Accounts -> AlertRow]
  /\ hist \in [Accounts -> HistoryRow]
Facts == \A a \in Accounts : AccountInv(log[a], tgt[a], chk[a], alert[a], hist[a])
Bounds ==
  ended \in [faults : 0..Environments[env].faults, crashes : 0..Environments[env].crashes,
            stops : 0..Environments[env].stops]

\* The alerts know of as many failures as there were failing probes, of which the
\* last may not be evaluated yet.
Backs ==
  Undisturbed =>
    \A a \in Accounts :
      IF phase = "alerts" /\ Of(a, "probe") # {}
      THEN Soon(alert[a], hist[a]) ELSE Streaks(chk[a], alert[a], hist[a])

Idles == phase \notin {"probing", "insert", "alerts"} => obs = <<>> /\ due = {}

\* What was observed is so, is new, and is stored before it is evaluated.
Observable(o) ==
  /\ o.job \in Present /\ Synchronised(o.job)
  /\ o.source = "history" =>
       /\ o.job \notin due /\ Successful(o.status)
       /\ o.status = "operational" => Real(log[o.job], chk[o.job], hist[o.job])
  /\ o.source = "request_error" =>
       /\ o.status = "failed" /\ o.at > hist[o.job].counted
       /\ phase = "alerts" => o.at <= tgt[o.job].obsErr
  /\ o.source = "probe" =>
       /\ phase # "probing" /\ o.job \in due /\ o.at = Now
       /\ phase = "alerts" => chk[o.job] = [at |-> Now, status |-> o.status]
Observing ==
  /\ obs \in Seq(Seen) /\ Distinct(obs)
  /\ \A o \in ToSet(obs) : Observable(o)

\* The accounts to probe have earned it.
Chosen ==
  /\ due \subseteq Present /\ \A a \in due : Synchronised(a)
  /\ phase = "probing" =>
       \A a \in due : /\ OpenError(log[a], chk[a], hist[a]) /\ Rested(chk[a], hist[a])
                      /\ Undisturbed => BackedOff(chk[a], hist[a])

WatchInv == Rows /\ Facts /\ Bounds /\ Backs /\ Idles /\ Observing /\ Chosen

LEMMA AccountOf ==
  ASSUME Rows, Facts, NEW a \in Accounts
  PROVE  Account(a)
  BY DEF Rows, Facts, Account, RowsOf

LEMMA EmptyIsObserved ==
  /\ <<>> \in Seq(Seen) /\ Distinct(<<>>) /\ ToSet(<<>>) = {}
  <1>1. DOMAIN <<>> = {}
    OBVIOUS
  <1> QED
    BY <1>1 DEF Distinct, ToSet

LEMMA InitWatch == Init => WatchInv
  <1> SUFFICES ASSUME Init PROVE WatchInv
    OBVIOUS
  <1>0. /\ Now \in Int /\ Never \in Int /\ Never \in Stamp /\ Now - 1 \in Stamp
        /\ Never < Now - 1 /\ FailureThreshold \in Nat /\ FailureThreshold > 0
        /\ RecoveryThreshold \in Nat /\ MostFailures \in Nat /\ Len(Tiers) \in Nat
    BY Settings, HealthAssumption DEF Stamp, MostFailures, Larger
  <1>1. /\ NoTarget \in TargetRow /\ NoCheck \in CheckRow /\ NoAlert \in AlertRow
        /\ NoHistory \in HistoryRow
    BY <1>0 DEF NoTarget, TargetRow, NoCheck, CheckRow, NoAlert, AlertRow, NoHistory, HistoryRow
  <1>2. Rows
    BY <1>0, <1>1 DEF Init, Rows, LogRow
  <1>3. ASSUME NEW a \in Accounts
        PROVE  AccountInv(log[a], tgt[a], chk[a], alert[a], hist[a])
    <2> DEFINE l == log[a]
    <2>1. /\ l.act = Never /\ l.err = Never /\ l.upd = Now - 1
          /\ tgt[a] = NoTarget /\ chk[a] = NoCheck /\ alert[a] = NoAlert /\ hist[a] = NoHistory
      BY DEF Init
    <2> HIDE DEF l
    <2>2. Dated(l, NoTarget, NoCheck, NoAlert, NoHistory)
      BY <1>0, <2>1 DEF Dated, InSync, NoTarget, NoCheck, NoAlert, NoHistory
    <2>3. Settled(l, NoTarget, NoCheck)
      BY DEF Settled, NoTarget
    <2>4. Remembered(NoAlert, NoHistory)
      BY <1>0 DEF Remembered, NoAlert, NoHistory
    <2>5. Counted(l, NoTarget, NoAlert, NoHistory)
      BY <1>0 DEF Counted, NoTarget, NoAlert, NoHistory, Smaller
    <2>6. Backing(l, NoTarget, NoCheck, NoHistory)
      BY DEF Backing, NoHistory
    <2> QED
      BY <2>1, <2>2, <2>3, <2>4, <2>5, <2>6 DEF AccountInv, l
  <1>4. Bounds
    <2>1. Environment(Environments[env])
      BY CycleAssumption DEF Init
    <2> QED
      BY <2>1 DEF Init, Bounds, Environment
  <1>5. Backs
    BY DEF Init, Backs, Streaks, NoHistory
  <1>6. Idles /\ Chosen
    BY DEF Init, Idles, Chosen
  <1>7. Observing
    BY EmptyIsObserved DEF Init, Observing
  <1> QED
    BY <1>2, <1>3, <1>4, <1>5, <1>6, <1>7 DEF WatchInv, Facts

\* What disturbs a behaviour is counted.
LEMMA DisturbanceCounts ==
  ASSUME Bounds, env \in DOMAIN Environments, env' = env
  PROVE  /\ Fault => Bounds' /\ ~Undisturbed'
         /\ ended.crashes < Environments[env].crashes /\ ended' = [ended EXCEPT !.crashes = @ + 1]
              => Bounds' /\ ~Undisturbed'
         /\ ended.stops < Environments[env].stops /\ ended' = [ended EXCEPT !.stops = @ + 1]
              => Bounds' /\ ~Undisturbed'
  <1> DEFINE e == Environments[env]
  <1>1. e.faults \in Nat /\ e.crashes \in Nat /\ e.stops \in Nat
    BY CycleAssumption DEF Environment
  <1>2. ended \in [faults : 0..e.faults, crashes : 0..e.crashes, stops : 0..e.stops]
    BY DEF Bounds
  <1>3. Bounds' <=> ended' \in [faults : 0..e.faults, crashes : 0..e.crashes, stops : 0..e.stops]
    BY DEF Bounds
  <1>4. Undisturbed' => ended'.faults = 0 /\ ended'.crashes = 0 /\ ended'.stops = 0
    BY DEF Undisturbed
  <1> HIDE DEF e
  <1>5. Fault => ended.faults < e.faults /\ ended' = [ended EXCEPT !.faults = @ + 1]
    BY DEF Fault, e
  <1>6. ASSUME ended.faults < e.faults, ended' = [ended EXCEPT !.faults = @ + 1]
        PROVE  Bounds' /\ ~Undisturbed'
    <2>1. ended'.faults = ended.faults + 1 /\ ended.faults \in 0..e.faults
      BY <1>2, <1>6
    <2> QED
      BY <1>1, <1>2, <1>3, <1>4, <1>6, <2>1
  <1>7. ASSUME ended.crashes < e.crashes, ended' = [ended EXCEPT !.crashes = @ + 1]
        PROVE  Bounds' /\ ~Undisturbed'
    <2>1. ended'.crashes = ended.crashes + 1 /\ ended.crashes \in 0..e.crashes
      BY <1>2, <1>7
    <2> QED
      BY <1>1, <1>2, <1>3, <1>4, <1>7, <2>1
  <1>8. ASSUME ended.stops < e.stops, ended' = [ended EXCEPT !.stops = @ + 1]
        PROVE  Bounds' /\ ~Undisturbed'
    <2>1. ended'.stops = ended.stops + 1 /\ ended.stops \in 0..e.stops
      BY <1>2, <1>8
    <2> QED
      BY <1>1, <1>2, <1>3, <1>4, <1>8, <2>1
  <1> QED
    BY <1>5, <1>6, <1>7, <1>8 DEF e

\* A cycle is over, or is given up.
LEMMA NoCycleKeeps ==
  ASSUME WatchInv, UNCHANGED <<env, log, tgt, chk, alert, hist>>, Bounds',
         obs' = <<>>, due' = {}, phase' \notin {"probing", "insert", "alerts"},
         Undisturbed' => Undisturbed /\ (phase # "alerts" \/ obs = <<>>)
  PROVE  WatchInv'
  <1> USE DEF WatchInv
  <1>1. Rows' /\ Facts'
    BY DEF Rows, Facts
  <1>2. Backs'
    <2> SUFFICES ASSUME Undisturbed', NEW a \in Accounts
                 PROVE  Streaks(chk[a], alert[a], hist[a])
      BY DEF Backs
    <2>1. Undisturbed /\ (phase # "alerts" \/ Of(a, "probe") = {})
      BY EmptyIsObserved DEF Of
    <2> QED
      BY <2>1 DEF Backs
  <1>3. Idles' /\ Chosen'
    BY DEF Idles, Chosen
  <1>4. Observing'
    BY EmptyIsObserved DEF Observing
  <1> QED
    BY <1>1, <1>2, <1>3, <1>4

\* The probes go on.
LEMMA ProbingKeeps ==
  ASSUME WatchInv, UNCHANGED <<env, log, tgt, chk, alert, hist, obs, due, phase>>, Bounds',
         Undisturbed' => Undisturbed
  PROVE  WatchInv'
  <1> USE DEF WatchInv
  <1>0. Present' = Present
    BY DEF Present
  <1>1. Rows' /\ Facts'
    BY DEF Rows, Facts
  <1>2. Backs'
    BY DEF Backs, Of
  <1>3. Idles'
    BY DEF Idles
  <1>4. Chosen'
    BY <1>0 DEF Chosen, Synchronised
  <1>5. Observing'
    BY <1>0 DEF Observing, Observable, Synchronised
  <1> QED
    BY <1>1, <1>2, <1>3, <1>4, <1>5

\* An evaluation that fails is lost.
LEMMA LossKeeps ==
  ASSUME WatchInv, env \in DOMAIN Environments, EvaluateFails
  PROVE  WatchInv'
  <1> USE DEF WatchInv
  <1>0. /\ phase = "alerts" /\ phase' = phase /\ obs # <<>> /\ obs' = Tail(obs) /\ Fault
        /\ UNCHANGED <<env, log, tgt, chk, alert, hist, due>>
    BY DEF EvaluateFails
  <1>1. Present' = Present /\ Bounds' /\ ~Undisturbed'
    BY <1>0, DisturbanceCounts DEF Present
  <1>2. Rows' /\ Facts'
    BY <1>0 DEF Rows, Facts
  <1>3. Idles' /\ Backs'
    BY <1>0, <1>1 DEF Idles, Backs
  <1>4. Chosen'
    BY <1>0, <1>1 DEF Chosen, Synchronised
  <1>5. /\ obs' \in Seq(Seen) /\ Distinct(obs') /\ ToSet(obs') \subseteq ToSet(obs)
    BY <1>0, TailIsDistinct DEF Observing
  <1>6. \A o \in ToSet(obs) : Observable(o)'
    BY <1>0, <1>1 DEF Observing, Observable, Synchronised
  <1>7. Observing'
    BY <1>5, <1>6 DEF Observing
  <1> QED
    BY <1>1, <1>2, <1>3, <1>4, <1>7

\* The accounts are synchronised, and what is observed and chosen is so.
LEMMA LoadWatches ==
  ASSUME CycleInv, WatchInv, Load
  PROVE  WatchInv'
  <1> DEFINE views == [a \in Present |-> View(a)]
             O == ObservedIn(views)
             v(a) == Snapshot(log[a], tgt[a], chk[a], alert[a])
  <1>1. /\ phase = "idle" /\ phase' = "probing" /\ UNCHANGED <<env, log, chk, alert, hist, ended>>
        /\ due' = Probed(views) /\ obs' = SetToSeq(O)
        /\ tgt' = [a \in Accounts |->
                     IF a \in Present THEN Synced(log[a], tgt[a], views[a]) ELSE tgt[a]]
    BY DEF Load, LoadFrom
  <1>2. /\ Rows /\ Facts /\ Bounds /\ Backs /\ Present \subseteq Accounts /\ Present' = Present
        /\ IsFiniteSet(Present)
    BY <1>1, EnvironmentBounds, DueIsFinite DEF WatchInv, CycleInv, Present
  <1>3. DOMAIN views = Present /\ \A a \in Present : views[a] = v(a)
    BY DEF View
  <1>4. IsFiniteSet(O)
    BY <1>2, <1>3, ObservedIsFinite
  <1>5. due' = {a \in Present : log[a].on /\ ToProbe(v(a))}
    BY <1>1, <1>3 DEF Probed
  <1>6. \A o \in O : \E a \in Present : /\ log[a].on /\ ToObserve(v(a))
                                     /\ o = Observation(a, Evidence(v(a)))
    BY <1>3 DEF ObservedIn
  <1>7. \A a \in Present : tgt'[a] = Synced(log[a], tgt[a], v(a))
    BY <1>1, <1>2, <1>3
  <1>8. \A a \in Accounts \ Present : tgt'[a] = tgt[a]
    BY <1>1
  <1> HIDE DEF views, O
  <1>9. ASSUME NEW a \in Accounts
        PROVE  /\ log[a] \in LogRow /\ tgt[a] \in TargetRow /\ chk[a] \in CheckRow
               /\ alert[a] \in AlertRow /\ hist[a] \in HistoryRow
               /\ AccountInv(log[a], tgt[a], chk[a], alert[a], hist[a])
    BY <1>2 DEF Rows, Facts
  <1>10. ASSUME NEW a \in Accounts
         PROVE  /\ tgt'[a] \in TargetRow
                /\ AccountInv(log[a], tgt'[a], chk[a], alert[a], hist[a])
                /\ a \in Present /\ log[a].on => Synchronised(a)'
    <2>1. CASE a \in Present
      <3>1. /\ tgt'[a] \in TargetRow
            /\ AccountInv(log[a], tgt'[a], chk[a], alert[a], hist[a])
            /\ log[a].on => InSync(log[a], tgt'[a]) /\ tgt'[a].active
        BY <1>7, <1>9, <2>1, SyncKeeps
      <3> QED
        BY <1>1, <3>1 DEF Synchronised, InSync
    <2>2. CASE a \notin Present
      BY <1>8, <1>9, <2>2
    <2> QED
      BY <2>1, <2>2
  <1>11. Rows' /\ Facts'
    <2>1. tgt' \in [Accounts -> TargetRow]
      BY <1>1, <1>10
    <2> QED
      BY <1>1, <1>2, <1>10, <2>1 DEF Rows, Facts
  <1>12. Bounds' /\ Undisturbed' = Undisturbed
    BY <1>1, <1>2 DEF Bounds, Undisturbed
  <1>13. Undisturbed => \A a \in Accounts : Streaks(chk[a], alert[a], hist[a])
    BY <1>1, <1>2 DEF Backs
  <1>14. Backs' /\ Idles'
    BY <1>1, <1>12, <1>13 DEF Backs, Idles
  <1>15. ASSUME NEW a \in due'
         PROVE  /\ a \in Present /\ Evidence(v(a)).source # "history" /\ Synchronised(a)'
                /\ OpenError(log[a], chk[a], hist[a]) /\ Rested(chk[a], hist[a])
                /\ Undisturbed => BackedOff(chk[a], hist[a])
    <2>1. a \in Present /\ a \in Accounts /\ log[a].on /\ ToProbe(v(a))
      BY <1>2, <1>5, <1>15
    <2>2. /\ Evidence(v(a)).source # "history"
          /\ OpenError(log[a], chk[a], hist[a]) /\ Rested(chk[a], hist[a])
          /\ Streaks(chk[a], alert[a], hist[a]) => BackedOff(chk[a], hist[a])
      BY <1>9, <2>1, ProbeIsEarned
    <2> QED
      BY <1>10, <1>13, <2>1, <2>2
  <1>16. Chosen'
    BY <1>1, <1>2, <1>12, <1>15 DEF Chosen
  <1>17. ASSUME NEW o \in O
         PROVE  o \in Seen /\ Observable(o)'
    <2>1. PICK a \in Present : /\ log[a].on /\ ToObserve(v(a))
                              /\ o = Observation(a, Evidence(v(a)))
      BY <1>6
    <2> DEFINE e == Evidence(v(a))
    <2>2. /\ e.source = "history" =>
               /\ e.at = log[a].act
               /\ e.status = (IF log[a].slow THEN "degraded" ELSE "operational")
               /\ e.status = "operational" => Real(log[a], chk[a], hist[a])
          /\ e.source = "request_error" =>
               /\ e.at = v(a).err /\ e.status = "failed"
               /\ NewError(v(a)) => v(a).err > hist[a].counted
      BY <1>2, <1>9, EvidenceFacts
    <2>3. e.source = "history" \/ (e.source = "request_error" /\ NewError(v(a)))
      BY <2>1 DEF ToObserve, NewRequest, NewError
    <2>4. log[a].act \in Stamp /\ v(a).err \in Stamp
      BY <1>2, <1>9, ErrorFacts DEF LogRow
    <2>5. o.job = a /\ o.source = e.source /\ o.status = e.status /\ o.at = e.at
      BY <2>1 DEF Observation
    <2>6. o = [job |-> a, source |-> e.source, status |-> e.status, at |-> e.at]
      BY <2>1 DEF Observation
    <2>7. e.source = "history" => a \notin due'
      BY <1>15
    <2>8. Synchronised(a)' /\ a \in Accounts
      BY <1>2, <1>10, <2>1
    <2> HIDE DEF e
    <2>9. e.source \in Sources /\ e.status \in ProbeStatus /\ e.at \in Stamp
      BY <2>2, <2>3, <2>4 DEF Sources, ProbeStatus
    <2>10. o \in Seen
      BY <2>6, <2>8, <2>9 DEF Seen
    <2>11. o.source = "history" =>
             /\ Successful(o.status) /\ o.job \notin due'
             /\ o.status = "operational" => Real(log[o.job], chk[o.job], hist[o.job])
      BY <2>2, <2>5, <2>7 DEF Successful
    <2>12. o.source = "request_error" => o.status = "failed" /\ o.at > hist[o.job].counted
      BY <2>2, <2>3, <2>5
    <2>13. o.source # "probe"
      BY <2>3, <2>5
    <2> QED
      BY <1>1, <1>2, <2>1, <2>5, <2>8, <2>10, <2>11, <2>12, <2>13 DEF Observable
  <1>18. \A o, p \in O : o.job = p.job /\ o.source = p.source => o = p
    <2> SUFFICES ASSUME NEW o \in O, NEW p \in O, o.job = p.job
                 PROVE  o = p
      OBVIOUS
    <2>1. PICK a \in Present : o = Observation(a, Evidence(v(a)))
      BY <1>6
    <2>2. PICK b \in Present : p = Observation(b, Evidence(v(b)))
      BY <1>6
    <2>3. a = b
      BY <2>1, <2>2 DEF Observation
    <2> QED
      BY <2>1, <2>2, <2>3
  <1>19. obs' \in Seq(O) /\ ToSet(obs') = O /\ Distinct(obs')
    BY <1>1, <1>4, <1>18, SetToSeqLists, ListIsDistinct
  <1>20. obs' \in Seq(Seen)
    <2>1. O \subseteq Seen
      BY <1>17
    <2> QED
      BY <1>19, <2>1
  <1>21. Observing'
    BY <1>17, <1>19, <1>20 DEF Observing
  <1> QED
    BY <1>11, <1>12, <1>14, <1>16, <1>21 DEF WatchInv

\* The results of the probes are observations, one of each account.
LEMMA CollectWatches ==
  ASSUME CycleInv, WatchInv, Apart, ProbesEnd
  PROVE  WatchInv'
  <1> USE DEF WatchInv
  <1> DEFINE R == {ProbeResult(r) : r \in answers}
  <1>1. /\ phase = "probing" /\ Drained
        /\ UNCHANGED <<env, log, tgt, chk, alert, hist, ended>>
    BY DEF ProbesEnd
  <1>2. Bounds' /\ Undisturbed' = Undisturbed /\ Present' = Present
    BY <1>1 DEF Bounds, Undisturbed, Present
  <1>3. CASE canceled
    <2>1. obs' = <<>> /\ due' = {} /\ phase' = "down"
      BY <1>3 DEF ProbesEnd
    <2> QED
      BY <1>1, <1>2, <2>1, NoCycleKeeps
  <1>4. CASE ~canceled
    <2>1. obs' = obs \o SetToSeq(R) /\ phase' = "insert" /\ due' = due
      BY <1>4 DEF ProbesEnd
    <2>2. JobsOf(answers) = due
      BY <1>1, <1>4, DueIsFinite, DrainedHasAll DEF CycleInv
    <2>3. SetToSeq(R) \in Seq(R) /\ ToSet(SetToSeq(R)) = R /\ IsFiniteSet(R)
      BY ResultsAreFinite, SetToSeqLists DEF CycleInv, PoolShape
    <2>4. answers \subseteq Result
      BY DEF CycleInv, PoolShape, PoolTypeOK
    <2>5. ASSUME NEW o \in R
          PROVE  o \in Seen /\ o.job \in due /\ o.source = "probe" /\ o.at = Now
      <3>1. PICK r \in answers : o = ProbeResult(r)
        OBVIOUS
      <3>2. r.job \in Accounts /\ r.found \in ProbeStatus /\ r.job \in due
        BY <2>2, <2>4 DEF Result, JobsOf
      <3> QED
        BY <3>1, <3>2, StampsAreInts DEF ProbeResult, Seen, Sources
    <2>6. \A o, p \in R : o.job = p.job => o = p
      BY DEF Apart, ProbeResult
    <2> HIDE DEF R
    <2>7. Distinct(SetToSeq(R))
      BY <2>3, <2>6, ListIsDistinct
    <2>8. obs \in Seq(Seen) /\ Distinct(obs) /\ \A o \in ToSet(obs) : o.source # "probe"
      BY <1>1 DEF Observing, CycleInv
    <2>9. SetToSeq(R) \in Seq(Seen)
      <3>1. R \subseteq Seen
        BY <2>5
      <3> QED
        BY <2>3, <3>1
    <2>10. obs' \in Seq(Seen)
      BY <2>1, <2>8, <2>9
    <2>11. ToSet(obs') = ToSet(obs) \cup R
      BY <2>1, <2>3, <2>8, <2>9, ConcatHolds
    <2>12. Distinct(obs')
      <3>1. \A o \in ToSet(obs), r \in ToSet(SetToSeq(R)) : o.source # r.source
        BY <2>3, <2>5, <2>8
      <3> QED
        BY <2>1, <2>7, <2>8, <2>9, <3>1, ConcatIsDistinct
    <2>13. \A o \in ToSet(obs) : Observable(o)'
      BY <1>1, <1>2, <2>1, <2>8 DEF Observing, Observable, Synchronised
    <2>14. \A o \in R : Observable(o)'
      <3> SUFFICES ASSUME NEW o \in R
                   PROVE  Observable(o)'
        OBVIOUS
      <3>1. o.job \in due /\ o.source = "probe" /\ o.at = Now
        BY <2>5
      <3>2. o.job \in Present' /\ Synchronised(o.job)'
        BY <1>1, <1>2, <3>1 DEF Chosen, Synchronised
      <3> QED
        BY <2>1, <3>1, <3>2 DEF Observable
    <2>15. Observing'
      BY <2>10, <2>11, <2>12, <2>13, <2>14 DEF Observing
    <2>16. Rows' /\ Facts'
      BY <1>1 DEF Rows, Facts
    <2>17. Backs' /\ Idles'
      BY <1>1, <1>2, <2>1 DEF Backs, Idles
    <2>18. Chosen'
      BY <1>1, <1>2, <2>1 DEF Chosen, Synchronised
    <2> QED
      BY <1>2, <2>15, <2>16, <2>17, <2>18
  <1> QED
    BY <1>3, <1>4

\* What is observed of an account, one observation of a source at most.
LEMMA ObservedOf ==
  ASSUME Observing, NEW a
  PROVE  /\ \A source : /\ Of(a, source) \subseteq Seen /\ Of(a, source) \subseteq ToSet(obs)
                       /\ \A o, p \in Of(a, source) : o = p
         /\ \A source : \A o \in Of(a, source) : o.job = a /\ o.source = source /\ Observable(o)
         /\ phase # "probing" => Pending(a)
  <1>1. ToSet(obs) \subseteq Seen
    BY DEF Observing, ToSet
  <1>2. \A o, p \in ToSet(obs) : o.job = p.job /\ o.source = p.source => o = p
    BY DEF Observing, Distinct, ToSet
  <1>3. \A source : \A o \in Of(a, source) : o \in ToSet(obs) /\ o.job = a /\ o.source = source
    BY DEF Of
  <1>4. \A o \in ToSet(obs) : Observable(o)
    BY DEF Observing
  <1>5. \A source : /\ Of(a, source) \subseteq Seen /\ Of(a, source) \subseteq ToSet(obs)
                   /\ \A o, p \in Of(a, source) : o = p
    BY <1>1, <1>2, <1>3
  <1>6. \A source : Of(a, source) # {} => Synchronised(a)
    BY <1>3, <1>4 DEF Observable
  <1>7. ASSUME NEW o \in Of(a, "history")
        PROVE  a \notin due
    <2>1. o.job = a /\ o.source = "history" /\ Observable(o)
      BY <1>3, <1>4
    <2> QED
      BY <2>1 DEF Observable
  <1>8. \A o \in Of(a, "probe") : a \in due /\ o.at = Now
    BY <1>3, <1>4 DEF Observable
  <1>9. Pending(a)
    BY <1>5, <1>6, <1>7, <1>8 DEF Pending
  <1> QED
    BY <1>3, <1>4, <1>5, <1>9

\* The results are stored.
LEMMA InsertWatches ==
  ASSUME WatchInv, CycleInv, Insert
  PROVE  WatchInv'
  <1> USE DEF WatchInv
  <1>1. /\ phase = "insert" /\ phase' = "alerts"
        /\ UNCHANGED <<env, log, alert, due, obs, ended>>
        /\ tgt' = [a \in Accounts |-> Marked(tgt[a], a)]
        /\ chk' = [a \in Accounts |-> Checked(chk[a], Of(a, "probe"))]
        /\ hist' = [a \in Accounts |-> [hist[a] EXCEPT !.bad = FailingProbes(a)]]
    BY DEF Insert
  <1>2. /\ Bounds' /\ Undisturbed' = Undisturbed /\ Present' = Present /\ Present \subseteq Accounts
        /\ \A a, source : Of(a, source)' = Of(a, source)
    BY <1>1, EnvironmentBounds DEF Bounds, Undisturbed, Present, Of, CycleInv
  <1>3. ASSUME NEW a \in Accounts
        PROVE  /\ tgt'[a] \in TargetRow /\ chk'[a] \in CheckRow /\ hist'[a] \in HistoryRow
               /\ AccountInv(log[a], tgt'[a], chk'[a], alert[a], hist'[a])
               /\ Synchronised(a)' <=> Synchronised(a)
               /\ \A o \in Of(a, "request_error") : o.at <= tgt'[a].obsErr
               /\ \A o \in Of(a, "probe") : chk'[a] = [at |-> Now, status |-> o.status]
               /\ Of(a, "probe") = {} => chk'[a] = chk[a]
               /\ hist'[a].changed = hist[a].changed /\ hist'[a].counted = hist[a].counted
               /\ Streaks(chk[a], alert[a], hist[a]) =>
                    IF Of(a, "probe") = {} THEN Streaks(chk'[a], alert[a], hist'[a])
                    ELSE Soon(alert[a], hist'[a])
    <2>1. Account(a) /\ Pending(a)
      BY <1>1, AccountOf, ObservedOf
    <2>2. /\ tgt'[a] = Marked(tgt[a], a) /\ chk'[a] = Checked(chk[a], Of(a, "probe"))
          /\ hist'[a] = [hist[a] EXCEPT !.bad = FailingProbes(a)]
      BY <1>1
    <2>3. /\ tgt'[a] \in TargetRow /\ chk'[a] \in CheckRow /\ hist'[a] \in HistoryRow
          /\ AccountInv(log[a], tgt'[a], chk'[a], alert[a], hist'[a])
          /\ InSync(log[a], tgt'[a]) <=> InSync(log[a], tgt[a])
          /\ tgt'[a].active = tgt[a].active
          /\ \A o \in Of(a, "request_error") : o.at <= tgt'[a].obsErr
          /\ \A o \in Of(a, "probe") : chk'[a] = [at |-> Now, status |-> o.status]
          /\ Of(a, "probe") = {} => chk'[a] = chk[a]
          /\ hist'[a].changed = hist[a].changed /\ hist'[a].counted = hist[a].counted
          /\ Streaks(chk[a], alert[a], hist[a]) =>
               IF Of(a, "probe") = {} THEN Streaks(chk'[a], alert[a], hist'[a])
               ELSE Soon(alert[a], hist'[a])
      BY <2>1, <2>2, StoringKeeps
    <2>4. Synchronised(a)' <=> Synchronised(a)
      BY <1>1, <2>3 DEF Synchronised, InSync
    <2> QED
      BY <2>3, <2>4
  <1>4. Rows' /\ Facts'
    <2>1. tgt' \in [Accounts -> TargetRow] /\ chk' \in [Accounts -> CheckRow]
          /\ hist' \in [Accounts -> HistoryRow]
      BY <1>1, <1>3
    <2> QED
      BY <1>1, <1>3, <2>1 DEF Rows, Facts
  <1>5. Backs'
    <2> SUFFICES ASSUME Undisturbed, NEW a \in Accounts
                 PROVE  IF Of(a, "probe") # {} THEN Soon(alert[a], hist'[a])
                        ELSE Streaks(chk'[a], alert[a], hist'[a])
      BY <1>1, <1>2 DEF Backs
    <2>1. Streaks(chk[a], alert[a], hist[a])
      BY <1>1 DEF Backs
    <2> QED
      BY <1>3, <2>1
  <1>6. Idles'
    BY <1>1 DEF Idles
  <1>7. Chosen'
    BY <1>1, <1>2, <1>3 DEF Chosen
  <1>8. ASSUME NEW o \in ToSet(obs)
        PROVE  Observable(o)'
    <2> DEFINE a == o.job
    <2>1. Observable(o) /\ o \in Of(a, o.source) /\ a \in Accounts
      BY <1>2 DEF Observing, Observable, Of
    <2>2. o.job \in Present' /\ Synchronised(o.job)'
      BY <1>2, <1>3, <2>1 DEF Observable
    <2>3. CASE o.source = "history"
      <3>1. Of(a, "probe") = {}
        BY <1>1, <2>1, <2>3, ObservedOf DEF Pending
      <3>2. chk'[a] = chk[a] /\ hist'[a].changed = hist[a].changed
        BY <1>3, <2>1, <3>1
      <3>3. o.status = "operational" => Real(log[a], chk'[a], hist'[a])
        BY <2>1, <2>3, <3>2 DEF Observable, Real
      <3> QED
        BY <1>1, <2>1, <2>2, <2>3, <3>3 DEF Observable
    <2>4. CASE o.source = "request_error"
      BY <1>1, <1>3, <2>1, <2>2, <2>4 DEF Observable
    <2>5. CASE o.source = "probe"
      BY <1>1, <1>3, <2>1, <2>2, <2>5 DEF Observable
    <2>6. o.source \in Sources
      BY <2>1, ObservedOf DEF Seen
    <2> QED
      BY <2>3, <2>4, <2>5, <2>6 DEF Sources
  <1>9. Observing'
    BY <1>1, <1>8 DEF Observing
  <1> QED
    BY <1>2, <1>4, <1>5, <1>6, <1>7, <1>9

\* The first observation is evaluated.
LEMMA EvaluateWatches ==
  ASSUME WatchInv, CycleInv, Evaluate
  PROVE  WatchInv'
  <1> USE DEF WatchInv
  <1> DEFINE o == Head(obs)
             a == o.job
             s2 == Observe(Basis(a), o.status)
             h2 == Recount(hist[a], o)
  <1>1. /\ phase = "alerts" /\ phase' = "alerts" /\ obs # <<>> /\ obs' = Tail(obs)
        /\ UNCHANGED <<env, log, tgt, chk, due, ended>>
        /\ alert' = [alert EXCEPT ![a] = s2] /\ hist' = [hist EXCEPT ![a] = h2]
    BY DEF Evaluate, EvaluateFirst
  <1>2. /\ o \in Seen /\ Tail(obs) \in Seq(Seen) /\ Distinct(Tail(obs))
        /\ ToSet(obs) = {o} \cup ToSet(Tail(obs))
        /\ \A x \in ToSet(Tail(obs)) : ~(x.job = o.job /\ x.source = o.source)
    BY <1>1, TailIsDistinct DEF Observing
  <1>3. Observable(o) /\ a \in Accounts /\ Account(a) /\ Synchronised(a)
    BY <1>2, AccountOf DEF Observing, Observable, Seen
  <1>4. /\ o.source = "history" => Successful(o.status)
        /\ o.source = "request_error" =>
             o.status = "failed" /\ o.at > hist[a].counted /\ o.at <= tgt[a].obsErr
        /\ o.source = "probe" => chk[a].status = o.status
    BY <1>1, <1>3 DEF Observable
  <1>5. /\ s2 \in AlertRow /\ h2 \in HistoryRow
        /\ AccountInv(log[a], tgt[a], chk[a], s2, h2)
        /\ Streaks(chk[a], alert[a], hist[a]) => Streaks(chk[a], s2, h2)
        /\ Soon(alert[a], hist[a]) => Soon(s2, h2)
        /\ o.source = "probe" /\ Soon(alert[a], hist[a]) => Streaks(chk[a], s2, h2)
        /\ h2.changed = hist[a].changed
        /\ h2.counted = IF o.source = "request_error" THEN Larger(hist[a].counted, o.at)
                        ELSE hist[a].counted
    BY <1>2, <1>3, <1>4, ObservationKeeps
  <1>6. /\ alert'[a] = s2 /\ hist'[a] = h2
        /\ \A b \in Accounts : b # a => alert'[b] = alert[b] /\ hist'[b] = hist[b]
        /\ alert' \in [Accounts -> AlertRow] /\ hist' \in [Accounts -> HistoryRow]
    BY <1>1, <1>3, <1>5 DEF Rows
  <1>7. /\ Bounds' /\ Undisturbed' = Undisturbed /\ Present' = Present
        /\ \A b \in Accounts : Synchronised(b)' <=> Synchronised(b)
    BY <1>1 DEF Bounds, Undisturbed, Present, Synchronised
  <1>8. \A b, source : Of(b, source)' = IF b = a /\ source = o.source THEN {} ELSE Of(b, source)
    <2> SUFFICES ASSUME NEW b, NEW source
                 PROVE  Of(b, source)' = IF b = a /\ source = o.source THEN {} ELSE Of(b, source)
      OBVIOUS
    <2>1. Of(b, source)' = {x \in ToSet(Tail(obs)) : x.job = b /\ x.source = source}
      BY <1>1 DEF Of
    <2> QED
      BY <1>2, <2>1 DEF Of
  <1> HIDE DEF o, s2, h2
  <1>9. Rows'
    BY <1>1, <1>6 DEF Rows
  <1>10. Facts'
    <2> SUFFICES ASSUME NEW b \in Accounts
                 PROVE  AccountInv(log[b], tgt[b], chk[b], alert'[b], hist'[b])
      BY <1>1 DEF Facts
    <2> QED
      BY <1>5, <1>6 DEF Facts
  <1>11. Backs'
    <2> SUFFICES ASSUME Undisturbed, NEW b \in Accounts
                 PROVE  IF Of(b, "probe")' # {} THEN Soon(alert'[b], hist'[b])
                        ELSE Streaks(chk[b], alert'[b], hist'[b])
      BY <1>1, <1>7 DEF Backs
    <2>1. IF Of(b, "probe") # {} THEN Soon(alert[b], hist[b])
          ELSE Streaks(chk[b], alert[b], hist[b])
      BY <1>1 DEF Backs
    <2>2. CASE b # a
      BY <1>6, <1>8, <2>1, <2>2
    <2>3. CASE b = a /\ o.source = "probe"
      <3>1. o \in Of(a, "probe")
        BY <1>2, <2>3 DEF Of
      <3>2. Soon(alert[a], hist[a])
        BY <2>1, <2>3, <3>1
      <3>3. Of(b, "probe")' = {}
        BY <1>8, <2>3
      <3> QED
        BY <1>5, <1>6, <2>3, <3>2, <3>3
    <2>4. CASE b = a /\ o.source # "probe"
      <3>1. Of(b, "probe")' = Of(b, "probe")
        BY <1>8, <2>4
      <3> QED
        BY <1>5, <1>6, <2>1, <2>4, <3>1
    <2> QED
      BY <2>2, <2>3, <2>4
  <1>12. Idles'
    BY <1>1 DEF Idles
  <1>13. Chosen'
    <2>1. due \subseteq Accounts
      BY EnvironmentBounds DEF Chosen, CycleInv
    <2> QED
      BY <1>1, <1>7, <2>1 DEF Chosen
  <1>14. ASSUME NEW x \in ToSet(Tail(obs))
         PROVE  Observable(x)'
    <2>0. Observable(x) /\ x \in Seen
      <3>1. x \in ToSet(obs)
        BY <1>2
      <3> QED
        BY <3>1 DEF Observing, ToSet
    <2>1. Observable(x) /\ x.job \in Accounts /\ x.source \in Sources
      BY <2>0 DEF Seen
    <2>2. /\ hist'[x.job].changed = hist[x.job].changed
          /\ x.source = "request_error" => hist'[x.job].counted = hist[x.job].counted
      BY <1>2, <1>5, <1>6, <2>1
    <2>3. x.job \in Present' /\ Synchronised(x.job)'
      BY <1>7, <2>1 DEF Observable
    <2>4. x.source = "history" /\ x.status = "operational" =>
            Real(log[x.job], chk[x.job], hist'[x.job])
      BY <2>1, <2>2 DEF Observable, Real
    <2> QED
      BY <1>1, <2>1, <2>2, <2>3, <2>4 DEF Observable
  <1>15. Observing'
    BY <1>1, <1>2, <1>14 DEF Observing
  <1> QED
    BY <1>7, <1>9, <1>10, <1>11, <1>12, <1>13, <1>15

\* The stamps of an account are as many as Age can keep apart.
LEMMA StampsAge ==
  ASSUME NEW a, RowsOf(a)
  PROVE  Faithful(StampsOf(a), Age(StampsOf(a)))
  <1> DEFINE q == <<log[a].act, log[a].err, log[a].upd, tgt[a].act, tgt[a].err, tgt[a].resolved,
                    tgt[a].obsAct, tgt[a].obsErr, tgt[a].src, chk[a].at, alert[a].at,
                    hist[a].changed, hist[a].counted>>
             u == [i \in 1..13 |-> q[i]]
  <1>1. /\ log[a].act \in Stamp /\ log[a].err \in Stamp /\ log[a].upd \in Stamp
        /\ tgt[a].act \in Stamp /\ tgt[a].err \in Stamp /\ tgt[a].resolved \in Stamp
        /\ tgt[a].obsAct \in Stamp /\ tgt[a].obsErr \in Stamp /\ tgt[a].src \in Stamp
        /\ chk[a].at \in Stamp /\ alert[a].at \in Stamp
        /\ hist[a].changed \in Stamp /\ hist[a].counted \in Stamp
    BY DEF RowsOf, LogRow, TargetRow, CheckRow, AlertRow, HistoryRow
  <1>3. /\ q[1] = log[a].act /\ q[2] = log[a].err /\ q[3] = log[a].upd /\ q[4] = tgt[a].act
        /\ q[5] = tgt[a].err /\ q[6] = tgt[a].resolved /\ q[7] = tgt[a].obsAct
        /\ q[8] = tgt[a].obsErr /\ q[9] = tgt[a].src /\ q[10] = chk[a].at /\ q[11] = alert[a].at
        /\ q[12] = hist[a].changed /\ q[13] = hist[a].counted
    OBVIOUS
  <1> HIDE DEF q
  <1>5. \A i \in 1..13 : i \in {1, 2, 3, 4, 5, 6, 7, 8, 9, 10, 11, 12, 13}
    OBVIOUS
  <1>4. u \in [1..13 -> Stamp] /\ \A i \in 1..13 : u[i] = q[i]
    <2>1. \A i \in 1..13 : q[i] \in Stamp
      BY <1>1, <1>3, <1>5
    <2> QED
      BY <2>1
  <1> HIDE DEF u
  <1>6. Thirteen(u) = {u[1], u[2], u[3], u[4], u[5], u[6], u[7], u[8], u[9], u[10], u[11],
                       u[12], u[13]}
    BY <1>5 DEF Thirteen
  <1>7. Thirteen(u) = StampsOf(a)
    BY <1>3, <1>4, <1>6 DEF StampsOf
  <1> QED
    BY <1>4, <1>7, AgeIsFaithful

\* An interval passes.
LEMMA TickWatches ==
  ASSUME WatchInv, CycleInv, Tick
  PROVE  WatchInv'
  <1> USE DEF WatchInv
  <1>1. /\ phase = "rest" /\ phase' = "idle" /\ UNCHANGED <<env, due, obs, ended>>
    BY DEF Tick
  <1>2. PICK kinds \in [Accounts -> Environments[env].traffic \cup {Nothing}] :
          /\ \A a \in Accounts : kinds[a] \in Kinds(a)
          /\ Pass(kinds, [a \in Accounts |-> Age(StampsOf(a))])
    BY DEF Tick
  <1> DEFINE ages == [a \in Accounts |-> Age(StampsOf(a))]
  <1>3. /\ log' = [a \in Accounts |-> LogAfter(log[a], ages[a], kinds[a])]
        /\ tgt' = [a \in Accounts |-> TargetAfter(tgt[a], ages[a])]
        /\ chk' = [a \in Accounts |-> [chk[a] EXCEPT !.at = ages[a][@]]]
        /\ alert' = [a \in Accounts |-> [alert[a] EXCEPT !.at = ages[a][@]]]
        /\ hist' = [a \in Accounts |-> HistoryAfter(hist[a], ages[a], kinds[a])]
    BY <1>2 DEF Pass
  <1>4. \A a \in Accounts : ages[a] = Age(StampsOf(a))
    OBVIOUS
  <1> HIDE DEF ages
  <1>5. ASSUME NEW a \in Accounts
        PROVE  /\ kinds[a] \in Traffic
               /\ kinds[a].change \/ kinds[a].switch => kinds[a].upd > 0
               /\ log[a].on \/ (kinds[a].ok = 0 /\ kinds[a].err = 0 /\ ~kinds[a].change)
               /\ kinds[a].change => ~tgt[a].here \/ tgt[a].identity = log[a].identity
    <2>1. Environment(Environments[env])
      BY CycleAssumption DEF CycleInv
    <2>2. kinds[a] \in Kinds(a)
      BY <1>2
    <2>3. CASE kinds[a] = Nothing
      <3>1. 0 \in 0..Interval - 1
        BY Settings
      <3> QED
        BY <2>3, <3>1 DEF Nothing, Traffic
    <2>4. CASE kinds[a] # Nothing
      <3>1. kinds[a] \in Environments[env].traffic /\ Possible(a, kinds[a])
        BY <2>2, <2>4 DEF Kinds
      <3>2. /\ kinds[a] \in Traffic
            /\ kinds[a].change \/ kinds[a].switch => kinds[a].upd > 0
        BY <2>1, <3>1 DEF Environment
      <3> QED
        BY <3>1, <3>2 DEF Possible
    <2> QED
      BY <2>3, <2>4
  <1>6. ASSUME NEW a \in Accounts
        PROVE  /\ log'[a] \in LogRow /\ tgt'[a] \in TargetRow /\ chk'[a] \in CheckRow
               /\ alert'[a] \in AlertRow /\ hist'[a] \in HistoryRow
               /\ AccountInv(log'[a], tgt'[a], chk'[a], alert'[a], hist'[a])
               /\ Streaks(chk[a], alert[a], hist[a]) => Streaks(chk'[a], alert'[a], hist'[a])
    <2>1. /\ RowsOf(a) /\ AccountInv(log[a], tgt[a], chk[a], alert[a], hist[a])
      BY AccountOf DEF Account
    <2>2. /\ log[a] \in LogRow /\ tgt[a] \in TargetRow /\ chk[a] \in CheckRow
          /\ alert[a] \in AlertRow /\ hist[a] \in HistoryRow
      BY <2>1 DEF RowsOf
    <2>3. Faithful(StampsOf(a), ages[a])
      BY <1>4, <2>1, StampsAge
    <2>4. {log[a].act, log[a].err, log[a].upd, tgt[a].act, tgt[a].err, tgt[a].resolved,
           tgt[a].obsAct, tgt[a].obsErr, tgt[a].src, chk[a].at, alert[a].at,
           hist[a].changed, hist[a].counted} \subseteq StampsOf(a)
      BY DEF StampsOf
    <2>5. /\ log'[a] = LogAfter(log[a], ages[a], kinds[a])
          /\ tgt'[a] = TargetAfter(tgt[a], ages[a])
          /\ chk'[a] = [chk[a] EXCEPT !.at = ages[a][@]]
          /\ alert'[a] = [alert[a] EXCEPT !.at = ages[a][@]]
          /\ hist'[a] = HistoryAfter(hist[a], ages[a], kinds[a])
      BY <1>3
    <2>6. /\ kinds[a] \in Traffic
          /\ kinds[a].change \/ kinds[a].switch => kinds[a].upd > 0
          /\ log[a].on \/ (kinds[a].ok = 0 /\ kinds[a].err = 0 /\ ~kinds[a].change)
          /\ kinds[a].change => ~tgt[a].here \/ tgt[a].identity = log[a].identity
      BY <1>5
    <2> DEFINE l == log[a]
               t == tgt[a]
               c == chk[a]
               s == alert[a]
               h == hist[a]
               l2 == log'[a]
               t2 == tgt'[a]
               c2 == chk'[a]
               s2 == alert'[a]
               h2 == hist'[a]
               k == kinds[a]
               S == StampsOf(a)
               age == ages[a]
    <2>7. /\ l2 = LogAfter(l, age, k) /\ t2 = TargetAfter(t, age) /\ c2 = [c EXCEPT !.at = age[@]]
          /\ s2 = [s EXCEPT !.at = age[@]] /\ h2 = HistoryAfter(h, age, k)
      BY <2>5
    <2>8. AccountInv(l, t, c, s, h)
      BY <2>1
    <2> HIDE DEF l, t, c, s, h, l2, t2, c2, s2, h2, k, S, age, WatchInv
    <2>9. /\ l2 \in LogRow /\ t2 \in TargetRow /\ c2 \in CheckRow /\ s2 \in AlertRow
          /\ h2 \in HistoryRow /\ AccountInv(l2, t2, c2, s2, h2)
          /\ Streaks(c, s, h) => Streaks(c2, s2, h2)
      <3>1. /\ l \in LogRow /\ t \in TargetRow /\ c \in CheckRow /\ s \in AlertRow
            /\ h \in HistoryRow /\ Faithful(S, age) /\ k \in Traffic
        BY <2>2, <2>3, <2>6 DEF l, t, c, s, h, S, age, k
      <3>2. {l.act, l.err, l.upd, t.act, t.err, t.resolved, t.obsAct, t.obsErr, t.src,
             c.at, s.at, h.changed, h.counted} \subseteq S
        BY <2>4 DEF l, t, c, s, h, S
      <3>3. /\ k.change \/ k.switch => k.upd > 0
            /\ l.on \/ (k.ok = 0 /\ k.err = 0 /\ ~k.change)
            /\ k.change => ~t.here \/ t.identity = l.identity
        BY <2>6 DEF k, l, t
      <3> QED
        BY <2>7, <2>8, <3>1, <3>2, <3>3, IntervalKeeps
    <2> QED
      BY <2>9 DEF l, t, c, s, h, l2, t2, c2, s2, h2
  <1>7. Rows' /\ Facts'
    <2>1. /\ log' \in [Accounts -> LogRow] /\ tgt' \in [Accounts -> TargetRow]
          /\ chk' \in [Accounts -> CheckRow] /\ alert' \in [Accounts -> AlertRow]
          /\ hist' \in [Accounts -> HistoryRow]
      BY <1>3, <1>6
    <2> QED
      BY <1>6, <2>1 DEF Rows, Facts
  <1>8. Bounds' /\ Undisturbed' = Undisturbed
    BY <1>1 DEF Bounds, Undisturbed
  <1>9. Backs'
    BY <1>1, <1>6, <1>8 DEF Backs
  <1>10. obs = <<>> /\ due = {}
    BY <1>1 DEF Idles
  <1>11. Idles' /\ Chosen' /\ Observing'
    BY <1>1, <1>10, EmptyIsObserved DEF Idles, Chosen, Observing
  <1> QED
    BY <1>7, <1>8, <1>9, <1>11

\* Every step keeps the invariant.
LEMMA NextKeepsApart == CycleInv /\ Apart /\ [Next]_vars => Apart'
  <1> SUFFICES ASSUME CycleInv, Apart, [Next]_vars
               PROVE  Apart'
    OBVIOUS
  <1>1. CASE UNCHANGED pool
    BY <1>1 DEF pool, Apart, Busy
  <1>2. CASE PoolRuns
    BY <1>2, PoolStepKeepsApart DEF PoolRuns, CycleInv
  <1>3. CASE NoPool
    <2>1. \A w \in Workers : worker'[w] \in {Ready, Gone}
      BY <1>3 DEF NoPool
    <2> QED
      BY <1>3, <2>1, FreshPoolIsApart DEF NoPool
  <1>4. CASE Load
    <2>1. PICK S : StartPool(S)
      BY <1>4 DEF Load, LoadFrom
    <2>2. \A w \in Workers : worker'[w] \in {Ready, Gone}
      BY <2>1 DEF StartPool
    <2>3. results' = {} /\ answers' = {}
      BY <2>1 DEF StartPool
    <2> QED
      BY <2>2, <2>3, FreshPoolIsApart
  <1> QED
    BY <1>1, <1>2, <1>3, <1>4
       DEF Next, vars, ProbesEnd, Insert, Evaluate, CycleEnds, LoadFails, InsertFails,
           EvaluateFails, Stop, Crash, Restart, Tick

LEMMA NextKeepsWatch == CycleInv /\ Apart /\ WatchInv /\ [Next]_vars => WatchInv'
  <1> SUFFICES ASSUME CycleInv, Apart, WatchInv, [Next]_vars
               PROVE  WatchInv'
    OBVIOUS
  <1>0. env \in DOMAIN Environments /\ Bounds
    BY DEF CycleInv, WatchInv
  <1>e. UNCHANGED <<env, ended>> => Bounds' /\ Undisturbed' = Undisturbed
    BY <1>0 DEF Bounds, Undisturbed
  <1>1. CASE Load
    BY <1>1, LoadWatches
  <1>2. CASE PoolRuns
    BY <1>2, <1>e, ProbingKeeps DEF PoolRuns
  <1>3. CASE ProbesEnd
    BY <1>3, CollectWatches
  <1>4. CASE Insert
    BY <1>4, InsertWatches
  <1>5. CASE Evaluate
    BY <1>5, EvaluateWatches
  <1>6. CASE CycleEnds
    <2>1. /\ UNCHANGED <<env, log, tgt, chk, alert, hist, ended>> /\ obs = <<>> /\ obs' = <<>>
          /\ due' = {} /\ phase' = "rest"
      BY <1>6 DEF CycleEnds
    <2> QED
      BY <1>e, <2>1, NoCycleKeeps
  <1>7. CASE LoadFails
    <2>1. /\ UNCHANGED <<env, log, tgt, chk, alert, hist>> /\ Fault
          /\ obs' = obs /\ due' = due /\ phase = "idle" /\ phase' = "rest"
      BY <1>7 DEF LoadFails
    <2>2. obs = <<>> /\ due = {}
      BY <2>1 DEF WatchInv, Idles
    <2> QED
      BY <1>0, <2>1, <2>2, DisturbanceCounts, NoCycleKeeps
  <1>8. CASE InsertFails
    <2>1. /\ UNCHANGED <<env, log, tgt, chk, alert, hist>> /\ Fault
          /\ obs' = <<>> /\ due' = {} /\ phase' = "rest"
      BY <1>8 DEF InsertFails
    <2> QED
      BY <1>0, <2>1, DisturbanceCounts, NoCycleKeeps
  <1>9. CASE EvaluateFails
    BY <1>0, <1>9, LossKeeps
  <1>10. CASE Stop
    <2>1. /\ UNCHANGED <<env, log, tgt, chk, alert, hist>> /\ Bounds' /\ ~Undisturbed'
      BY <1>0, <1>10, DisturbanceCounts DEF Stop
    <2>2. CASE phase = "probing"
      BY <1>10, <2>1, <2>2, ProbingKeeps DEF Stop
    <2>3. CASE phase # "probing"
      <3>1. obs' = <<>> /\ due' = {} /\ phase' = "down"
        BY <1>10, <2>3 DEF Stop
      <3> QED
        BY <2>1, <3>1, NoCycleKeeps
    <2> QED
      BY <2>2, <2>3
  <1>11. CASE Crash
    <2>1. /\ UNCHANGED <<env, log, tgt, chk, alert, hist>> /\ Bounds' /\ ~Undisturbed'
          /\ obs' = <<>> /\ due' = {} /\ phase' = "down"
      BY <1>0, <1>11, DisturbanceCounts DEF Crash
    <2> QED
      BY <2>1, NoCycleKeeps
  <1>12. CASE Restart
    <2>1. /\ UNCHANGED <<env, log, tgt, chk, alert, hist, ended>>
          /\ phase = "down" /\ phase' = "idle" /\ obs' = obs /\ due' = due
      BY <1>12 DEF Restart
    <2>2. obs = <<>> /\ due = {}
      BY <2>1 DEF WatchInv, Idles
    <2> QED
      BY <1>e, <2>1, <2>2, NoCycleKeeps
  <1>13. CASE Tick
    BY <1>13, TickWatches
  <1>14. CASE UNCHANGED vars
    <2>1. UNCHANGED <<env, log, tgt, chk, alert, due, obs, phase, hist, ended>>
      BY <1>14 DEF vars
    <2> QED
      BY <2>1 DEF WatchInv, Rows, Facts, Bounds, Backs, Undisturbed, Of, Idles, Observing,
                  Observable, Synchronised, Present, Chosen
  <1> QED
    BY <1>1, <1>2, <1>3, <1>4, <1>5, <1>6, <1>7, <1>8, <1>9, <1>10, <1>11, <1>12, <1>13, <1>14
    DEF Next

OnePhase ==
  phase \in {"idle", "probing", "insert", "alerts", "rest", "down"}

LEMMA PhaseIsOne == Spec => []OnePhase
  <1>1. Init => OnePhase
    BY DEF Init, OnePhase
  <1>2. OnePhase /\ [Next]_vars => OnePhase'
    BY DEF OnePhase, Next, vars, Load, PoolRuns, ProbesEnd, Insert, Evaluate, CycleEnds, LoadFails,
           InsertFails, EvaluateFails, Stop, Crash, Restart, Tick
  <1> QED
    BY <1>1, <1>2, PTL DEF Spec

LEMMA Watched == Spec => [](CycleInv /\ Apart /\ WatchInv)
  <1>1. Init => CycleInv /\ Apart /\ WatchInv
    <2>1. Init => Apart
      <3> SUFFICES ASSUME Init PROVE Apart
        OBVIOUS
      <3>1. Busy = {} /\ results \cup answers = {}
        BY DEF Init, PoolInit, Busy, Gone
      <3> QED
        BY <3>1 DEF Apart
    <2> QED
      BY <2>1, InitCycle, InitWatch
  <1>2. CycleInv /\ Apart /\ WatchInv /\ [Next]_vars => (CycleInv /\ Apart /\ WatchInv)'
    BY NextKeepsCycle, NextKeepsApart, NextKeepsWatch
  <1> QED
    BY <1>1, <1>2, PTL DEF Spec

\* Whatever the environments, every table, mark and counter keeps its type and its
\* bounds; a stamp that grows old stays above Never (Age).
THEOREM MonitorTypes == Spec => []TypeOK
  <1>1. CycleInv /\ WatchInv /\ OnePhase => TypeOK
    <2> SUFFICES ASSUME CycleInv, WatchInv, OnePhase
                 PROVE  TypeOK
      OBVIOUS
    <2>1. ASSUME NEW a \in Accounts
          PROVE  /\ {log[a].act, log[a].err, log[a].upd, tgt[a].act, tgt[a].err, tgt[a].resolved,
                    tgt[a].obsAct, tgt[a].obsErr, tgt[a].src, chk[a].at, alert[a].at}
                     \subseteq Never..Now
                 /\ log[a].identity \in 1..2 /\ tgt[a].identity \in 1..2
                 /\ {log[a].slow, log[a].on, tgt[a].here, tgt[a].active} \subseteq BOOLEAN
                 /\ chk[a].status \in ProbeStatus \cup {"none"}
                 /\ alert[a].alerted \in {"none", "failed", "operational"}
                 /\ alert[a].failures \in 0..MostFailures
                 /\ alert[a].recoveries \in 0..RecoveryThreshold
                 /\ hist[a].bad \in 0..Len(Tiers) /\ hist[a].fails \in 0..FailureThreshold
      <3>1. /\ log[a] \in LogRow /\ tgt[a] \in TargetRow /\ chk[a] \in CheckRow
            /\ alert[a] \in AlertRow /\ hist[a] \in HistoryRow
        BY DEF WatchInv, Rows
      <3>2. Stamp \subseteq Never..Now
        BY StampsAreInts, Settings
      <3>3. {log[a].act, log[a].err, log[a].upd, tgt[a].act, tgt[a].err, tgt[a].resolved,
             tgt[a].obsAct, tgt[a].obsErr, tgt[a].src, chk[a].at, alert[a].at} \subseteq Stamp
        BY <3>1 DEF LogRow, TargetRow, CheckRow, AlertRow
      <3>4. {log[a].slow, log[a].on, tgt[a].here, tgt[a].active} \subseteq BOOLEAN
        BY <3>1 DEF LogRow, TargetRow
      <3>5. log[a].identity \in 1..2 /\ tgt[a].identity \in 1..2
        BY <3>1 DEF LogRow, TargetRow
      <3>6. /\ chk[a].status \in ProbeStatus \cup {"none"}
            /\ alert[a].alerted \in {"none", "failed", "operational"}
            /\ alert[a].failures \in 0..MostFailures
            /\ alert[a].recoveries \in 0..RecoveryThreshold
            /\ hist[a].bad \in 0..Len(Tiers) /\ hist[a].fails \in 0..FailureThreshold
        BY <3>1 DEF CheckRow, AlertRow, HistoryRow
      <3> QED
        BY <3>2, <3>3, <3>4, <3>5, <3>6
    <2>2. \A i \in DOMAIN obs : obs[i].job \in Present /\ obs[i].source \in Sources
      <3> SUFFICES ASSUME NEW i \in DOMAIN obs
                   PROVE  obs[i].job \in Present /\ obs[i].source \in Sources
        OBVIOUS
      <3>1. obs[i] \in ToSet(obs) /\ obs \in Seq(Seen)
        BY DEF ToSet, WatchInv, Observing
      <3>2. obs[i] \in Seen /\ Observable(obs[i])
        BY <3>1 DEF WatchInv, Observing
      <3> QED
        BY <3>2 DEF Seen, Observable
    <2>3. /\ ended.faults \in 0..Environments[env].faults
          /\ ended.crashes \in 0..Environments[env].crashes
          /\ ended.stops \in 0..Environments[env].stops
      BY DEF WatchInv, Bounds
    <2> QED
      BY <2>1, <2>2, <2>3 DEF TypeOK, CycleInv, PoolShape, OnePhase
  <1> QED
    BY <1>1, Watched, PhaseIsOne, PTL

\* An account is probed only while a channel error is open, after the shortest
\* interval, and, unless the process or the database failed, after the interval that
\* its failing probes have earned: whatever was forgotten, aged or stored twice on the
\* way from the error log (newCycleBatch, probeEligible, probeDue).
THEOREM ProbesEarned == Spec => []ProbesAreEarned
  <1>1. WatchInv => ProbesAreEarned
    <2> SUFFICES ASSUME WatchInv, phase = "probing", NEW a \in due
                 PROVE  /\ Open(a)
                        /\ chk[a].at # Never =>
                             /\ Now - chk[a].at >= Tiers[1] \/ hist[a].changed > chk[a].at
                             /\ Undisturbed /\ hist[a].bad > 0 =>
                                  Now - chk[a].at >= Tier(hist[a].bad)
      BY DEF ProbesAreEarned, ProbesNeedError, ProbesBackOff
    <2>1. /\ OpenError(log[a], chk[a], hist[a]) /\ Rested(chk[a], hist[a])
          /\ Undisturbed => BackedOff(chk[a], hist[a])
      BY DEF WatchInv, Chosen
    <2> QED
      BY <2>1 DEF OpenError, Open, Rested, BackedOff
  <1> QED
    BY <1>1, Watched, PTL

\* What is told is new, earned and true, through changes of configuration, errors that
\* stay in the log, lost evaluations, restarts and the ageing of every mark
\* (EvaluateAlert, alertState.observe).
THEOREM AlertsReal == Spec => []AlertsAreReal
  <1>1. CycleInv /\ WatchInv => FailureToldOnce /\ FailureIsEarned /\ RecoveryIsReal
    <2> SUFFICES ASSUME CycleInv, WatchInv, NEW a \in Present, phase = "alerts", obs # <<>>,
                        Head(obs).job = a
                 PROVE  /\ Tells(Head(obs)) = "failed" =>
                             /\ hist[a].told # "failed" \/ hist[a].stale
                             /\ Recount(hist[a], Head(obs)).fails >= FailureThreshold
                        /\ Tells(Head(obs)) = "operational" =>
                             /\ Valid(LastSuccess(a), hist[a].changed)
                             /\ Now - log[a].err <= ErrorWindow => log[a].err < LastSuccess(a)
      BY DEF FailureToldOnce, FailureIsEarned, RecoveryIsReal, Telling
    <2> DEFINE o == Head(obs)
    <2>1. o \in Seen /\ o \in ToSet(obs)
      BY TailIsDistinct DEF WatchInv, Observing
    <2>2. Observable(o) /\ a = o.job /\ a \in Accounts
      BY <2>1, EnvironmentBounds DEF WatchInv, Observing, CycleInv
    <2>3. Account(a) /\ Synchronised(a)
      BY <2>2, AccountOf DEF WatchInv, Observable
    <2> HIDE DEF o
    <2>4. /\ o.source = "history" =>
               Successful(o.status) /\ (o.status = "operational" => Real(log[a], chk[a], hist[a]))
          /\ o.source = "request_error" =>
               o.status = "failed" /\ o.at > hist[a].counted /\ o.at <= tgt[a].obsErr
          /\ o.source = "probe" => chk[a] = [at |-> Now, status |-> o.status]
      BY <2>2 DEF Observable
    <2>5. o.source = "probe" => chk[a].status = o.status /\ chk[a].at = Now
      BY <2>4
    <2>6. Tells(o) = "failed" =>
            /\ hist[a].told # "failed" \/ hist[a].stale
            /\ Recount(hist[a], o).fails >= FailureThreshold
      BY <2>1, <2>2, <2>3, <2>4, <2>5, ObservationKeeps
    <2>7. Tells(o) = "operational" => o.status = "operational"
      <3>1. Tells(o) = "operational" => Heals(Basis(o.job), o.status)
        BY EventFacts DEF Tells
      <3> QED
        BY <3>1 DEF Heals
    <2>8. o.source \in {"history", "request_error", "probe"}
      BY <2>1 DEF Seen, Sources
    <2>9. o.status = "operational" => Real(log[a], chk[a], hist[a])
      <3> SUFFICES ASSUME o.source = "probe", o.status = "operational"
                   PROVE  Real(log[a], chk[a], hist[a])
        BY <2>4, <2>8
      <3>1. log[a] \in LogRow /\ hist[a] \in HistoryRow /\ log[a].err < Now /\ log[a].act < Now
        BY <2>3 DEF Account, RowsOf, AccountInv, Dated
      <3>2. log[a].err \in Stamp /\ log[a].act \in Stamp /\ hist[a].changed \in Stamp
        BY <3>1 DEF LogRow, HistoryRow
      <3>5. Now \in Int /\ Never \in Int /\ Never < Now /\ Grace \in Nat /\ Now # Never
        BY Settings
      <3>6. /\ log[a].err \in Int /\ log[a].act \in Int
            /\ hist[a].changed \in Int /\ hist[a].changed <= Now
        BY <3>2, StampsAreInts
      <3>3. LastOf(log[a], chk[a]) = Now
        BY <2>5, <3>1, <3>5, <3>6 DEF LastOf, Larger
      <3>4. Valid(Now, hist[a].changed)
        BY <3>5, <3>6 DEF Valid
      <3> QED
        BY <3>1, <3>3, <3>4 DEF Real
    <2>10. LastSuccess(a) = LastOf(log[a], chk[a])
      BY DEF LastSuccess, LastOf
    <2> QED
      BY <2>6, <2>7, <2>9, <2>10 DEF Real, o
  <1>2. FailureToldOnce /\ RecoveryFollowsFailure /\ FailureIsEarned /\ RecoveryIsReal
          => AlertsAreReal
    BY DEF AlertsAreReal, AlertsAlternate
  <1> QED
    BY <1>1, <1>2, Watched, RecoveriesFollow, PTL
=================================================================================
