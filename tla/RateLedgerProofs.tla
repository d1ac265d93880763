--------------------------- MODULE RateLedgerProofs ---------------------------
(* The ledger of the group worker counts every request once, for any groups,  *)
(* any length of the log, and any order of requests, saves and restarts.      *)
EXTENDS RateLedger, TLAPS

\* The bounds are numbers; GroupRates assumes it of its own.
Bounds == MaxRows \in Nat /\ MaxRate \in Nat

\* A step keeps the types.
LEMMA LedgerTypes ==
  ASSUME Bounds
  PROVE  TypeOK /\ [Next]_vars => TypeOK'
<1> SUFFICES ASSUME TypeOK, [Next]_vars PROVE TypeOK'
  OBVIOUS
<1> USE DEF TypeOK, Bounds
<1>1. CASE UNCHANGED vars
  BY <1>1 DEF vars
<1>2. CASE Next /\ Save
  <2>1. seen' \in [Groups -> [Ids -> Nat]]
    <3>1. seen' \in [Groups -> [Ids -> 0..1]]
      BY <1>2 DEF Save
    <3>2. \A g \in Groups : seen'[g] \in [Ids -> Nat]
      BY <3>1
    <3> QED
      BY <3>1, <3>2
  <2>2. from' \in [Groups -> Nat] /\ mark' \in [Groups -> Nat]
    BY <1>2 DEF Save
  <2>3. /\ alone' \in SUBSET Groups /\ intent' \in [Groups -> 0..MaxRate]
        /\ UNCHANGED <<log, rate>>
    BY <1>2 DEF Next, Save
  <2> QED
    BY <2>1, <2>2, <2>3
<1>3. ASSUME Next, NEW g \in Groups, Request(g) PROVE TypeOK'
  BY <1>3 DEF Next, Request
<1>4. ASSUME Next, NEW g \in Groups, Publish(g) \/ Inherit(g) PROVE TypeOK'
  <2>1. rate' \in [Groups -> Rates]
    <3>1. CASE Publish(g)
      <4>1. intent[g] \in Rates
        BY <3>1 DEF Publish, Rates
      <4> QED
        BY <3>1, <4>1 DEF Publish
    <3>2. CASE Inherit(g)
      BY <3>2 DEF Inherit
    <3> QED
      BY <1>4, <3>1, <3>2
  <2> QED
    BY <1>4, <2>1 DEF Next, Publish, Inherit
<1>5. CASE Next /\ UNCHANGED <<log, seen, from, mark, intent, rate>>
  BY <1>5 DEF Next
<1> QED
  BY <1>1, <1>2, <1>3, <1>4, <1>5 DEF Next

\* The types and the counts are inductive together.
LedgerInv == TypeOK /\ CountedOnce

\* The part of CountedOnce about one group.
Counted(g) ==
  /\ from[g] <= mark[g] /\ mark[g] <= Len(log)
  /\ \A i \in Ids :
       /\ seen[g][i] <= 1
       /\ seen[g][i] = 1 => i <= mark[g] /\ log[i] = g
       /\ i \in RowsOf(g, from[g], mark[g]) => seen[g][i] = 1

LEMMA CountedByGroup == CountedOnce <=> \A g \in Groups : Counted(g)
BY DEF CountedOnce, Counted

\* Before anything is logged nothing is counted.
LEMMA LedgerStarts ==
  ASSUME Bounds
  PROVE  Init => LedgerInv
<1> SUFFICES ASSUME Init PROVE LedgerInv
  OBVIOUS
<1>1. log \in Seq(Groups) /\ Len(log) = 0 /\ DOMAIN log = {}
  BY DEF Init
<1>2. Ids \subseteq Nat
  BY DEF Ids, Bounds
<1>3. ASSUME NEW g \in Groups PROVE Counted(g)
  <2>1. from[g] = 0 /\ mark[g] = 0 /\ \A i \in Ids : seen[g][i] = 0
    BY DEF Init
  <2>2. \A i \in Ids : i \notin RowsOf(g, from[g], mark[g])
    BY <1>1 DEF RowsOf
  <2> QED
    BY <1>1, <2>1, <2>2 DEF Counted
<1>4. TypeOK
  BY <1>1 DEF Init, TypeOK, Bounds
<1> QED
  BY <1>3, <1>4, CountedByGroup DEF LedgerInv

\* A longer log changes nothing about the requests before.
LEMMA RequestKeepsInv ==
  ASSUME Bounds, LedgerInv, NEW g \in Groups, Request(g)
  PROVE  CountedOnce'
<1>1. /\ log' \in Seq(Groups) /\ Len(log') = Len(log) + 1
      /\ \A i \in 1..Len(log) : log'[i] = log[i]
  BY DEF LedgerInv, TypeOK, Request
<1>2. DOMAIN log = 1..Len(log) /\ DOMAIN log' = 1..(Len(log) + 1) /\ Len(log) \in Nat
  BY <1>1 DEF LedgerInv, TypeOK
<1>3. ASSUME NEW h \in Groups PROVE Counted(h)'
  <2>1. Counted(h)
    BY CountedByGroup DEF LedgerInv, TypeOK
  <2>2. UNCHANGED <<seen, from, mark>> /\ mark[h] \in Nat /\ from[h] \in Nat
    BY DEF Request, LedgerInv, TypeOK
  <2>3. from'[h] <= mark'[h] /\ mark'[h] <= Len(log')
    BY <2>1, <2>2, <1>1, <1>2 DEF Counted
  <2>4. ASSUME NEW i \in Ids
        PROVE  /\ seen'[h][i] <= 1
               /\ seen'[h][i] = 1 => i <= mark'[h] /\ log'[i] = h
               /\ i \in RowsOf(h, from[h], mark[h])' => seen'[h][i] = 1
    <3>1. i \in Nat \ {0}
      BY DEF Ids, Bounds
    <3>2. i <= mark[h] => i \in 1..Len(log)
      BY <3>1, <2>1, <2>2, <1>2 DEF Counted
    <3>3. i \in RowsOf(h, from[h], mark[h])' => i \in RowsOf(h, from[h], mark[h])
      BY <3>1, <3>2, <2>2, <1>1, <1>2 DEF RowsOf
    <3> QED
      BY <3>2, <3>3, <2>1, <2>2, <1>1 DEF Counted
  <2> QED
    BY <2>3, <2>4 DEF Counted
<1> QED
  BY <1>3 DEF CountedOnce, Counted

\* A memory that goes on: a request was counted never, or lies behind the mark.
LEMMA ContinuedCounts ==
  ASSUME Bounds, LedgerInv, NEW g \in Groups, Continued(g), UNCHANGED log
  PROVE  Counted(g)'
<1>1. /\ Counted(g) /\ from[g] \in Nat /\ mark[g] \in Nat /\ Len(log) \in Nat
      /\ seen[g] \in [Ids -> Nat]
  BY CountedByGroup DEF LedgerInv, TypeOK
<1>2. from'[g] = from[g] /\ mark'[g] \in Nat /\ mark[g] <= mark'[g] /\ mark'[g] <= Len(log)
  BY <1>1 DEF Continued
<1>3. ASSUME NEW i \in Ids
      PROVE  /\ seen'[g][i] <= 1
             /\ seen'[g][i] = 1 => i <= mark'[g] /\ log[i] = g
             /\ i \in RowsOf(g, from'[g], mark'[g]) => seen'[g][i] = 1
  <2>1. i \in Nat \ {0} /\ seen[g][i] \in Nat
    BY <1>1 DEF Ids, Bounds
  <2>2. CASE i \in RowsOf(g, mark[g], mark'[g])
    <3>1. mark[g] < i /\ i <= mark'[g] /\ log[i] = g
      BY <2>2 DEF RowsOf
    <3>2. seen[g][i] = 0
      BY <3>1, <2>1, <1>1 DEF Counted
    <3>3. seen'[g][i] = 1
      BY <3>2, <2>2 DEF Continued
    <3> QED
      BY <3>1, <3>3
  <2>3. CASE i \notin RowsOf(g, mark[g], mark'[g])
    <3>1. seen'[g][i] = seen[g][i]
      BY <2>3, <2>1 DEF Continued
    <3>2. i \in RowsOf(g, from'[g], mark'[g]) => i \in RowsOf(g, from[g], mark[g])
      BY <2>3, <2>1, <1>1, <1>2 DEF RowsOf
    <3> QED
      BY <3>1, <3>2, <2>1, <1>1, <1>2 DEF Counted
  <2> QED
    BY <2>2, <2>3
<1> QED
  BY <1>1, <1>2, <1>3 DEF Counted, RowsOf

\* A memory that is started counts its window, and what came since the start.
LEMMA RestartedCounts ==
  ASSUME Bounds, LedgerInv, NEW g \in Groups, Restarted(g), UNCHANGED log
  PROVE  Counted(g)'
<1>1. Len(log) \in Nat
  BY DEF LedgerInv, TypeOK
<1>2. /\ mark'[g] \in Nat /\ mark'[g] <= Len(log)
      /\ from'[g] \in Nat /\ from'[g] <= mark'[g]
  BY <1>1 DEF Restarted, LedgerInv, TypeOK
<1>3. PICK window \in SUBSET RowsOf(g, 0, from'[g]) :
        seen'[g] = [i \in Ids |->
                      IF i \in window \cup RowsOf(g, from'[g], mark'[g]) THEN 1 ELSE 0]
  BY DEF Restarted
<1>4. ASSUME NEW i \in Ids
      PROVE  /\ seen'[g][i] <= 1
             /\ seen'[g][i] = 1 => i <= mark'[g] /\ log[i] = g
             /\ i \in RowsOf(g, from'[g], mark'[g]) => seen'[g][i] = 1
  <2>1. i \in Nat
    BY DEF Ids, Bounds
  <2>2. i \in window => i <= mark'[g] /\ log[i] = g
    BY <2>1, <1>2 DEF RowsOf
  <2>3. i \in RowsOf(g, from'[g], mark'[g]) => i <= mark'[g] /\ log[i] = g
    BY DEF RowsOf
  <2> QED
    BY <1>3, <2>2, <2>3
<1> QED
  BY <1>2, <1>4 DEF Counted, RowsOf

\* A memory that is dropped counts nothing and has looked at nothing.
LEMMA DroppedCounts ==
  ASSUME Bounds, LedgerInv, NEW g \in Groups, Dropped(g), UNCHANGED log
  PROVE  Counted(g)'
BY DEF Dropped, Counted, RowsOf, LedgerInv, TypeOK, Ids, Bounds

LEMMA SaveKeepsInv ==
  ASSUME Bounds, LedgerInv, Save
  PROVE  CountedOnce'
<1>1. UNCHANGED log
  BY DEF Save
<1>2. \A g \in Groups : Counted(g)'
  BY <1>1, ContinuedCounts, RestartedCounts, DroppedCounts DEF Save
<1> QED
  BY <1>2 DEF CountedOnce, Counted

LEMMA LedgerStep ==
  ASSUME Bounds
  PROVE  LedgerInv /\ [Next]_vars => LedgerInv'
<1> SUFFICES ASSUME LedgerInv, [Next]_vars PROVE CountedOnce'
  BY LedgerTypes DEF LedgerInv
<1>1. CASE Save
  BY <1>1, SaveKeepsInv
<1>2. ASSUME NEW g \in Groups, Request(g) PROVE CountedOnce'
  BY <1>2, RequestKeepsInv
<1>3. CASE UNCHANGED <<log, seen, from, mark>>
  BY <1>3 DEF LedgerInv, CountedOnce, RowsOf
<1>4. ASSUME NEW g \in Groups, Publish(g) \/ Inherit(g) PROVE CountedOnce'
  BY <1>3, <1>4 DEF Publish, Inherit
<1> QED
  BY <1>1, <1>2, <1>3, <1>4 DEF Next, vars

\* Between the start of a memory and its mark every request of its group is
\* counted exactly once, before at most once and after never, whatever is saved
\* and started again in between (dynamic.go: the watermark is saved with the
\* memory).
THEOREM EachCountedOnce ==
  ASSUME Bounds
  PROVE  Spec => []CountedOnce
<1>1. Init => LedgerInv
  BY LedgerStarts
<1>2. LedgerInv /\ [Next]_vars => LedgerInv'
  BY LedgerStep
<1>3. LedgerInv => CountedOnce
  BY DEF LedgerInv
<1> QED
  BY <1>1, <1>2, <1>3, PTL DEF Spec
===============================================================================
