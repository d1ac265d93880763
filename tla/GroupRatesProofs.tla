--------------------------- MODULE GroupRatesProofs ---------------------------
(* The state file of the group worker and the rates of the groups are a       *)
(* ledger, for any groups, accounts, bounds and environments: every step of   *)
(* GroupRates is a step of RateLedger or changes nothing the ledger sees.     *)
EXTENDS GroupRates, FiniteSetTheorems, SequenceTheorems, TLAPS

Ids == 1..MaxRows
Rows(l, h, lo, hi) == {i \in DOMAIN l : lo < i /\ i <= hi /\ l[i].group = h}

\* What any memory of a group may count; one that is not started counts nothing.
Sound(l, h, m) ==
  /\ m.last <= Len(l)
  /\ ~m.init => m.last = 0 /\ m.from = 0 /\ m.seen = Never
  /\ \A i \in Ids : m.seen[i] = 1 => i \in Rows(l, h, 0, m.last)

\* The memory of the process goes on from the one on disk, or was started no
\* earlier than that one had looked.
Follows(l, h, d, m) ==
  /\ m.from = d.from /\ d.last <= m.last
  /\ \A i \in Ids :
       m.seen[i] = d.seen[i] + IF i \in Rows(l, h, d.last, m.last) THEN 1 ELSE 0
Anew(l, h, d, m) ==
  /\ d.last <= m.from /\ m.from <= m.last
  /\ \A i \in Ids : i \in Rows(l, h, m.from, m.last) => m.seen[i] = 1
Linked(l, h, d, m) == m.init => Follows(l, h, d, m) \/ Anew(l, h, d, m)

Looking == pc \in {"bootstrap", "seed", "retry", "consume"}

MemoryInv(h) ==
  /\ Sound(log, h, disk.dynamic[h]) /\ Sound(log, h, mem.dynamic[h])
  /\ Linked(log, h, disk.dynamic[h], mem.dynamic[h])
  /\ Looking => disk.dynamic[h].last <= through /\ mem.dynamic[h].last <= through
Memories == \A h \in Groups : MemoryInv(h)

Listed ==
  [on : SUBSET Accounts, acct : [Accounts -> 0..MaxRate], rate : [Groups -> 0..MaxRate]]
Requests == [group : Groups, account : Accounts]
Budgets == {"rows", "rates", "switches", "keys", "faults", "crashes"}

Surroundings ==
  /\ env \in Environment
  /\ left \in [Budgets -> Nat] /\ Len(log) + left["rows"] <= MaxRows
  /\ log \in Seq(Requests)
  /\ view \in Listed
  /\ pc # "idle" => view.rate \in [Groups -> Rates]
  /\ pc = "initial" => env.image # 0

\* The groups that are still to go through, and the PUT that is under way.
Duties ==
  /\ ~up => pc = "idle"
  /\ pc \in {"initial", "single"} => todo \subseteq Single
  /\ Looking => todo \subseteq Plan /\ ready \subseteq Plan
  /\ Looking => \A h \in ready : mem.dynamic[h].init
  /\ pc = "consume" => \A h \in todo : mem.dynamic[h].init
Calls ==
  /\ pc \in {"idle", "initial"} => call = NoCall
  /\ call # NoCall /\ pc = "single" => call.group \in Single
  /\ call # NoCall /\ pc # "single" =>
       call.group \in Plan /\ disk.dynamic[call.group].pend = call.rate

Inv == TypeOK /\ Surroundings /\ Memories /\ Duties /\ Calls

-----------------------------------------------------------------------------
(* Constants, and the groups of the plan.                                   *)

LEMMA ConstantFacts ==
  /\ MaxRate \in Nat \ {0} /\ StepLimit \in Nat \ {0} /\ Deadband \in Nat \ {0}
  /\ MinRequests \in Nat \ {0} /\ MaxRows \in Nat /\ MaxAge \in Nat \ {0}
  /\ InitialRate \in Rates /\ DefaultRate \in Rates
  /\ Groups \subseteq Nat \ {0} /\ 0 \notin Groups
  /\ Rates \subseteq 0..MaxRate /\ 0 \notin Rates
  /\ \A e \in Environments : e \in Environment
BY GroupAssumption, EnvironmentAssumption DEF Rates

LEMMA PlanIsNotSingle == \A g \in Plan : g \in Groups /\ g \notin Single
  <1> SUFFICES ASSUME NEW g \in Plan PROVE g \in Groups /\ g \notin Single
    OBVIOUS
  <1>1. g \in Groups /\ Cardinality(Bound(g)) > 1
    BY DEF Plan
  <1>2. CASE g \in Single
    <2>1. Cardinality(Bound(g)) = 1
      BY <1>2 DEF Single
    <2> QED
      BY <1>1, <2>1
  <1> QED
    BY <1>1, <1>2

\* The only account of a group.
LEMMA OnlyAccount ==
  ASSUME TypeOK, Surroundings, NEW g \in Single
  PROVE  g \in Groups /\ (CHOOSE b \in Bound(g) : TRUE) \in Accounts
  <1>1. g \in Groups /\ Cardinality(Bound(g)) = 1
    BY DEF Single
  <1>2. Bound(g) # {}
    BY <1>1, FS_EmptySet
  <1>3. Bound(g) \subseteq Accounts
    BY DEF Bound, Surroundings, Listed
  <1> QED
    BY <1>1, <1>2, <1>3

LEMMA TargetsAreRates ==
  ASSUME NEW current \in Rates, NEW raw \in Rates
  PROVE  dynamicPublishedTarget(current, raw) \in Rates
BY ConstantFacts DEF dynamicPublishedTarget, Rates

LEMMA BudgetsShrink ==
  ASSUME NEW w \in Budgets, left \in [Budgets -> Nat], Happens(w)
  PROVE  /\ left' \in [Budgets -> Nat]
         /\ left[w] > 0 /\ left'[w] = left[w] - 1
         /\ \A v \in Budgets : v # w => left'[v] = left[v]
BY DEF Happens

-----------------------------------------------------------------------------
(* Memories.                                                                *)

LEMMA FreshMemory ==
  /\ newDynamicGroupState \in Memory /\ newState \in State
  /\ \A h \in Groups : newState.dynamic[h] = newDynamicGroupState
  <1>1. Never \in [Ids -> 0..1] /\ NoRates \in [Accounts -> 0..MaxRate]
    BY ConstantFacts DEF Never, NoRates, Invalid, Ids
  <1>2. newDynamicGroupState \in Memory
    BY <1>1, ConstantFacts DEF newDynamicGroupState, Memory, Ids
  <1> QED
    BY <1>2 DEF newState, State

LEMMA PutMemory ==
  ASSUME NEW s \in State, NEW g \in Groups, NEW x \in Memory
  PROVE  LET t == [s EXCEPT !.dynamic[g] = x] IN
           /\ t \in State /\ t.dynamic[g] = x
           /\ \A h \in Groups : h # g => t.dynamic[h] = s.dynamic[h]
BY DEF State

\* The parts of a memory that the ledger sees.
LEMMA MemoryFields ==
  ASSUME NEW m \in Memory
  PROVE  m.last \in Nat /\ m.from \in Nat /\ m.seen \in [Ids -> 0..1]
BY ConstantFacts DEF Memory, Ids

\* A pending target changes nothing about what is counted.
LEMMA PendMemory ==
  ASSUME NEW m \in Memory, NEW p \in 0..MaxRate
  PROVE  LET n == [m EXCEPT !.pend = p] IN
           /\ n \in Memory /\ n.pend = p
           /\ n.init = m.init /\ n.last = m.last /\ n.from = m.from /\ n.seen = m.seen
BY DEF Memory

\* What is known of a memory goes for each that counts the same.
LEMMA SameCounts ==
  ASSUME NEW l, NEW h, NEW d, NEW m, NEW n,
         n.init = m.init, n.last = m.last, n.from = m.from, n.seen = m.seen
  PROVE  /\ Sound(l, h, m) => Sound(l, h, n)
         /\ Linked(l, h, d, m) => Linked(l, h, d, n)
         /\ Linked(l, h, m, d) => Linked(l, h, n, d)
BY DEF Sound, Linked, Follows, Anew

\* A saved memory goes on from itself.
LEMMA LinkedToItself ==
  ASSUME NEW l \in Seq(Requests), NEW h, NEW m \in Memory
  PROVE  Linked(l, h, m, m)
  <1>1. m.last \in Nat /\ m.seen \in [Ids -> 0..1]
    BY ConstantFacts DEF Memory, Ids
  <1>2. \A i \in Ids : i \notin Rows(l, h, m.last, m.last)
    <2>1. Len(l) \in Nat /\ DOMAIN l = 1..Len(l)
      OBVIOUS
    <2> QED
      BY <1>1, <2>1 DEF Rows
  <1> QED
    BY <1>1, <1>2 DEF Linked, Follows

\* A longer log changes nothing about the requests before.
LEMMA LongerLog ==
  ASSUME NEW l \in Seq(Requests), NEW r \in Requests, NEW h, NEW d \in Memory, NEW m \in Memory,
         Sound(l, h, m), Sound(l, h, d), Linked(l, h, d, m)
  PROVE  Sound(Append(l, r), h, m) /\ Linked(Append(l, r), h, d, m)
  <1> DEFINE k == Append(l, r)
  <1>1. /\ k \in Seq(Requests) /\ Len(k) = Len(l) + 1 /\ Len(l) \in Nat
        /\ DOMAIN k = 1..(Len(l) + 1) /\ DOMAIN l = 1..Len(l)
        /\ \A i \in 1..Len(l) : k[i] = l[i]
    OBVIOUS
  <1>2. /\ m.last \in Nat /\ d.last \in Nat /\ m.from \in Nat
        /\ m.last <= Len(l) /\ d.last <= Len(l)
    BY ConstantFacts DEF Memory, Sound
  <1> HIDE DEF k
  <1>3. \A lo \in Nat : Rows(k, h, lo, m.last) = Rows(l, h, lo, m.last)
    BY <1>1, <1>2 DEF Rows
  <1>4. Sound(k, h, m)
    BY <1>1, <1>2, <1>3 DEF Sound
  <1>5. Linked(k, h, d, m)
    BY <1>2, <1>3 DEF Linked, Follows, Anew
  <1> QED
    BY <1>4, <1>5 DEF k

\* A memory that goes on counts the new requests of its group.
LEMMA ConsumedMemory ==
  ASSUME NEW l \in Seq(Requests), NEW h, NEW d \in Memory, NEW m \in Memory, NEW n \in Memory,
         NEW k \in 0..Len(l), m.last <= k, m.init,
         Sound(l, h, m), Sound(l, h, d), Linked(l, h, d, m),
         n.init, n.from = m.from, n.last = k,
         \A i \in Ids : n.seen[i] = m.seen[i] + IF i \in Rows(l, h, m.last, k) THEN 1 ELSE 0
  PROVE  Sound(l, h, n) /\ Linked(l, h, d, n)
  <1>1. /\ m.last \in Nat /\ d.last \in Nat /\ m.from \in Nat /\ k \in Nat /\ Len(l) \in Nat
        /\ m.last <= Len(l) /\ d.last <= Len(l) /\ k <= Len(l)
        /\ DOMAIN l = 1..Len(l)
    BY ConstantFacts DEF Memory, Sound
  <1>2. \A i \in Ids : m.seen[i] \in 0..1 /\ d.seen[i] \in 0..1 /\ i \in Nat
    BY ConstantFacts DEF Memory, Ids
  <1>3. \A i \in Ids : m.seen[i] = 1 => i \in Rows(l, h, 0, m.last)
    BY DEF Sound
  <1>4. Sound(l, h, n)
    <2>1. ASSUME NEW i \in Ids, n.seen[i] = 1 PROVE i \in Rows(l, h, 0, k)
      BY <2>1, <1>1, <1>2, <1>3 DEF Rows
    <2> QED
      BY <2>1, <1>1 DEF Sound
  <1>5. CASE Follows(l, h, d, m)
    <2>1. ASSUME NEW i \in Ids
          PROVE  n.seen[i] = d.seen[i] + IF i \in Rows(l, h, d.last, k) THEN 1 ELSE 0
      BY <1>5, <1>1, <1>2 DEF Follows, Rows
    <2> QED
      BY <2>1, <1>1, <1>4, <1>5 DEF Follows, Linked
  <1>6. CASE Anew(l, h, d, m)
    <2>1. ASSUME NEW i \in Ids, i \in Rows(l, h, m.from, k)
          PROVE  n.seen[i] = 1
      <3>1. CASE i \in Rows(l, h, m.last, k)
        <4>1. m.seen[i] = 0
          BY <3>1, <1>1, <1>2, <1>3 DEF Rows
        <4> QED
          BY <4>1, <3>1
      <3>2. CASE i \notin Rows(l, h, m.last, k)
        <4>1. i \in Rows(l, h, m.from, m.last)
          BY <2>1, <3>2, <1>1, <1>2 DEF Rows
        <4> QED
          BY <4>1, <3>2, <1>6, <1>2 DEF Anew
      <3> QED
        BY <3>1, <3>2
    <2> QED
      BY <2>1, <1>1, <1>4, <1>6 DEF Anew, Linked
  <1> QED
    BY <1>4, <1>5, <1>6 DEF Linked

\* The outcomes of a publication: the memory is as computed but for its
\* pending target, what is sent was saved, and without a reason, or over a pending
\* one, there is no new target.
LEMMA PublishOutcome ==
  ASSUME TypeOK, Surroundings, pc # "idle",
         NEW g \in Groups, NEW m \in Memory, NEW event, publishDynamicGroup(g, m, event)
  PROVE  /\ left' \in [Budgets -> Nat] /\ left'["rows"] = left["rows"]
         /\ todo' = todo \ {g}
         /\ \E p \in 0..MaxRate :
              /\ mem' = [mem EXCEPT !.dynamic[g] = [m EXCEPT !.pend = p]]
              /\ \/ disk' = disk /\ call' = call
                 \/ disk' = mem' /\ call' = [group |-> g, rate |-> p] /\ p \in Rates
              /\ p \in {0, m.pend} \/ (event /\ m.pend = 0)
  <1> DEFINE Left == left' \in [Budgets -> Nat] /\ left'["rows"] = left["rows"]
             Kept(n) == mem' = [mem EXCEPT !.dynamic[g] = n] /\ todo' = todo \ {g} /\ Left
             Out(n) == \/ disk' = disk /\ call' = call
                       \/ disk' = mem' /\ call' = [group |-> g, rate |-> n.pend] /\ n.pend # 0
             New(p) == p \in {0, m.pend} \/ (event /\ m.pend = 0)
             Goal == \E p \in 0..MaxRate : /\ Kept([m EXCEPT !.pend = p])
                                           /\ Out([m EXCEPT !.pend = p]) /\ New(p)
  <1>0. /\ m.pend \in 0..MaxRate /\ m = [m EXCEPT !.pend = m.pend]
        /\ clearDynamicPending(m) = [m EXCEPT !.pend = 0]
        /\ view.rate[g] \in Rates
        /\ 0 \in 0..MaxRate /\ Rates \subseteq 0..MaxRate
    <2>1. m = [m EXCEPT !.pend = m.pend] /\ m.pend \in 0..MaxRate
      BY DEF Memory
    <2>2. view.rate[g] \in Rates
      BY DEF Surroundings
    <2> QED
      BY <2>1, <2>2, ConstantFacts DEF clearDynamicPending
  <1>1. UNCHANGED left => Left
    BY DEF Surroundings, Budgets
  <1>2. Happens("faults") => Left
    BY BudgetsShrink DEF Surroundings, Budgets
  <1>3. ASSUME NEW n, NEW fine, Settled(g, n, fine), UNCHANGED left PROVE Kept(n) /\ Out(n)
    BY <1>1, <1>3 DEF Settled
  <1>4. ASSUME NEW n, n.pend # 0, Sent(g, n) PROVE Kept(n) /\ Out(n)
    BY <1>1, <1>2, <1>4 DEF Sent, Settled
  <1>5. ASSUME m.pend # 0, retryDynamicPending(g, m) PROVE Goal
    <2>1. CASE Settled(g, clearDynamicPending(m), TRUE) /\ UNCHANGED left
      BY <2>1, <1>3, <1>0
    <2>2. CASE Sent(g, m)
      <3>1. Kept(m) /\ Out(m)
        BY <2>2, <1>5, <1>4
      <3> QED
        BY <3>1, <1>0
    <2> QED
      BY <1>5, <2>1, <2>2 DEF retryDynamicPending
  <1>6. ASSUME ProposeChange(g, m), event, m.pend = 0 PROVE Goal
    <2>1. PICK raw \in Rates :
            LET target == dynamicPublishedTarget(view.rate[g], raw) IN
            \/ Settled(g, clearDynamicPending(m), TRUE) /\ UNCHANGED left
            \/ Sent(g, [m EXCEPT !.pend = target])
      BY <1>6 DEF ProposeChange
    <2>2. CASE Settled(g, clearDynamicPending(m), TRUE) /\ UNCHANGED left
      BY <2>2, <1>3, <1>0
    <2>3. CASE Sent(g, [m EXCEPT !.pend = dynamicPublishedTarget(view.rate[g], raw)])
      <3> DEFINE p == dynamicPublishedTarget(view.rate[g], raw)
      <3>1. p \in 0..MaxRate /\ p # 0
        BY <1>0, TargetsAreRates, ConstantFacts
      <3>2. [m EXCEPT !.pend = p].pend = p
        BY DEF Memory
      <3>3. Kept([m EXCEPT !.pend = p]) /\ Out([m EXCEPT !.pend = p])
        BY <2>3, <3>1, <3>2, <1>4
      <3> QED
        BY <3>1, <3>3, <1>6
    <2> QED
      BY <2>1, <2>2, <2>3
  <1>7. ASSUME NEW fine, Settled(g, m, fine), UNCHANGED left PROVE Goal
    <2>1. Kept(m) /\ Out(m)
      BY <1>7, <1>3
    <2> QED
      BY <2>1, <1>0
  <1>8. Goal
    BY <1>5, <1>6, <1>7 DEF publishDynamicGroup
  <1>9. \A p \in 0..MaxRate : [m EXCEPT !.pend = p].pend = p /\ (p # 0 => p \in Rates)
    BY ConstantFacts DEF Memory, Rates
  <1> QED
    BY <1>8, <1>9
-----------------------------------------------------------------------------
(* The memories a cycle computes.                                           *)

LEMMA OverlaidRates ==
  ASSUME Surroundings, NEW rates \in [Accounts -> 0..MaxRate], NEW g
  PROVE  overlayBindingRates(rates, g) \in [Accounts -> 0..MaxRate]
BY DEF overlayBindingRates, Surroundings, Listed

\* What a new memory must be to take the place of the one of the process.
Fits(g, n) ==
  /\ n \in Memory
  /\ Sound(log, g, n) /\ Linked(log, g, disk.dynamic[g], n)
  /\ mem.dynamic[g].init => n.init

LEMMA LogFacts ==
  ASSUME TypeOK, Surroundings
  PROVE  /\ log \in Seq(Requests) /\ Len(log) \in Nat /\ DOMAIN log = 1..Len(log)
         /\ through \in 0..Len(log) /\ through \in 0..MaxRows
         /\ \A i \in DOMAIN log : log[i].group \in Groups /\ log[i].account \in Accounts
         /\ \A h \in Groups : disk.dynamic[h] \in Memory /\ mem.dynamic[h] \in Memory
  <1>1. log \in Seq(Requests) /\ Len(log) \in Nat /\ DOMAIN log = 1..Len(log)
    BY DEF Surroundings
  <1>2. through \in 0..Len(log) /\ through \in 0..MaxRows
    BY <1>1, ConstantFacts DEF TypeOK
  <1>3. \A i \in DOMAIN log : log[i].group \in Groups /\ log[i].account \in Accounts
    BY DEF TypeOK
  <1>4. \A h \in Groups : disk.dynamic[h] \in Memory /\ mem.dynamic[h] \in Memory
    BY DEF TypeOK, State
  <1> QED
    BY <1>1, <1>2, <1>3, <1>4

\* A memory that is kept, with another pending target or other rates.
LEMMA KeptFits ==
  ASSUME Inv, NEW g \in Groups, NEW n \in Memory,
         n.init = mem.dynamic[g].init, n.last = mem.dynamic[g].last,
         n.from = mem.dynamic[g].from, n.seen = mem.dynamic[g].seen
  PROVE  Fits(g, n)
BY SameCounts DEF Fits, Inv, Memories, MemoryInv

LEMMA SeededFits ==
  ASSUME Inv, pc = "seed", NEW g \in Groups, NEW k \in Nat
  PROVE  LET n == seedDynamicGroupState(g, k) IN
           Fits(g, n) /\ n.last = through /\ n.init
  <1> DEFINE n == seedDynamicGroupState(g, k)
             rows == WindowRows(g, k)
             taken == [a \in Accounts |->
                         IF a \in {log[i].account : i \in rows} THEN costs[a] ELSE Invalid]
  <1>1. /\ log \in Seq(Requests) /\ Len(log) \in Nat /\ DOMAIN log = 1..Len(log)
        /\ through \in 0..Len(log) /\ through \in 0..MaxRows
        /\ disk.dynamic[g].last \in Nat /\ disk.dynamic[g].last <= through
    BY LogFacts, ConstantFacts DEF Inv, Memories, MemoryInv, Looking, Memory
  <1>2. taken \in [Accounts -> 0..MaxRate]
    BY ConstantFacts DEF Inv, TypeOK, Invalid
  <1>3. /\ n.init = TRUE /\ n.last = through /\ n.from = through
        /\ n.rates = overlayBindingRates(taken, g) /\ n.pend = mem.dynamic[g].pend
        /\ n.seen = [i \in Ids |-> IF i \in rows THEN 1 ELSE 0]
        /\ n = [init |-> n.init, last |-> n.last, from |-> n.from, seen |-> n.seen,
                rates |-> n.rates, pend |-> n.pend]
    BY DEF seedDynamicGroupState, Ids
  <1>4. n.rates \in [Accounts -> 0..MaxRate] /\ n.seen \in [Ids -> 0..1]
    BY <1>2, <1>3, OverlaidRates DEF Inv
  <1>5. n.pend \in 0..MaxRate
    BY <1>3, LogFacts DEF Inv, Memory
  <1> HIDE DEF n, taken
  <1>6. n \in Memory
    BY <1>1, <1>3, <1>4, <1>5 DEF Memory, Ids
  <1>7. \A i \in Ids : i \in rows => i \in Rows(log, g, 0, through)
    <2> SUFFICES ASSUME NEW i \in Ids, i \in rows PROVE i \in Rows(log, g, 0, through)
      OBVIOUS
    <2>1. i \in Nat /\ 0 < i
      BY ConstantFacts DEF Ids
    <2>2. i <= through /\ log[i].group = g
      BY <2>1, <1>1 DEF WindowRows
    <2> QED
      BY <2>1, <2>2, <1>1 DEF Rows
  <1>8. Sound(log, g, n)
    BY <1>1, <1>3, <1>7 DEF Sound
  <1>9. \A i \in Ids : i \notin Rows(log, g, through, through)
    BY <1>1 DEF Rows
  <1>10. Anew(log, g, disk.dynamic[g], n)
    BY <1>1, <1>3, <1>9 DEF Anew
  <1> QED
    BY <1>3, <1>6, <1>8, <1>10 DEF Fits, Linked, n

LEMMA UpdatedFits ==
  ASSUME Inv, pc = "consume", NEW g \in todo
  PROVE  LET n == updateDynamicMemory(g) IN
           g \in Groups /\ Fits(g, n) /\ n.last = through
  <1> DEFINE m == mem.dynamic[g]
             d == disk.dynamic[g]
             n == updateDynamicMemory(g)
             used == {log[i].account : i \in NewRows(g)}
             found == [a \in Accounts |->
                         IF a \in used /\ costs[a] # Invalid THEN costs[a] ELSE m.rates[a]]
  <1>0. g \in Groups /\ m.init /\ MemoryInv(g)
    BY DEF Inv, Duties, Memories, TypeOK
  <1>1. /\ log \in Seq(Requests) /\ Len(log) \in Nat /\ DOMAIN log = 1..Len(log)
        /\ through \in 0..Len(log) /\ through \in 0..MaxRows
        /\ m \in Memory /\ d \in Memory
    BY <1>0, LogFacts DEF Inv
  <1>2. /\ m.last \in Nat /\ m.last <= through /\ m.rates \in [Accounts -> 0..MaxRate]
        /\ m.seen \in [Ids -> 0..1] /\ m.pend \in 0..MaxRate /\ m.from \in 0..MaxRows
        /\ Sound(log, g, m) /\ Sound(log, g, d) /\ Linked(log, g, d, m)
    <2>1. /\ m.last <= through
          /\ Sound(log, g, m) /\ Sound(log, g, d) /\ Linked(log, g, d, m)
      <3>1. Looking
        BY DEF Looking
      <3> QED
        BY <1>0, <3>1 DEF MemoryInv
    <2>2. /\ m.last \in Nat /\ m.rates \in [Accounts -> 0..MaxRate]
          /\ m.seen \in [Ids -> 0..1] /\ m.pend \in 0..MaxRate /\ m.from \in 0..MaxRows
      <3> HIDE DEF m, n, found
      <3>1. m.last \in 0..MaxRows
        BY <1>1 DEF Memory
      <3> QED
        BY <1>1, <3>1, ConstantFacts DEF Memory, Ids
    <2> QED
      BY <2>1, <2>2
  <1>3. found \in [Accounts -> 0..MaxRate]
    BY <1>2 DEF Inv, TypeOK
  <1>4. /\ n.init = m.init /\ n.last = through /\ n.from = m.from /\ n.pend = m.pend
        /\ n.rates = overlayBindingRates(found, g)
        /\ n.seen = [i \in Ids |-> m.seen[i] + IF i \in NewRows(g) THEN 1 ELSE 0]
        /\ n = [m EXCEPT !.seen = n.seen, !.rates = n.rates, !.last = n.last]
    BY <1>1 DEF updateDynamicMemory, Ids, Memory
  <1>5. n.rates \in [Accounts -> 0..MaxRate]
    BY <1>3, <1>4, OverlaidRates DEF Inv
  <1> HIDE DEF n, found
  <1>6. \A i \in Ids : i \in NewRows(g) <=> i \in Rows(log, g, m.last, through)
    BY <1>1, <1>2, ConstantFacts DEF NewRows, Rows, Ids
  <1>7. n.seen \in [Ids -> 0..1]
    <2> SUFFICES ASSUME NEW i \in Ids
                 PROVE  m.seen[i] + (IF i \in NewRows(g) THEN 1 ELSE 0) \in 0..1
      BY <1>4
    <2>1. CASE i \in NewRows(g)
      <3>1. m.last < i /\ i \in Nat
        BY <2>1, <1>6, ConstantFacts DEF Rows, Ids
      <3>2. m.seen[i] = 0
        BY <3>1, <1>2 DEF Sound, Rows
      <3> QED
        BY <2>1, <3>2
    <2>2. CASE i \notin NewRows(g)
      BY <2>2, <1>2
    <2> QED
      BY <2>1, <2>2
  <1>8. n \in Memory
    BY <1>1, <1>4, <1>5, <1>7 DEF Memory, Ids
  <1>9. \A i \in Ids :
          n.seen[i] = m.seen[i] + IF i \in Rows(log, g, m.last, through) THEN 1 ELSE 0
    BY <1>4, <1>6
  <1>10. Sound(log, g, n) /\ Linked(log, g, d, n)
    <2>1. n.init
      BY <1>0, <1>4
    <2> HIDE DEF m, d
    <2> QED
      BY <2>1, <1>0, <1>1, <1>2, <1>4, <1>8, <1>9, ConsumedMemory
  <1> QED
    BY <1>0, <1>4, <1>8, <1>10 DEF Fits, n

\* A memory that cannot go on is dropped; one that goes on has not looked
\* beyond the end of the log.
LEMMA PreparedFits ==
  ASSUME Inv, NEW g \in Groups
  PROVE  LET n == Prepared(g) IN
           /\ n \in Memory /\ n.last <= Len(log)
           /\ Sound(log, g, n) /\ Linked(log, g, disk.dynamic[g], n)
  <1> DEFINE m == mem.dynamic[g]
             n == [newDynamicGroupState EXCEPT !.pend = m.pend]
  <1>1. m \in Memory /\ m.pend \in 0..MaxRate /\ Len(log) \in Nat
    BY LogFacts DEF Inv, Memory
  <1>2. n \in Memory
    BY <1>1, FreshMemory, PendMemory
  <1>3. n.init = FALSE /\ n.last = 0 /\ n.from = 0 /\ n.seen = Never
    BY DEF newDynamicGroupState
  <1> HIDE DEF n, m
  <1>4. Sound(log, g, n)
    BY <1>1, <1>3 DEF Sound, Never, Ids
  <1>5. CASE Prepared(g) = n
    BY <1>1, <1>2, <1>3, <1>4, <1>5 DEF Linked
  <1>6. CASE Prepared(g) = m
    BY <1>1, <1>6 DEF Inv, Memories, MemoryInv, Sound, m
  <1> QED
    BY <1>5, <1>6 DEF Prepared, m, n
-----------------------------------------------------------------------------
(* The invariant, step by step.                                             *)

\* What a step that writes no rate may do to the file.
Saved ==
  /\ UNCHANGED <<log, rate>>
  /\ \A h \in Groups : Linked(log, h, disk.dynamic[h], disk'.dynamic[h])

\* What the steps have to show of the memories.
LEMMA MemoriesKept ==
  ASSUME Inv, log' = log, mem' \in State,
         \A h \in Groups : /\ Sound(log, h, mem'.dynamic[h])
                           /\ Linked(log, h, disk.dynamic[h], mem'.dynamic[h]),
         disk' = disk \/ disk' = mem',
         Looking' => \A h \in Groups :
                       mem'.dynamic[h].last <= through' /\ disk.dynamic[h].last <= through'
  PROVE  /\ Memories' /\ disk' \in State
         /\ \A h \in Groups : Linked(log, h, disk.dynamic[h], disk'.dynamic[h])
  <1>1. disk' \in State
    BY DEF Inv, TypeOK
  <1>3. ASSUME NEW h \in Groups PROVE Linked(log, h, disk.dynamic[h], disk'.dynamic[h])
    <2>1. disk.dynamic[h] \in Memory /\ log \in Seq(Requests)
      BY LogFacts DEF Inv
    <2> QED
      BY <2>1, LinkedToItself
  <1>2. ASSUME NEW h \in Groups PROVE MemoryInv(h)'
    <2>1. CASE disk' = disk
      BY <2>1 DEF MemoryInv, Inv, Memories
    <2>2. CASE disk' = mem'
      <3>1. mem'.dynamic[h] \in Memory /\ log \in Seq(Requests)
        BY DEF State, Inv, Surroundings
      <3>2. Linked(log, h, mem'.dynamic[h], mem'.dynamic[h])
        BY <3>1, LinkedToItself
      <3> QED
        BY <2>2, <3>2 DEF MemoryInv
    <2> QED
      BY <2>1, <2>2
  <1> QED
    BY <1>1, <1>2, <1>3 DEF Memories

\* Where nothing is said of the memories.
LEMMA MemoriesStay ==
  ASSUME Inv, UNCHANGED <<log, disk, mem>>,
         Looking' => Looking /\ UNCHANGED through
  PROVE  Memories'
  <1>1. mem' \in State /\ mem' = mem /\ disk' = disk
    BY DEF Inv, TypeOK
  <1>2. \A h \in Groups : MemoryInv(h)
    BY DEF Inv, Memories
  <1> QED
    BY <1>1, <1>2, MemoriesKept DEF MemoryInv

LEMMA UnsavedIsSaved ==
  ASSUME Inv, UNCHANGED <<log, rate, disk>>
  PROVE  Saved
  <1>1. log \in Seq(Requests) /\ \A h \in Groups : disk.dynamic[h] \in Memory
    BY LogFacts DEF Inv
  <1> QED
    BY <1>1, LinkedToItself DEF Saved

LEMMA PublishKeepsInv ==
  ASSUME Inv, Idle, pc \in {"seed", "retry", "consume"}, NEW g \in todo,
         NEW m, NEW event, Fits(g, m), m.last <= through, publishDynamicGroup(g, m, event),
         UNCHANGED <<pc, view, through, ready, choice, costs>>, Going
  PROVE  Inv' /\ Saved
  <1>0. /\ g \in Groups /\ m \in Memory /\ g \in Plan /\ pc # "idle" /\ Looking
        /\ UNCHANGED <<env, log, on, acct, key, oldest, rate, up, health, past, Looking>>
    BY DEF Inv, TypeOK, Fits, Duties, Looking, Going, gateway
  <1>1. /\ left' \in [Budgets -> Nat] /\ left'["rows"] = left["rows"]
        /\ todo' = todo \ {g}
    BY <1>0, PublishOutcome DEF Inv
  <1>2. PICK p \in 0..MaxRate :
          /\ mem' = [mem EXCEPT !.dynamic[g] = [m EXCEPT !.pend = p]]
          /\ \/ disk' = disk /\ call' = call
             \/ disk' = mem' /\ call' = [group |-> g, rate |-> p] /\ p \in Rates
    BY <1>0, PublishOutcome DEF Inv
  <1> DEFINE n == [m EXCEPT !.pend = p]
  <1>3. /\ n \in Memory /\ n.pend = p
        /\ n.init = m.init /\ n.last = m.last /\ n.from = m.from /\ n.seen = m.seen
    BY <1>0, PendMemory
  <1>4. Fits(g, n) /\ n.last <= through
    BY <1>3, SameCounts DEF Fits
  <1>5. mem \in State /\ mem' = [mem EXCEPT !.dynamic[g] = n]
    BY <1>2 DEF Inv, TypeOK
  <1> HIDE DEF n
  <1>6. /\ mem' \in State /\ mem'.dynamic[g] = n
        /\ \A h \in Groups : h # g => mem'.dynamic[h] = mem.dynamic[h]
    BY <1>0, <1>3, <1>5, PutMemory
  <1>7. ASSUME NEW h \in Groups
        PROVE  /\ Sound(log, h, mem'.dynamic[h])
               /\ Linked(log, h, disk.dynamic[h], mem'.dynamic[h])
               /\ mem'.dynamic[h].last <= through' /\ disk.dynamic[h].last <= through'
               /\ mem.dynamic[h].init => mem'.dynamic[h].init
    <2>1. MemoryInv(h) /\ through' = through
      BY DEF Inv, Memories
    <2>2. CASE h = g
      BY <2>1, <2>2, <1>0, <1>4, <1>6 DEF Fits, MemoryInv
    <2>3. CASE h # g
      BY <2>1, <2>3, <1>0, <1>6 DEF MemoryInv
    <2> QED
      BY <2>2, <2>3
  <1>8. /\ Memories' /\ disk' \in State
        /\ \A h \in Groups : Linked(log, h, disk.dynamic[h], disk'.dynamic[h])
    BY <1>0, <1>2, <1>6, <1>7, MemoriesKept
  <1>9. call' = NoCall \/ call' \in [group : Groups, rate : Rates]
    BY <1>0, <1>2 DEF Inv, TypeOK
  <1>10. TypeOK'
    BY <1>0, <1>1, <1>6, <1>8, <1>9 DEF Inv, TypeOK
  <1>11. Surroundings'
    BY <1>0, <1>1 DEF Inv, Surroundings
  <1>12. Duties'
    BY <1>0, <1>1, <1>6, <1>7 DEF Inv, TypeOK, Duties, Looking, Plan, Bound, Single
  <1>13. Calls'
    <2>1. call = NoCall
      BY DEF Idle
    <2>2. CASE call' = call
      BY <2>1, <2>2, <1>0 DEF Calls
    <2>3. CASE disk' = mem' /\ call' = [group |-> g, rate |-> p]
      <3>1. disk'.dynamic[g].pend = p
        BY <2>3, <1>3, <1>6
      <3>2. g \in Plan'
        BY <1>0 DEF Plan, Bound
      <3> QED
        BY <2>3, <3>1, <3>2, <1>0 DEF Calls
    <2> QED
      BY <1>2, <2>2, <2>3
  <1> QED
    BY <1>0, <1>8, <1>10, <1>11, <1>12, <1>13 DEF Inv, Saved

LEMMA BootstrapKeepsInv ==
  ASSUME Inv, NEW g \in Groups, BootstrapWaits(g)
  PROVE  Inv' /\ Saved
  <1> DEFINE m == mem.dynamic[g]
  <1>1. g \in todo /\ pc = "seed" /\ Looking /\ m \in Memory
    BY LogFacts DEF BootstrapWaits, Looking, Inv
  <1>2. Fits(g, m) /\ m.last <= through
    BY <1>1, KeptFits DEF Inv, Memories, MemoryInv
  <1>3. CASE publishDynamicGroup(g, m, FALSE)
    BY <1>1, <1>2, <1>3, PublishKeepsInv DEF BootstrapWaits
  <1>4. CASE m.pend = 0 /\ Settled(g, m, FALSE) /\ UNCHANGED left
    <2>1. mem \in State /\ mem' = mem /\ disk' = disk /\ call' = call /\ todo' = todo \ {g}
      BY <1>1, <1>4 DEF Settled, Inv, TypeOK, State
    <2>2. UNCHANGED <<env, log, on, acct, key, oldest, rate, up, health, past, left, pc, view,
                      through, ready, choice, costs>>
      BY <1>4 DEF BootstrapWaits, Going, gateway
    <2>3. Memories'
      BY <2>1, <2>2, MemoriesStay DEF Looking
    <2>4. Saved
      BY <2>1, <2>2, UnsavedIsSaved
    <2> QED
      BY <2>1, <2>2, <2>3, <2>4
      DEF Inv, TypeOK, Surroundings, Duties, Calls, Looking, Plan, Single, Bound
  <1> QED
    BY <1>3, <1>4 DEF BootstrapWaits

LEMMA CycleOverGroupsKeepsInv ==
  ASSUME Inv, NEW g \in Groups, Seed(g) \/ Retry(g) \/ consumeDynamicGroup(g)
  PROVE  Inv' /\ Saved
  <1>1. CASE Seed(g)
    <2>1. choice[g] \in Nat
      BY ConstantFacts DEF Inv, TypeOK
    <2>2. LET m == seedDynamicGroupState(g, choice[g]) IN Fits(g, m) /\ m.last = through
      BY <1>1, <2>1, SeededFits DEF Seed
    <2>3. through <= through
      BY LogFacts DEF Inv
    <2> QED
      BY <1>1, <2>2, <2>3, PublishKeepsInv DEF Seed
  <1>2. CASE Retry(g)
    <2>1. mem.dynamic[g] \in Memory /\ Looking
      BY <1>2, LogFacts DEF Retry, Looking, Inv
    <2>2. Fits(g, mem.dynamic[g]) /\ mem.dynamic[g].last <= through
      BY <2>1, KeptFits DEF Inv, Memories, MemoryInv
    <2> QED
      BY <1>2, <2>2, PublishKeepsInv DEF Retry
  <1>3. CASE consumeDynamicGroup(g)
    <2>1. g \in todo /\ pc = "consume"
      BY <1>3 DEF consumeDynamicGroup
    <2>2. LET m == updateDynamicMemory(g) IN Fits(g, m) /\ m.last <= through
      BY <2>1, UpdatedFits, LogFacts DEF Inv
    <2> QED
      BY <1>3, <2>1, <2>2, PublishKeepsInv DEF consumeDynamicGroup
  <1> QED
    BY <1>1, <1>2, <1>3
\* A cycle that ends leaves nothing behind in the process but its memory.
LEMMA NothingListed ==
  LET none == [on |-> {}, acct |-> NoRates, rate |-> [g \in Groups |-> Invalid]] IN
  none \in Listed /\ NoRates \in [Accounts -> 0..MaxRate]
BY ConstantFacts DEF NoRates, Invalid, Listed

LEMMA HealthStaysHealth ==
  /\ Check!Invalidated \in Check!Health /\ Check!Healthy \in Check!Health
  /\ Check!Waiting \in Check!Health
  /\ \A h \in Check!Health : Check!Failed(h) \in Check!Health /\ Check!Aged(h) \in Check!Health
  /\ \A a \in 0..MaxAge : Check!Older(a) \in 0..MaxAge
  <1>1. \A a \in 0..MaxAge : Check!Older(a) \in 0..MaxAge
    BY ConstantFacts DEF Check!Older
  <1>2. 0 \in 0..MaxAge /\ MaxAge \in 0..MaxAge
    BY ConstantFacts
  <1> QED
    BY <1>1, <1>2
    DEF Check!Health, Check!Ages, Check!Invalidated, Check!Never, Check!Healthy, Check!Waiting,
        Check!Failed, Check!Aged

LEMMA EndKeepsInv ==
  ASSUME Inv, NEW fine, EndCycle(fine), call = NoCall,
         UNCHANGED <<env, gateway, rate, mem, up>>,
         disk' = disk \/ disk' = mem,
         left' \in [Budgets -> Nat], left'["rows"] = left["rows"]
  PROVE  Inv' /\ Saved
  <1>1. /\ pc' = "idle" /\ call' = call /\ view' \in Listed
        /\ through' = 0 /\ todo' = {} /\ ready' = {}
        /\ choice' \in [Groups -> 0..MaxRows + 1] /\ costs' \in [Accounts -> 0..MaxRate]
    BY NothingListed, ConstantFacts DEF EndCycle
  <1>2. health' \in Check!Health
    <2>1. health' = Check!Healthy \/ health' = Check!Failed(health)
      BY DEF EndCycle
    <2>2. health \in Check!Health
      BY DEF Inv, TypeOK
    <2> QED
      BY <2>1, <2>2, HealthStaysHealth
  <1>3. past' \in [good : 0..MaxAge, wait : 0..MaxAge]
    <2>1. past' = past \/ past' = [past EXCEPT !.good = 0]
      BY DEF EndCycle
    <2>2. past \in [good : 0..MaxAge, wait : 0..MaxAge] /\ 0 \in 0..MaxAge
      BY ConstantFacts DEF Inv, TypeOK
    <2> QED
      BY <2>1, <2>2
  <1>4. UNCHANGED <<env, log, on, acct, key, oldest, rate, mem, up>> /\ ~Looking'
    BY <1>1 DEF gateway, Looking
  <1>5. /\ Memories' /\ disk' \in State
        /\ \A h \in Groups : Linked(log, h, disk.dynamic[h], disk'.dynamic[h])
    <2>1. mem' = mem /\ mem \in State /\ \A h \in Groups : MemoryInv(h)
      BY <1>4 DEF Inv, TypeOK, Memories
    <2> QED
      BY <1>4, <2>1, MemoriesKept DEF MemoryInv
  <1>6. Len(log) \in Nat
    BY LogFacts DEF Inv
  <1>7. TypeOK'
    BY <1>1, <1>2, <1>3, <1>4, <1>5, <1>6 DEF Inv, TypeOK
  <1>8. Surroundings' /\ Duties' /\ Calls'
    BY <1>1, <1>4 DEF Inv, Surroundings, Duties, Calls, Looking
  <1> QED
    BY <1>4, <1>5, <1>7, <1>8 DEF Inv, Saved

LEMMA FaultBudget ==
  ASSUME Inv
  PROVE  /\ UNCHANGED left \/ Happens("faults") \/ Happens("crashes") =>
              left' \in [Budgets -> Nat] /\ left'["rows"] = left["rows"]
BY BudgetsShrink DEF Inv, Surroundings, Budgets

LEMMA EndsKeepInv ==
  ASSUME Inv, ListFails \/ SaveState \/ SaveFails
  PROVE  Inv' /\ Saved
  <1>1. CASE ListFails
    <2>1. call = NoCall
      BY <1>1 DEF ListFails, Inv, Calls
    <2> QED
      BY <1>1, <2>1, FaultBudget, EndKeepsInv DEF ListFails
  <1>2. CASE SaveState
    BY <1>2, FaultBudget, EndKeepsInv DEF SaveState, Through, Idle
  <1>3. CASE SaveFails
    BY <1>3, FaultBudget, EndKeepsInv DEF SaveFails, Through, Idle
  <1> QED
    BY <1>1, <1>2, <1>3

LEMMA ListKeepsInv ==
  ASSUME Inv, List
  PROVE  Inv'
  <1>1. /\ up /\ pc = "idle" /\ call' = NoCall /\ pc' \in {"initial", "single"}
        /\ UNCHANGED <<env, log, on, acct, key, oldest, rate, disk, mem, up, through, ready, choice,
                      costs, call, health, past, left>>
    BY DEF List, gateway, Inv, Calls
  <1>2. view' = [on |-> on, acct |-> acct, rate |-> rate] /\ view' \in Listed
        /\ view'.rate \in [Groups -> Rates]
    BY ConstantFacts DEF List, Listed, Inv, TypeOK
  <1>3. todo' = {g \in Groups : Cardinality(env.bound[g] \cap on) = 1}
    BY DEF List
  <1>4. todo' = Single'
    BY <1>1, <1>2, <1>3 DEF Single, Bound
  <1>5. Memories'
    BY <1>1, MemoriesStay DEF Looking
  <1>6. pc' = "initial" => env.image # 0
    BY DEF List, InitialDue
  <1>7. TypeOK'
    BY <1>1, <1>3 DEF Inv, TypeOK
  <1>8. Surroundings'
    BY <1>1, <1>2, <1>6 DEF Inv, Surroundings
  <1>9. Duties' /\ Calls'
    BY <1>1, <1>4 DEF Duties, Calls, Looking
  <1> QED
    BY <1>5, <1>7, <1>8, <1>9 DEF Inv

LEMMA InitializeKeepsInv ==
  ASSUME Inv, Initialize
  PROVE  Inv' /\ Saved
  <1> DEFINE g == env.image
             rebased == [a \in Accounts |-> IF a \in env.initial THEN view.acct[a] ELSE Invalid]
             m == [mem.dynamic[g] EXCEPT !.pend = InitialRate, !.rates = rebased]
  <1>1. /\ g \in Groups /\ pc = "initial" /\ call = NoCall
        /\ UNCHANGED <<env, gateway, log, on, acct, key, oldest, rate, up>>
    BY DEF Initialize, gateway, Inv, Surroundings, Environment, Calls
  <1>2. rebased \in [Accounts -> 0..MaxRate]
    BY ConstantFacts DEF Inv, Surroundings, Listed, Invalid
  <1>3. CASE /\ UNCHANGED left \/ Happens("faults")
             /\ EndCycle(FALSE) /\ UNCHANGED <<mem, disk>>
    BY <1>1, <1>3, FaultBudget, EndKeepsInv
  <1>4. CASE /\ mem' = [mem EXCEPT !.dynamic[g] = m, !.applied = TRUE] /\ disk' = mem'
             /\ pc' = "single"
             /\ UNCHANGED <<health, past, view, through, todo, ready, choice, costs, call, left>>
    <2>1. /\ m \in Memory /\ m.init = mem.dynamic[g].init /\ m.last = mem.dynamic[g].last
          /\ m.from = mem.dynamic[g].from /\ m.seen = mem.dynamic[g].seen
      <3>1. mem.dynamic[g] \in Memory /\ InitialRate \in 0..MaxRate
        BY <1>1, LogFacts, ConstantFacts DEF Inv
      <3> HIDE DEF rebased
      <3> QED
        BY <1>2, <3>1 DEF Memory
    <2> HIDE DEF m
    <2>2. Fits(g, m)
      BY <1>1, <2>1, KeptFits
    <2>3. /\ mem' \in State /\ mem'.dynamic[g] = m
          /\ \A h \in Groups : h # g => mem'.dynamic[h] = mem.dynamic[h]
      BY <1>1, <1>4, <2>1 DEF State, Inv, TypeOK
    <2>4. /\ Memories' /\ disk' \in State
          /\ \A h \in Groups : Linked(log, h, disk.dynamic[h], disk'.dynamic[h])
      <3>1. ~Looking'
        BY <1>4 DEF Looking
      <3>2. ASSUME NEW h \in Groups
            PROVE  /\ Sound(log, h, mem'.dynamic[h])
                   /\ Linked(log, h, disk.dynamic[h], mem'.dynamic[h])
        <4>1. CASE h = g
          BY <4>1, <2>2, <2>3 DEF Fits
        <4>2. CASE h # g
          BY <4>2, <2>3 DEF Inv, Memories, MemoryInv
        <4> QED
          BY <4>1, <4>2
      <3> QED
        BY <1>1, <1>4, <2>3, <3>1, <3>2, MemoriesKept
    <2>5. TypeOK'
      BY <1>1, <1>4, <2>3, <2>4 DEF Inv, TypeOK
    <2>6. Surroundings'
      BY <1>1, <1>4 DEF Inv, Surroundings
    <2>7. Duties' /\ Calls'
      BY <1>1, <1>4 DEF Inv, Duties, Calls, Looking, Single, Bound
    <2> QED
      BY <1>1, <2>4, <2>5, <2>6, <2>7 DEF Inv, Saved
  <1> QED
    BY <1>3, <1>4 DEF Initialize
\* The steps that only go on in the cycle.
LEMMA SingleKeepsInv ==
  ASSUME Inv, NEW g \in Groups, syncSingleAccountGroup(g)
  PROVE  Inv'
  <1> DEFINE r == view.acct[CHOOSE b \in Bound(g) : TRUE]
  <1>1. /\ g \in Single /\ pc = "single" /\ call = NoCall /\ todo' = todo \ {g}
        /\ UNCHANGED <<env, log, on, acct, key, oldest, rate, up, disk, mem, pc, view, through,
                      ready, choice, costs, left, health, past>>
    BY DEF syncSingleAccountGroup, Idle, Going, gateway, Inv, Duties
  <1>2. r \in 0..MaxRate
    <2>1. view.acct \in [Accounts -> 0..MaxRate]
      BY DEF Inv, Surroundings, Listed
    <2> QED
      BY <1>1, <2>1, OnlyAccount DEF Inv
  <1>3. call' = NoCall \/ (call' = [group |-> g, rate |-> r] /\ r # 0)
    BY <1>1 DEF syncSingleAccountGroup, Invalid
  <1>4. call' = NoCall \/ (call' \in [group : Groups, rate : Rates] /\ call'.group = g)
    BY <1>2, <1>3, ConstantFacts DEF Rates
  <1>5. Memories'
    BY <1>1, MemoriesStay DEF Looking
  <1>6. TypeOK'
    BY <1>1, <1>4 DEF Inv, TypeOK
  <1>7. Surroundings'
    BY <1>1 DEF Inv, Surroundings
  <1>8. Duties' /\ Calls'
    BY <1>1, <1>4 DEF Inv, Duties, Calls, Looking, Single, Plan, Bound
  <1> QED
    BY <1>5, <1>6, <1>7, <1>8 DEF Inv

LEMMA UsageFailsKeepsInv ==
  ASSUME Inv, UsageFails
  PROVE  Inv'
  <1>1. /\ call' = NoCall /\ pc # "idle" /\ pc' = "save" /\ todo' = {}
        /\ UNCHANGED <<env, log, on, acct, key, oldest, rate, up, disk, mem, view, through, ready,
                      choice, costs, call, health, past>>
        /\ left' \in [Budgets -> Nat] /\ left'["rows"] = left["rows"]
    BY FaultBudget DEF UsageFails, Idle, Going, gateway
  <1>2. Memories'
    BY <1>1, MemoriesStay DEF Looking
  <1>3. TypeOK'
    BY <1>1 DEF Inv, TypeOK
  <1>4. Surroundings' /\ Duties' /\ Calls'
    BY <1>1 DEF Inv, Surroundings, Duties, Calls, Looking
  <1> QED
    BY <1>2, <1>3, <1>4 DEF Inv

LEMMA PrepareKeepsInv ==
  ASSUME Inv, prepareDynamicStates
  PROVE  Inv'
  <1>1. /\ call' = NoCall /\ pc = "single" /\ pc' \in {"seed", "bootstrap"}
        /\ through' = Len(log) /\ ready' = {g \in Plan : Prepared(g).init}
        /\ todo' = Plan \ ready'
        /\ UNCHANGED <<env, log, on, acct, key, oldest, rate, up, disk, view, choice, costs, call,
                      left, health, past>>
    BY DEF prepareDynamicStates, Idle, Going, gateway
  <1>2. mem' = [mem EXCEPT !.dynamic = [g \in Groups |-> IF g \in Plan THEN Prepared(g) ELSE @[g]]]
    BY DEF prepareDynamicStates
  <1>3. Plan \subseteq Groups /\ Plan' = Plan /\ Single' = Single
    BY <1>1 DEF Plan, Single, Bound
  <1>4. ASSUME NEW h \in Groups
        PROVE  mem'.dynamic[h] = IF h \in Plan THEN Prepared(h) ELSE mem.dynamic[h]
    BY <1>2 DEF Inv, TypeOK, State
  <1>5. ASSUME NEW h \in Groups
        PROVE  /\ mem'.dynamic[h] \in Memory /\ mem'.dynamic[h].last <= Len(log)
               /\ Sound(log, h, mem'.dynamic[h])
               /\ Linked(log, h, disk.dynamic[h], mem'.dynamic[h])
               /\ disk.dynamic[h].last <= Len(log)
    <2>1. MemoryInv(h) /\ mem.dynamic[h] \in Memory
      BY LogFacts DEF Inv, Memories
    <2>2. CASE h \in Plan
      BY <1>4, <2>1, <2>2, PreparedFits DEF MemoryInv, Sound
    <2>3. CASE h \notin Plan
      BY <1>4, <2>1, <2>3 DEF MemoryInv, Sound
    <2> QED
      BY <2>2, <2>3
  <1>6. mem' \in State
    <2>1. /\ mem'.applied = mem.applied /\ mem.applied \in BOOLEAN
          /\ mem' = [dynamic |-> mem'.dynamic, applied |-> mem'.applied]
          /\ mem'.dynamic = [h \in Groups |-> mem'.dynamic[h]]
      BY <1>2 DEF Inv, TypeOK, State
    <2> QED
      BY <1>5, <2>1 DEF State
  <1>7. Memories'
    BY <1>1, <1>5, <1>6, MemoriesKept
  <1>8. TypeOK'
    <2>1. through' \in 0..Len(log)
      BY <1>1, LogFacts DEF Inv
    <2>2. todo' \in SUBSET Groups /\ ready' \in SUBSET Groups
      BY <1>1, <1>3
    <2> QED
      BY <1>1, <1>6, <2>1, <2>2 DEF Inv, TypeOK
  <1>9. Surroundings'
    BY <1>1 DEF Inv, Surroundings
  <1>10. Duties' /\ Calls'
    BY <1>1, <1>3, <1>4 DEF Inv, Duties, Calls, Looking
  <1> QED
    BY <1>7, <1>8, <1>9, <1>10 DEF Inv

LEMMA BootstrapLoadKeepsInv ==
  ASSUME Inv, loadDynamicBootstrap
  PROVE  Inv'
  <1>1. /\ call' = NoCall /\ pc = "bootstrap" /\ pc' = "seed" /\ costs' = acct
        /\ UNCHANGED <<env, log, on, acct, key, rate, up, disk, mem, view, through, todo, ready,
                      call, left, health, past>>
    BY DEF loadDynamicBootstrap, Idle, Going, gateway
  <1>2. oldest' \in 1..MaxRows + 1
    <2>1. oldest \in 1..MaxRows + 1 /\ oldest' \in oldest..through + 1
      BY DEF loadDynamicBootstrap, Inv, TypeOK
    <2> QED
      BY <2>1, LogFacts, ConstantFacts DEF Inv
  <1>3. choice' \in [Groups -> 0..MaxRows + 1]
    <2>1. PICK first \in [todo -> oldest'..through + 1] :
            choice' = [g \in Groups |->
              IF g \in todo /\ dynamicBootstrapSufficient(g, first[g]) THEN first[g] ELSE 0]
      BY DEF loadDynamicBootstrap
    <2>2. oldest'..through + 1 \subseteq 0..MaxRows + 1 /\ 0 \in 0..MaxRows + 1
      BY <1>2, LogFacts, ConstantFacts DEF Inv
    <2> QED
      BY <2>1, <2>2
  <1>4. Memories'
    BY <1>1, MemoriesStay DEF Looking
  <1>5. TypeOK'
    BY <1>1, <1>3, <1>2 DEF Inv, TypeOK
  <1>6. Surroundings' /\ Duties' /\ Calls'
    BY <1>1 DEF Inv, Surroundings, Duties, Calls, Looking, Plan, Single, Bound
  <1> QED
    BY <1>4, <1>5, <1>6 DEF Inv

LEMMA TurnsKeepInv ==
  ASSUME Inv, BeginRetry \/ ListGroupUsageSince
  PROVE  Inv'
  <1>1. /\ call' = NoCall /\ pc \in {"seed", "retry"} /\ pc' \in {"retry", "consume"}
        /\ todo' \subseteq ready /\ ready' \subseteq ready
        /\ UNCHANGED <<env, log, on, acct, key, oldest, rate, up, disk, mem, view, through, choice,
                      call, left, health, past>>
        /\ costs' = costs \/ costs' = acct
    BY DEF BeginRetry, ListGroupUsageSince, Idle, Going, gateway
  <1>2. Memories'
    BY <1>1, MemoriesStay DEF Looking
  <1>3. TypeOK'
    BY <1>1 DEF Inv, TypeOK
  <1>4. Surroundings' /\ Duties' /\ Calls'
    BY <1>1 DEF Inv, Surroundings, Duties, Calls, Looking, Plan, Single, Bound
  <1> QED
    BY <1>2, <1>3, <1>4 DEF Inv
\* The answer to a PUT, and a process that ends and starts.
LEMMA AppliedRates ==
  ASSUME TypeOK, call # NoCall, Applied
  PROVE  rate' = [rate EXCEPT ![call.group] = call.rate] /\ rate' \in [Groups -> Rates]
BY DEF TypeOK, Applied

LEMMA AnswerKeepsInv ==
  ASSUME Inv, UpdateSucceeds \/ UpdateFails
  PROVE  Inv'
  <1>1. /\ call # NoCall /\ call.group \in Groups /\ call' = NoCall
        /\ rate' \in [Groups -> Rates]
        /\ left' \in [Budgets -> Nat] /\ left'["rows"] = left["rows"]
        /\ UNCHANGED <<env, log, on, acct, key, oldest, disk, up, pc, view, through, todo, ready,
                      choice, costs, health, past>>
    <2>1. call # NoCall /\ call' = NoCall /\ (Applied \/ rate' = rate)
      BY DEF UpdateSucceeds, UpdateFails
    <2>2. call \in [group : Groups, rate : Rates] /\ rate' \in [Groups -> Rates]
      BY <2>1, AppliedRates DEF Inv, TypeOK
    <2> QED
      BY <2>1, <2>2, FaultBudget DEF UpdateSucceeds, UpdateFails, gateway
  <1> DEFINE g == call.group
             n == clearDynamicPending(mem.dynamic[g])
  <1>2. \/ mem' = mem
        \/ mem' = [mem EXCEPT !.dynamic[g] = n]
    BY DEF UpdateSucceeds, UpdateFails
  <1>3. /\ n \in Memory
        /\ n.init = mem.dynamic[g].init /\ n.last = mem.dynamic[g].last
        /\ n.from = mem.dynamic[g].from /\ n.seen = mem.dynamic[g].seen
    <2>1. mem.dynamic[g] \in Memory /\ 0 \in 0..MaxRate
      <3>1. \A h \in Groups : mem.dynamic[h] \in Memory
        BY LogFacts DEF Inv
      <3>2. g \in Groups
        BY <1>1
      <3>3. 0 \in 0..MaxRate
        BY ConstantFacts
      <3> HIDE DEF n, g
      <3> QED
        BY <3>1, <3>2, <3>3
    <2>2. n = [mem.dynamic[g] EXCEPT !.pend = 0]
      BY DEF clearDynamicPending
    <2> HIDE DEF n, g
    <2> QED
      BY <2>1, <2>2, PendMemory
  <1>4. mem \in State /\ Fits(g, n)
    BY <1>1, <1>3, KeptFits DEF Inv, TypeOK
  <1> HIDE DEF n, g
  <1>5. /\ mem' \in State
        /\ \A h \in Groups : mem'.dynamic[h] = mem.dynamic[h] \/ (h = g /\ mem'.dynamic[h] = n)
    <2>1. CASE mem' = mem
      BY <2>1, <1>4
    <2>2. CASE mem' = [mem EXCEPT !.dynamic[g] = n]
      BY <2>2, <1>1, <1>3, <1>4, PutMemory DEF g
    <2> QED
      BY <1>2, <2>1, <2>2
  <1>6. ASSUME NEW h \in Groups
        PROVE  /\ Sound(log, h, mem'.dynamic[h])
               /\ Linked(log, h, disk.dynamic[h], mem'.dynamic[h])
               /\ mem'.dynamic[h].last = mem.dynamic[h].last
               /\ mem.dynamic[h].init => mem'.dynamic[h].init
    <2>1. CASE mem'.dynamic[h] = mem.dynamic[h]
      BY <2>1 DEF Inv, Memories, MemoryInv
    <2>2. CASE h = g /\ mem'.dynamic[h] = n
      BY <2>2, <1>3, <1>4 DEF Fits, g
    <2> QED
      BY <1>5, <2>1, <2>2
  <1>7. Looking' => \A h \in Groups :
                      mem'.dynamic[h].last <= through' /\ disk.dynamic[h].last <= through'
    BY <1>1, <1>6 DEF Looking, Inv, Memories, MemoryInv
  <1>8. Memories'
    BY <1>1, <1>5, <1>6, <1>7, MemoriesKept
  <1>9. TypeOK'
    BY <1>1, <1>5 DEF Inv, TypeOK
  <1>10. Surroundings' /\ Calls'
    BY <1>1 DEF Inv, Surroundings, Calls
  <1>11. Duties'
    BY <1>1, <1>6 DEF Inv, TypeOK, Duties, Looking, Plan, Single, Bound
  <1> QED
    BY <1>8, <1>9, <1>10, <1>11 DEF Inv

LEMMA CrashKeepsInv ==
  ASSUME Inv, Crash
  PROVE  Inv'
  <1>1. /\ call' = NoCall /\ pc' = "idle" /\ view' \in Listed
        /\ through' = 0 /\ todo' = {} /\ ready' = {} /\ mem' = newState
        /\ choice' \in [Groups -> 0..MaxRows + 1] /\ costs' \in [Accounts -> 0..MaxRate]
        /\ UNCHANGED <<env, log, on, acct, key, oldest, disk, health, past>>
        /\ left' \in [Budgets -> Nat] /\ left'["rows"] = left["rows"]
    BY NothingListed, FaultBudget, ConstantFacts DEF Crash, gateway
  <1>2. rate' \in [Groups -> Rates]
    BY AppliedRates DEF Crash, Inv, TypeOK
  <1>3. Memories' /\ mem' \in State
    <2>1. ~Looking' /\ mem' \in State
      BY <1>1, FreshMemory DEF Looking
    <2>2. ASSUME NEW h \in Groups
          PROVE  /\ Sound(log, h, mem'.dynamic[h])
                 /\ Linked(log, h, disk.dynamic[h], mem'.dynamic[h])
      <3>1. /\ mem'.dynamic[h].init = FALSE /\ mem'.dynamic[h].last = 0
            /\ mem'.dynamic[h].from = 0 /\ mem'.dynamic[h].seen = Never
        BY <1>1, FreshMemory DEF newDynamicGroupState
      <3>2. Len(log) \in Nat
        BY LogFacts DEF Inv
      <3> QED
        BY <3>1, <3>2 DEF Sound, Linked, Never, Ids
    <2> QED
      BY <1>1, <2>1, <2>2, MemoriesKept
  <1>4. Len(log) \in Nat
    BY LogFacts DEF Inv
  <1>5. TypeOK'
    BY <1>1, <1>2, <1>3, <1>4 DEF Inv, TypeOK
  <1>6. Surroundings' /\ Duties' /\ Calls'
    BY <1>1 DEF Inv, Surroundings, Duties, Calls, Looking
  <1> QED
    BY <1>3, <1>5, <1>6 DEF Inv

LEMMA StartKeepsInv ==
  ASSUME Inv, Start
  PROVE  Inv'
  <1>1. /\ pc = "idle" /\ mem' = disk
        /\ health' = Check!Invalidated /\ past' = [good |-> MaxAge, wait |-> MaxAge]
        /\ UNCHANGED <<env, log, on, acct, key, oldest, rate, disk, pc, view, through, todo, ready,
                      choice, costs, call, left>>
    BY DEF Start, gateway, local, Inv, Duties
  <1>2. Memories' /\ mem' \in State
    <2>1. mem' \in State /\ ~Looking'
      BY <1>1 DEF Inv, TypeOK, Looking
    <2>2. ASSUME NEW h \in Groups
          PROVE  Sound(log, h, mem'.dynamic[h]) /\ Linked(log, h, disk.dynamic[h], mem'.dynamic[h])
      BY <1>1, LogFacts, LinkedToItself DEF Inv, Memories, MemoryInv
    <2> QED
      BY <1>1, <2>1, <2>2, MemoriesKept
  <1>3. health' \in Check!Health /\ past' \in [good : 0..MaxAge, wait : 0..MaxAge]
    BY <1>1, HealthStaysHealth, ConstantFacts
  <1>4. TypeOK'
    BY <1>1, <1>2, <1>3 DEF Inv, TypeOK
  <1>5. Surroundings' /\ Duties' /\ Calls'
    BY <1>1 DEF Inv, Surroundings, Duties, Calls, Looking
  <1> QED
    BY <1>2, <1>4, <1>5 DEF Inv

\* Time, and what the others do; a request is the only one that matters.
LEMMA ClockKeepsInv ==
  ASSUME Inv, WaitForKey \/ Tick
  PROVE  Inv'
  <1>1. UNCHANGED <<env, log, on, acct, key, oldest, rate, disk, mem, up, pc, view, through, todo,
                    ready, choice, costs, call, good, left>>
    BY DEF WaitForKey, Tick, gateway, local
  <1>2. /\ health \in Check!Health /\ past \in [good : 0..MaxAge, wait : 0..MaxAge]
        /\ 0 \in 0..MaxAge
    BY ConstantFacts DEF Inv, TypeOK
  <1>3. health' \in Check!Health /\ past' \in [good : 0..MaxAge, wait : 0..MaxAge]
    <2>1. CASE WaitForKey
      BY <2>1, <1>2, HealthStaysHealth DEF WaitForKey
    <2>2. CASE Tick
      BY <2>2, <1>2, HealthStaysHealth DEF Tick
    <2> QED
      BY <2>1, <2>2
  <1>4. Memories'
    BY <1>1, MemoriesStay DEF Looking
  <1>5. TypeOK'
    BY <1>1, <1>3 DEF Inv, TypeOK
  <1>6. Surroundings' /\ Duties' /\ Calls'
    BY <1>1 DEF Inv, Surroundings, Duties, Calls, Looking, Plan, Single, Bound
  <1> QED
    BY <1>4, <1>5, <1>6 DEF Inv

LEMMA RequestKeepsInv ==
  ASSUME Inv, NEW g \in Groups, NEW a \in Accounts, Request(g, a)
  PROVE  Inv'
  <1> DEFINE r == [group |-> g, account |-> a]
  <1>1. /\ left["rows"] > 0 /\ left'["rows"] = left["rows"] - 1 /\ left["rows"] \in Nat
        /\ left' \in [Budgets -> Nat]
        /\ UNCHANGED <<env, on, acct, key, oldest, rate, disk, mem, up, pc, view, through, todo,
                      ready, choice, costs, call, good, health, past>>
    BY BudgetsShrink DEF Request, Untouched, local, Budgets, Inv, Surroundings
  <1>2. log' = Append(log, r) /\ r \in Requests
    BY DEF Request, Requests
  <1>3. /\ log' \in Seq(Requests) /\ Len(log') = Len(log) + 1 /\ Len(log) \in Nat
        /\ DOMAIN log' = 1..Len(log')
    BY <1>2 DEF Inv, Surroundings
  <1>4. Len(log') + left'["rows"] <= MaxRows
    <2>1. Len(log) + left["rows"] <= MaxRows
      BY DEF Inv, Surroundings
    <2> QED
      BY <1>1, <1>3, <2>1, ConstantFacts
  <1>5. Memories'
    <2> SUFFICES ASSUME NEW h \in Groups PROVE MemoryInv(h)'
      BY DEF Memories
    <2>1. MemoryInv(h) /\ log \in Seq(Requests)
      BY DEF Inv, Memories, Surroundings
    <2>2. disk.dynamic[h] \in Memory /\ mem.dynamic[h] \in Memory
      BY LogFacts DEF Inv
    <2>3. /\ Sound(log', h, disk.dynamic[h]) /\ Sound(log', h, mem.dynamic[h])
          /\ Linked(log', h, disk.dynamic[h], mem.dynamic[h])
      BY <1>2, <2>1, <2>2, LongerLog, LinkedToItself DEF MemoryInv
    <2> QED
      BY <1>1, <2>1, <2>3 DEF MemoryInv, Looking
  <1>6. TypeOK'
    <2>1. \A i \in DOMAIN log' : log'[i] \in [group : Groups, account : Accounts]
      <3>1. \A i \in 1..Len(log') : log'[i] \in Requests
        BY <1>3
      <3> QED
        BY <1>3, <3>1 DEF Requests
    <2>2. Len(log') <= MaxRows
      BY <1>1, <1>3, <1>4, ConstantFacts
    <2>3. through' \in 0..Len(log')
      BY <1>1, <1>3 DEF Inv, TypeOK
    <2> QED
      BY <1>1, <2>1, <2>2, <2>3 DEF Inv, TypeOK
  <1>7. Surroundings'
    BY <1>1, <1>3, <1>4 DEF Inv, Surroundings
  <1>8. Duties' /\ Calls'
    BY <1>1 DEF Inv, Duties, Calls, Looking, Plan, Single, Bound
  <1> QED
    BY <1>5, <1>6, <1>7, <1>8 DEF Inv

LEMMA OthersKeepInv ==
  ASSUME Inv, NEW a, SetKey \/ ChangeAccountRate(a) \/ Switch(a)
  PROVE  Inv'
  <1>1. /\ UNCHANGED <<env, log, oldest, rate, disk, mem, up, pc, view, through, todo, ready,
                      choice, costs, call, good, health, past>>
        /\ left' \in [Budgets -> Nat] /\ left'["rows"] = left["rows"]
    BY BudgetsShrink DEF SetKey, ChangeAccountRate, Switch, Untouched, local, Inv, Surroundings,
       Budgets
  <1>2. on' \in SUBSET Accounts
    <2>1. \A g \in Groups : env.bound[g] \subseteq Accounts
      BY DEF Inv, Surroundings, Environment
    <2>2. on \subseteq Accounts
      BY DEF Inv, TypeOK
    <2> QED
      BY <2>1, <2>2 DEF SetKey, ChangeAccountRate, Switch
  <1>3. acct' \in [Accounts -> 0..MaxRate]
    <2>1. env.rates \subseteq 0..MaxRate /\ acct \in [Accounts -> 0..MaxRate]
      BY DEF Inv, TypeOK, Surroundings, Environment
    <2> QED
      BY <2>1 DEF SetKey, ChangeAccountRate, Switch
  <1>4. Memories'
    BY <1>1, MemoriesStay DEF Looking
  <1>5. TypeOK'
    BY <1>1, <1>2, <1>3 DEF Inv, TypeOK
  <1>6. Surroundings' /\ Duties' /\ Calls'
    BY <1>1 DEF Inv, Surroundings, Duties, Calls, Looking, Plan, Single, Bound
  <1> QED
    BY <1>4, <1>5, <1>6 DEF Inv
LEMMA InitHolds == Init => Inv
  <1> SUFFICES ASSUME Init PROVE Inv
    OBVIOUS
  <1>1. /\ env \in Environment /\ log = <<>> /\ pc = "idle" /\ up /\ call = NoCall
        /\ mem = newState /\ disk = newState
    BY ConstantFacts DEF Init
  <1>2. log \in Seq(Requests) /\ Len(log) = 0 /\ DOMAIN log = {}
    BY <1>1
  <1>3. /\ left \in [Budgets -> Nat] /\ left["rows"] <= MaxRows
        /\ env.start \in Rates
    <2>1. left = env.budget
      BY DEF Init
    <2> QED
      BY <1>1, <2>1, ConstantFacts DEF Environment, Budgets
  <1>4. /\ choice \in [Groups -> 0..MaxRows + 1] /\ costs \in [Accounts -> 0..MaxRate]
        /\ view \in Listed /\ through = 0 /\ todo = {} /\ ready = {}
    BY NothingListed, ConstantFacts DEF Init
  <1>5. /\ acct \in [Accounts -> 0..MaxRate] /\ rate \in [Groups -> Rates]
        /\ on \in SUBSET Accounts /\ oldest \in 1..MaxRows + 1
    <2>1. oldest \in 1..MaxRows + 1
      <3>1. oldest = 1 /\ MaxRows \in Nat
        BY ConstantFacts DEF Init
      <3> QED
        BY <3>1
    <2>2. /\ acct \in [Accounts -> 0..MaxRate] /\ rate \in [Groups -> Rates]
          /\ on \in SUBSET Accounts
      BY <1>3, ConstantFacts DEF Init
    <2> QED
      BY <2>1, <2>2
  <1>6. health \in Check!Health /\ past \in [good : 0..MaxAge, wait : 0..MaxAge]
    BY HealthStaysHealth, ConstantFacts DEF Init
  <1>7. TypeOK
    BY <1>1, <1>2, <1>4, <1>5, <1>6, FreshMemory, ConstantFacts DEF TypeOK
  <1>8. Memories
    <2> SUFFICES ASSUME NEW h \in Groups PROVE MemoryInv(h)
      BY DEF Memories
    <2>1. disk.dynamic[h] = newDynamicGroupState /\ mem.dynamic[h] = newDynamicGroupState
      BY <1>1, FreshMemory
    <2>2. Sound(log, h, newDynamicGroupState)
      BY <1>2, ConstantFacts DEF Sound, newDynamicGroupState, Never, Ids
    <2>3. Linked(log, h, newDynamicGroupState, newDynamicGroupState)
      BY DEF Linked, newDynamicGroupState
    <2> QED
      BY <1>1, <2>1, <2>2, <2>3 DEF MemoryInv, Looking
  <1>9. Surroundings
    <2>1. left["rows"] \in Nat /\ Len(log) + left["rows"] <= MaxRows
      BY <1>2, <1>3, ConstantFacts DEF Budgets
    <2> QED
      BY <1>1, <1>2, <1>3, <1>4, <2>1 DEF Surroundings
  <1>10. Duties /\ Calls
    BY <1>1 DEF Duties, Calls, Looking
  <1> QED
    BY <1>7, <1>8, <1>9, <1>10 DEF Inv

\* Most steps leave the log, the file and the rates alone.
LEMMA QuietSteps ==
  ASSUME Inv,
         \/ WaitForKey \/ List \/ prepareDynamicStates \/ loadDynamicBootstrap \/ UsageFails
         \/ BeginRetry \/ ListGroupUsageSince \/ \E g \in Groups : syncSingleAccountGroup(g)
         \/ Start \/ Tick \/ SetKey \/ \E a \in Accounts : ChangeAccountRate(a) \/ Switch(a)
  PROVE  Inv' /\ Saved
  <1>1. Inv'
    BY ClockKeepsInv, ListKeepsInv, PrepareKeepsInv, BootstrapLoadKeepsInv, UsageFailsKeepsInv,
       TurnsKeepInv, SingleKeepsInv, StartKeepsInv, OthersKeepInv
  <1>2. UNCHANGED <<log, rate, disk>>
    BY DEF WaitForKey, List, prepareDynamicStates, loadDynamicBootstrap, UsageFails, BeginRetry,
           ListGroupUsageSince, syncSingleAccountGroup, Start, Tick, SetKey, ChangeAccountRate,
           Switch, Going, Untouched, gateway
  <1> QED
    BY <1>1, <1>2, UnsavedIsSaved

\* The others save, go over a group, or hear from the gateway.
LEMMA StepCases ==
  ASSUME Inv, Next
  PROVE  /\ Inv'
         /\ \/ Saved
            \/ UNCHANGED <<log, disk>> /\ (rate' = rate \/ (call # NoCall /\ Applied))
            \/ \E g \in Groups, a \in Accounts : Request(g, a)
  <1>1. CASE \/ WaitForKey \/ List \/ prepareDynamicStates \/ loadDynamicBootstrap \/ UsageFails
             \/ BeginRetry \/ ListGroupUsageSince \/ \E g \in Groups : syncSingleAccountGroup(g)
             \/ Start \/ Tick \/ SetKey
             \/ \E a \in Accounts : ChangeAccountRate(a) \/ Switch(a)
    BY <1>1, QuietSteps
  <1>2. CASE ListFails \/ SaveState \/ SaveFails
    BY <1>2, EndsKeepInv
  <1>3. CASE Initialize
    BY <1>3, InitializeKeepsInv
  <1>4. ASSUME NEW g \in Groups,
               BootstrapWaits(g) \/ Seed(g) \/ Retry(g) \/ consumeDynamicGroup(g)
        PROVE  Inv' /\ Saved
    BY <1>4, BootstrapKeepsInv, CycleOverGroupsKeepsInv
  <1>5. CASE UpdateSucceeds \/ UpdateFails
    <2>1. UNCHANGED <<log, disk>> /\ (rate' = rate \/ (call # NoCall /\ Applied))
      BY <1>5 DEF UpdateSucceeds, UpdateFails, gateway
    <2> QED
      BY <1>5, <2>1, AnswerKeepsInv
  <1>6. CASE Crash
    <2>1. UNCHANGED <<log, disk>> /\ (rate' = rate \/ (call # NoCall /\ Applied))
      BY <1>6 DEF Crash, gateway
    <2> QED
      BY <1>6, <2>1, CrashKeepsInv
  <1>7. ASSUME NEW g \in Groups, NEW a \in Accounts, Request(g, a)
        PROVE  Inv'
    BY <1>7, RequestKeepsInv
  <1> QED
    BY <1>1, <1>2, <1>3, <1>4, <1>5, <1>6, <1>7 DEF Next, Cycle, Around

LEMMA InvHolds == Spec => []Inv
  <1>1. Inv /\ [Next]_vars => Inv'
    <2> SUFFICES ASSUME Inv, UNCHANGED vars PROVE Inv'
      BY StepCases
    <2>1. UNCHANGED <<env, log, on, acct, key, oldest, rate, disk, mem, up, pc, view, through, todo,
                      ready, choice, costs, call, good, health, past, left>>
      BY DEF vars, gateway, local
    <2>2. Memories'
      BY <2>1, MemoriesStay DEF Looking
    <2> QED
      BY <2>1, <2>2 DEF Inv, TypeOK, Surroundings, Duties, Calls, Looking, Plan, Single, Bound
  <1> QED
    BY InitHolds, <1>1, PTL DEF Spec

-----------------------------------------------------------------------------
(* The ledger.                                                              *)

\* The log as the ledger sees it.
GroupLog == [i \in DOMAIN log |-> log[i].group]

LEMMA GroupsOfLogs ==
  ASSUME NEW l \in Seq(Requests)
  PROVE  LET k == [i \in DOMAIN l |-> l[i].group] IN
           /\ k \in Seq(Groups) /\ Len(k) = Len(l) /\ Len(l) \in Nat
           /\ \A i \in 1..Len(l) : k[i] = l[i].group
  <1> DEFINE k == [i \in DOMAIN l |-> l[i].group]
  <1>1. Len(l) \in Nat /\ DOMAIN l = 1..Len(l) /\ \A i \in 1..Len(l) : l[i] \in Requests
    OBVIOUS
  <1>2. k \in [1..Len(l) -> Groups] /\ \A i \in 1..Len(l) : k[i] = l[i].group
    BY <1>1 DEF Requests
  <1> HIDE DEF k
  <1>3. k \in Seq(Groups) /\ Len(k) = Len(l)
    BY <1>1, <1>2
  <1> QED
    BY <1>1, <1>2, <1>3 DEF k

LEMMA LedgerLog ==
  ASSUME Inv
  PROVE  /\ GroupLog \in Seq(Groups) /\ Len(GroupLog) = Len(log)
         /\ \A g, lo, hi : Ledger!RowsOf(g, lo, hi) = Rows(log, g, lo, hi)
  <1>1. /\ Len(log) \in Nat /\ DOMAIN log = 1..Len(log)
        /\ \A i \in DOMAIN log : log[i].group \in Groups
    BY LogFacts DEF Inv
  <1>2. GroupLog \in [1..Len(log) -> Groups] /\ \A i \in DOMAIN log : GroupLog[i] = log[i].group
    BY <1>1 DEF GroupLog
  <1>3. GroupLog \in Seq(Groups) /\ Len(GroupLog) = Len(log)
    BY GroupsOfLogs DEF GroupLog, Inv, Surroundings
  <1>4. \A g, lo, hi : Ledger!RowsOf(g, lo, hi) = Rows(log, g, lo, hi)
    BY <1>1, <1>2 DEF Ledger!RowsOf, Rows, GroupLog
  <1> QED
    BY <1>3, <1>4

LEMMA LedgerInit ==
  ASSUME Init
  PROVE  Ledger!Init
  <1>1. Inv
    BY InitHolds
  <1>2. GroupLog = <<>>
    <2>1. GroupLog \in Seq(Groups) /\ Len(GroupLog) = 0
      BY <1>1, LedgerLog DEF Init
    <2> QED
      BY <2>1, EmptySeq
  <1>3. \A g \in Groups : disk.dynamic[g] = newDynamicGroupState
    BY FreshMemory DEF Init
  <1>4. Single \in SUBSET Groups /\ rate \in [Groups -> Rates]
    BY <1>1 DEF Single, Inv, TypeOK
  <1>5. /\ [g \in Groups |-> disk.dynamic[g].seen] = [g \in Groups |-> [i \in 1..MaxRows |-> 0]]
        /\ [g \in Groups |-> disk.dynamic[g].from] = [g \in Groups |-> 0]
        /\ [g \in Groups |-> disk.dynamic[g].last] = [g \in Groups |-> 0]
        /\ [g \in Groups |-> disk.dynamic[g].pend] = [g \in Groups |-> 0]
    <2>1. ASSUME NEW g \in Groups
          PROVE  /\ disk.dynamic[g].seen = [i \in 1..MaxRows |-> 0]
                 /\ disk.dynamic[g].from = 0 /\ disk.dynamic[g].last = 0
                 /\ disk.dynamic[g].pend = 0
      <3>1. /\ newDynamicGroupState.seen = Never
            /\ newDynamicGroupState.from = 0 /\ newDynamicGroupState.last = 0
            /\ newDynamicGroupState.pend = 0
        BY DEF newDynamicGroupState
      <3> QED
        BY <1>3, <3>1 DEF Never
    <2> QED
      BY <2>1
  <1> QED
    BY <1>2, <1>4, <1>5 DEF Ledger!Init, Ledger!Ids, Ledger!Rates, Rates, GroupLog

\* What is saved of each group goes on, was started anew, or counts nothing.
LEMMA SavedIsLedgerStep ==
  ASSUME Inv, Inv', Saved
  PROVE  Ledger!Next
  <1>0. /\ log \in Seq(Requests) /\ Len(log) \in Nat
        /\ UNCHANGED <<log, rate>> /\ GroupLog' = GroupLog
        /\ Len(GroupLog) = Len(log)
        /\ \A g \in Groups : disk.dynamic[g] \in Memory /\ disk'.dynamic[g] \in Memory
    BY LogFacts, LedgerLog DEF Saved, Inv, TypeOK, State, GroupLog
  <1>1. ASSUME NEW g \in Groups
        PROVE  Ledger!Continued(g) \/ Ledger!Restarted(g) \/ Ledger!Dropped(g)
    <2> DEFINE d == disk.dynamic[g]
               n == disk'.dynamic[g]
    <2>1. /\ d \in Memory /\ n \in Memory /\ Sound(log, g, n) /\ Linked(log, g, d, n)
      BY <1>0 DEF Saved, Inv, Memories, MemoryInv
    <2>2. /\ d.last \in Nat /\ n.last \in Nat /\ n.from \in Nat /\ d.from \in Nat
          /\ d.seen \in [Ids -> 0..1] /\ n.seen \in [Ids -> 0..1] /\ n.last <= Len(log)
          /\ \A i \in Ids : i \in Nat \ {0}
      <3> HIDE DEF d, n
      <3>1. /\ d.last \in Nat /\ n.last \in Nat /\ n.from \in Nat /\ d.from \in Nat
            /\ d.seen \in [Ids -> 0..1] /\ n.seen \in [Ids -> 0..1]
        BY <2>1, MemoryFields
      <3>2. n.last <= Len(log)
        BY <2>1 DEF Sound
      <3> QED
        BY <3>1, <3>2, ConstantFacts DEF Ids
    <2> DEFINE seen == [h \in Groups |-> disk.dynamic[h].seen]
               from == [h \in Groups |-> disk.dynamic[h].from]
               mark == [h \in Groups |-> disk.dynamic[h].last]
               GroupsOfLog == [i \in DOMAIN log |-> log[i].group]
    <2>3. /\ seen[g] = d.seen /\ from[g] = d.from /\ mark[g] = d.last
          /\ seen'[g] = n.seen /\ from'[g] = n.from /\ mark'[g] = n.last
          /\ Len(GroupsOfLog) = Len(log)
      BY <1>0 DEF GroupLog
    <2> HIDE DEF d, n
    <2>4. CASE n.init /\ Follows(log, g, d, n)
      <3>1. n.seen = [i \in Ids |-> d.seen[i] + IF i \in Rows(log, g, d.last, n.last) THEN 1 ELSE 0]
        BY <2>2, <2>4 DEF Follows
      <3>2. n.last \in d.last..Len(log) /\ n.from = d.from
        BY <1>0, <2>2, <2>4 DEF Follows
      <3>3. Ledger!RowsOf(g, d.last, n.last) = Rows(log, g, d.last, n.last)
        BY LedgerLog
      <3>4. Ledger!Continued(g)
        <4> HIDE DEF seen, from, mark, GroupsOfLog
        <4>1. /\ from'[g] = from[g] /\ mark'[g] \in mark[g]..Len(GroupsOfLog)
              /\ seen'[g] = [i \in Ledger!Ids |->
                    seen[g][i] + IF i \in Ledger!RowsOf(g, mark[g], mark'[g]) THEN 1 ELSE 0]
          BY <2>3, <3>1, <3>2, <3>3 DEF Ledger!Ids, Ids
        <4> QED
          BY <4>1 DEF Ledger!Continued, seen, from, mark, GroupsOfLog
      <3> QED
        BY <3>4
    <2>5. CASE n.init /\ Anew(log, g, d, n)
      <3> DEFINE window == {i \in Ids : n.seen[i] = 1 /\ i <= n.from}
      <3>1. window \in SUBSET Rows(log, g, 0, n.from)
        BY <2>1, <2>2 DEF Sound, Rows
      <3>2. \A i \in Ids :
              n.seen[i] = IF i \in window \cup Rows(log, g, n.from, n.last) THEN 1 ELSE 0
        <4> SUFFICES ASSUME NEW i \in Ids
                     PROVE  n.seen[i] = IF i \in window \cup Rows(log, g, n.from, n.last)
                                          THEN 1 ELSE 0
          OBVIOUS
        <4>1. CASE n.seen[i] = 1
          <5>1. i \in Rows(log, g, 0, n.last)
            BY <4>1, <2>1 DEF Sound
          <5>2. i \in window \/ i \in Rows(log, g, n.from, n.last)
            BY <4>1, <5>1, <2>2 DEF Rows
          <5> QED
            BY <4>1, <5>2
        <4>2. CASE n.seen[i] # 1
          <5>1. n.seen[i] = 0
            BY <4>2, <2>2
          <5> QED
            BY <4>2, <5>1, <2>5 DEF Anew
        <4> QED
          BY <4>1, <4>2
      <3>3. n.seen = [i \in Ids |-> IF i \in window \cup Rows(log, g, n.from, n.last) THEN 1 ELSE 0]
        BY <2>2, <3>2
      <3>4. n.last \in d.last..Len(log) /\ n.from \in d.last..n.last
        BY <1>0, <2>2, <2>5 DEF Anew
      <3>5. /\ Ledger!RowsOf(g, 0, n.from) = Rows(log, g, 0, n.from)
            /\ Ledger!RowsOf(g, n.from, n.last) = Rows(log, g, n.from, n.last)
        BY LedgerLog
      <3> HIDE DEF window
      <3>6. Ledger!Restarted(g)
        <4> HIDE DEF seen, from, mark, GroupsOfLog
        <4>1. /\ mark'[g] \in mark[g]..Len(GroupsOfLog) /\ from'[g] \in mark[g]..mark'[g]
              /\ window \in SUBSET Ledger!RowsOf(g, 0, from'[g])
              /\ seen'[g] = [i \in Ledger!Ids |->
                    IF i \in window \cup Ledger!RowsOf(g, from'[g], mark'[g]) THEN 1 ELSE 0]
          BY <2>3, <3>1, <3>3, <3>4, <3>5 DEF Ledger!Ids, Ids
        <4>2. /\ mark'[g] \in mark[g]..Len(GroupsOfLog) /\ from'[g] \in mark[g]..mark'[g]
              /\ \E w \in SUBSET Ledger!RowsOf(g, 0, from'[g]) :
                   seen'[g] = [i \in Ledger!Ids |->
                     IF i \in w \cup Ledger!RowsOf(g, from'[g], mark'[g]) THEN 1 ELSE 0]
          BY <4>1
        <4> QED
          BY <4>2 DEF Ledger!Restarted, seen, from, mark, GroupsOfLog
      <3> QED
        BY <3>6
    <2>6. CASE ~n.init
      <3>1. n.last = 0 /\ n.from = 0 /\ n.seen = [i \in Ids |-> 0]
        BY <2>1, <2>6 DEF Sound, Never, Ids
      <3>2. Ledger!Dropped(g)
        BY <2>3, <3>1 DEF Ledger!Dropped, Ledger!Ids, Ids
      <3> QED
        BY <3>2
    <2> QED
      BY <2>1, <2>4, <2>5, <2>6 DEF Linked
  <1>2. \A g \in Groups : /\ disk'.dynamic[g].seen \in [Ids -> 0..1]
                         /\ disk'.dynamic[g].from \in 0..MaxRows
                         /\ disk'.dynamic[g].last \in 0..MaxRows
                         /\ disk'.dynamic[g].pend \in 0..MaxRate
    BY <1>0 DEF Memory, Ids
  <1>3. Ledger!Save
    BY <1>0, <1>1, <1>2 DEF Ledger!Save, Ledger!Ids, Ids, GroupLog
  <1>4. Single' \in SUBSET Groups
    BY DEF Single
  <1> QED
    BY <1>3, <1>4 DEF Ledger!Next

\* What reaches the gateway is the target on disk, or the rate of an only account.
LEMMA AnswerIsLedgerStep ==
  ASSUME Inv, UNCHANGED <<log, disk>>, rate' = rate \/ (call # NoCall /\ Applied)
  PROVE  Ledger!Next
  <1>0. Single' \in SUBSET Groups
    BY DEF Single
  <1>1. CASE rate' = rate
    BY <1>0, <1>1 DEF Ledger!Next
  <1>2. CASE call # NoCall /\ Applied
    <2> DEFINE g == call.group
    <2>1. /\ g \in Groups /\ call.rate \in Rates
          /\ rate' = [rate EXCEPT ![g] = call.rate]
      BY <1>2, AppliedRates DEF Inv, TypeOK
    <2>2. CASE g \in Single
      <3>1. Ledger!Inherit(g)
        BY <2>1, <2>2 DEF Ledger!Inherit, Ledger!Rates, Rates
      <3> QED
        BY <1>0, <2>1, <3>1 DEF Ledger!Next
    <2>3. CASE g \notin Single
      <3>1. disk.dynamic[g].pend = call.rate
        BY <1>2, <2>3 DEF Inv, Calls
      <3>2. call.rate # 0
        BY <2>1, ConstantFacts
      <3>3. [h \in Groups |-> disk.dynamic[h].pend][g] = call.rate
        BY <2>1, <3>1
      <3>4. Ledger!Publish(g)
        BY <2>1, <2>3, <3>2, <3>3 DEF Ledger!Publish
      <3> QED
        BY <1>0, <2>1, <3>4 DEF Ledger!Next
    <2> QED
      BY <2>2, <2>3
  <1> QED
    BY <1>1, <1>2

LEMMA RequestIsLedgerStep ==
  ASSUME Inv, Inv', NEW g \in Groups, NEW a \in Accounts, Request(g, a)
  PROVE  Ledger!Next
  <1>1. /\ log' = Append(log, [group |-> g, account |-> a]) /\ UNCHANGED <<disk, rate>>
        /\ log \in Seq(Requests) /\ Len(log) \in Nat /\ DOMAIN log = 1..Len(log)
    BY LogFacts DEF Request, Untouched, Inv
  <1>2. /\ log' \in Seq(Requests) /\ Len(log') = Len(log) + 1 /\ Len(log) < MaxRows
        /\ \A i \in 1..Len(log) : log'[i] = log[i]
        /\ log'[Len(log) + 1].group = g
    <2>1. [group |-> g, account |-> a] \in Requests
      BY DEF Requests
    <2>2. Len(log') <= MaxRows
      BY DEF Inv, TypeOK
    <2> QED
      BY <1>1, <2>1, <2>2, ConstantFacts
  <1>3. /\ GroupLog \in Seq(Groups) /\ GroupLog' \in Seq(Groups)
        /\ Len(GroupLog) = Len(log) /\ Len(GroupLog') = Len(log')
        /\ \A i \in 1..Len(log) : GroupLog[i] = log[i].group
        /\ \A i \in 1..Len(log') : GroupLog'[i] = log'[i].group
    BY <1>1, <1>2, GroupsOfLogs DEF GroupLog
  <1>4. GroupLog' = Append(GroupLog, g)
    <2> DEFINE k == Append(GroupLog, g)
    <2>1. k \in Seq(Groups) /\ Len(k) = Len(log) + 1
      BY <1>1, <1>3
    <2>2. \A i \in 1..Len(log) : k[i] = GroupLog[i]
      BY <1>1, <1>3
    <2>3. k[Len(log) + 1] = g
      BY <1>1, <1>3
    <2> HIDE DEF k
    <2>4. \A i \in 1..Len(log') : GroupLog'[i] = k[i]
      BY <1>1, <1>2, <1>3, <2>2, <2>3
    <2>5. GroupLog' = k
      BY <1>1, <1>2, <1>3, <2>1, <2>4, SeqEqual
    <2> QED
      BY <2>5 DEF k
  <1>5. Ledger!Request(g)
    <2>1. Len(GroupLog) < MaxRows
      BY <1>2, <1>3
    <2> QED
      BY <1>1, <1>4, <2>1 DEF Ledger!Request, GroupLog
  <1>6. Single' \in SUBSET Groups
    BY DEF Single
  <1> QED
    BY <1>5, <1>6 DEF Ledger!Next

LEMMA StepIsLedgerStep ==
  ASSUME Inv, [Next]_vars
  PROVE  [Ledger!Next]_(Ledger!vars)
  <1>1. CASE Next
    BY <1>1, StepCases, SavedIsLedgerStep, AnswerIsLedgerStep, RequestIsLedgerStep
  <1>2. CASE UNCHANGED vars
    BY <1>2 DEF vars, gateway, local, Ledger!vars, Single, Bound
  <1> QED
    BY <1>1, <1>2

-----------------------------------------------------------------------------
(* The theorems.                                                            *)

\* State file, memories, calls and health keep their types, and no memory
\* counts a request twice.
THEOREM GroupTypes == Spec => []TypeOK
  <1>1. Inv => TypeOK
    BY DEF Inv
  <1> QED
    BY InvHolds, <1>1, PTL

\* The state file and the rates are a ledger (dynamic_publish.go: the state is
\* saved, then the gateway is asked): every step is one of RateLedger or
\* changes nothing of it.
THEOREM RatesAreALedger == Spec => LedgerSpec
  <1>1. Init => Ledger!Init
    BY LedgerInit
  <1>2. Inv /\ [Next]_vars => [Ledger!Next]_(Ledger!vars)
    BY StepIsLedgerStep
  <1> QED
    BY InvHolds, <1>1, <1>2, PTL DEF Spec, LedgerSpec, Ledger!Spec

\* The ledger's own theorem, of the file of the group worker.
Counts == INSTANCE RateLedgerProofs WITH
  log <- [i \in DOMAIN log |-> log[i].group],
  seen <- [g \in Groups |-> disk.dynamic[g].seen],
  from <- [g \in Groups |-> disk.dynamic[g].from],
  mark <- [g \in Groups |-> disk.dynamic[g].last],
  intent <- [g \in Groups |-> disk.dynamic[g].pend],
  alone <- Single

\* So the file counts every request of a memory's time once, whatever fails.
THEOREM DiskCountsOnce == Spec => []Ledger!CountedOnce
  <1>1. Counts!Bounds
    BY ConstantFacts DEF Counts!Bounds
  <1>2. Counts!Spec => []Counts!CountedOnce
    BY <1>1, Counts!EachCountedOnce
  <1>3. Ledger!Init => Counts!Init
    BY DEF Ledger!Init, Counts!Init, Ledger!Ids, Counts!Ids, Ledger!Rates, Counts!Rates
  <1>4. [Ledger!Next]_(Ledger!vars) => [Counts!Next]_(Counts!vars)
    BY DEF Ledger!Next, Ledger!vars, Ledger!Save, Ledger!Request, Ledger!Publish, Ledger!Inherit,
           Ledger!Continued, Ledger!Restarted, Ledger!Dropped, Ledger!RowsOf, Ledger!Ids,
           Ledger!Rates,
           Counts!Next, Counts!vars, Counts!Save, Counts!Request, Counts!Publish, Counts!Inherit,
           Counts!Continued, Counts!Restarted, Counts!Dropped, Counts!RowsOf, Counts!Ids,
           Counts!Rates
  <1>5. Counts!CountedOnce => Ledger!CountedOnce
    BY DEF Ledger!CountedOnce, Counts!CountedOnce, Ledger!RowsOf, Counts!RowsOf, Ledger!Ids,
           Counts!Ids
  <1> QED
    BY RatesAreALedger, <1>2, <1>3, <1>4, <1>5, PTL DEF LedgerSpec, Ledger!Spec, Counts!Spec

\* The health file says healthy, or failed after a success, only as long as the
\* age of the last success allows, and waiting as long as it was written
\* lately, although files of other processes are found at a start (health.go).
HealthInv ==
  /\ health.success < MaxAge => past.good <= health.success
  /\ health.phase = "waiting" => past.wait <= health.cycle

LEMMA HealthStep ==
  ASSUME Inv, HealthInv, [Next]_vars
  PROVE  HealthInv'
  <1> DEFINE Same == health' = health /\ past' = past
             Ended(fine) == /\ health' = IF fine THEN Check!Healthy ELSE Check!Failed(health)
                            /\ past' = IF fine THEN [past EXCEPT !.good = 0] ELSE past
  <1>0. /\ MaxAge \in Nat \ {0} /\ health.cycle \in 0..MaxAge /\ health.success \in 0..MaxAge
        /\ past.good \in 0..MaxAge /\ past.wait \in 0..MaxAge
        /\ DOMAIN health = {"phase", "cycle", "success"} /\ DOMAIN past = {"good", "wait"}
    BY ConstantFacts DEF Inv, TypeOK, Check!Health, Check!Ages
  <1>1. CASE Same
    BY <1>1 DEF HealthInv
  <1>2. ASSUME NEW fine, Ended(fine) PROVE HealthInv'
    <2>1. CASE fine
      BY <1>0, <1>2, <2>1 DEF HealthInv, Check!Healthy
    <2>2. CASE ~fine
      BY <1>0, <1>2, <2>2 DEF HealthInv, Check!Failed
    <2> QED
      BY <2>1, <2>2
  <1>3. CASE health' = Check!Waiting /\ past' = [past EXCEPT !.wait = 0]
    BY <1>0, <1>3 DEF HealthInv, Check!Waiting, Check!Never
  <1>4. CASE health' = Check!Invalidated /\ past' = [good |-> MaxAge, wait |-> MaxAge]
    BY <1>0, <1>4 DEF HealthInv, Check!Invalidated, Check!Never
  <1>5. CASE Tick
    <2>1. /\ health'.phase = health.phase
          /\ health'.cycle = Check!Older(health.cycle)
          /\ health'.success = Check!Older(health.success)
          /\ past'.good = Check!Older(past.good) /\ past'.wait = Check!Older(past.wait)
      BY <1>0, <1>5 DEF Tick, Check!Aged
    <2> QED
      BY <1>0, <2>1 DEF HealthInv, Check!Older
  <1>6. \/ Same \/ Tick
        \/ \E fine \in BOOLEAN : Ended(fine)
        \/ health' = Check!Waiting /\ past' = [past EXCEPT !.wait = 0]
        \/ health' = Check!Invalidated /\ past' = [good |-> MaxAge, wait |-> MaxAge]
    <2>1. CASE UNCHANGED vars
      BY <2>1 DEF vars
    <2>2. CASE ListFails \/ Initialize \/ SaveState \/ SaveFails
      <3>1. Same \/ \E fine : EndCycle(fine)
        BY <2>2 DEF ListFails, Initialize, SaveState, SaveFails
      <3> QED
        BY <3>1 DEF EndCycle
    <2>3. CASE WaitForKey
      BY <2>3 DEF WaitForKey
    <2>4. CASE Start
      BY <2>4 DEF Start
    <2>5. CASE Tick
      BY <2>5
    <2>6. CASE Going
      BY <2>6 DEF Going
    <2>7. CASE List \/ UpdateSucceeds \/ UpdateFails \/ Crash
      BY <2>7 DEF List, UpdateSucceeds, UpdateFails, Crash
    <2>8. CASE Untouched
      BY <2>8 DEF Untouched
    <2>9. CASE Next
      BY <2>2, <2>3, <2>4, <2>5, <2>6, <2>7, <2>8, <2>9
      DEF Next, Cycle, Around, prepareDynamicStates, loadDynamicBootstrap, UsageFails, BeginRetry,
          ListGroupUsageSince, syncSingleAccountGroup, BootstrapWaits, Seed, Retry,
          consumeDynamicGroup, SetKey, ChangeAccountRate, Switch, Request
    <2> QED
      BY <2>1, <2>9
  <1> QED
    BY <1>1, <1>2, <1>3, <1>4, <1>5, <1>6

\* The health check (health.go, CheckHealth) passes only on a cycle of the last
\* three intervals that was of use or waited, whatever file a start finds.
THEOREM HealthTells == Spec => []HealthIsTrue
  <1>1. Init => HealthInv
    BY ConstantFacts DEF Init, HealthInv, Check!Invalidated, Check!Never
  <1>2. Inv /\ HealthInv /\ [Next]_vars => HealthInv'
    BY HealthStep
  <1>3. Inv /\ HealthInv => HealthIsTrue
    <2> SUFFICES ASSUME Inv, HealthInv, Check!Passes(health)
                 PROVE  past.good < MaxAge \/ past.wait < MaxAge
      BY DEF HealthIsTrue
    <2>1. /\ MaxAge \in Nat /\ health.cycle \in 0..MaxAge /\ health.success \in 0..MaxAge
          /\ past.good \in 0..MaxAge /\ past.wait \in 0..MaxAge
      BY ConstantFacts DEF Inv, TypeOK, Check!Health, Check!Ages
    <2> QED
      BY <2>1 DEF HealthInv, Check!Passes
  <1> QED
    BY InvHolds, <1>1, <1>2, <1>3, PTL DEF Spec
-----------------------------------------------------------------------------
(* Rates at rest.  Where no account loses its rate and no request is logged   *)
(* late, NoRestlessRates is inductive together with what is still owed: every *)
(* reason there was has been used for a change of a rate, or is counted by    *)
(* the targets a memory has still to compute, has to send, or will have to    *)
(* send again once the group has several accounts again.                      *)

Bit(b) == IF b THEN 1 ELSE 0
Several(S) == \E a, b \in S : a # b

\* No account loses its rate and no request is logged late.
Calm == ~env.late /\ Invalid \notin env.rates

\* The accounts of a group that are schedulable, and its requests after one.
Now(g) == env.bound[g] \cap on
After(g, lo) == {i \in DOMAIN log : log[i].group = g /\ i > lo}

\* A memory of the accounts A will have to start anew: other accounts are there,
\* or have answered since.
Misfit(g, A) == (Several(Now(g)) /\ Now(g) # A) \/ ~(Now(g) \subseteq A)
Strangers(g, A, lo) == \E i \in After(g, lo) : log[i].account \notin A

\* Enough requests of the accounts B, up to one, to start a memory.
Answered(g, B, hi) == {i \in oldest..hi : log[i].group = g /\ log[i].account \in B}
Enough(g, B, hi) == Cardinality(Answered(g, B, hi)) >= MinRequests

\* The targets a memory may still compute though nothing happens any more: one
\* for what it does not know yet, one for its successor.
Stale(g, m) ==
  \/ After(g, m.last) # {}
  \/ \E a \in env.bound[g] : m.rates[a] # Invalid /\ m.rates[a] # acct[a]
Unfit(g, m) == Misfit(g, Rated(m.rates)) \/ Strangers(g, Rated(m.rates), m.last)
Startable(g) == Several(Now(g)) /\ Enough(g, Now(g), Len(log))
Targets(g, m) ==
  IF m.init THEN Bit(Stale(g, m)) + Bit(Unfit(g, m)) ELSE Bit(Startable(g))

\* The same while a cycle has still to come to the group: in this cycle, from
\* what it has listed, and after it.
Horizon == IF Looking THEN through ELSE Len(log)
Fit(g, m) == m.init /\ Rated(m.rates) = Bound(g)
Noticed(g, m) ==
  \/ \E i \in After(g, m.last) : i <= Horizon
  \/ \E a \in env.bound[g] : m.rates[a] # Invalid /\ m.rates[a] # view.acct[a]
Moved(g) ==
  \/ After(g, Horizon) # {}
  \/ \E a \in env.bound[g] : acct[a] # view.acct[a] \/ (pc = "consume" /\ acct[a] # costs[a])
Replaced(g, m) ==
  Misfit(g, Bound(g)) \/ Strangers(g, Bound(g), IF Fit(g, m) THEN m.last ELSE Horizon)
CycleTargets(g, m) ==
  (IF m.init THEN Bit(Rated(m.rates) # Bound(g)) + Bit(Noticed(g, m))
   ELSE Bit(Enough(g, Bound(g), Horizon)))
  + Bit(Moved(g)) + Bit(Replaced(g, m))

\* The group takes the rate of its one account in this cycle, or would in the next.
Alone(g) == pc \in {"initial", "single"} /\ (g \in todo \/ call.group = g)
Apart(g) == ~Several(Now(g)) \/ Alone(g)

\* The rate is not the pending target.
Owed(g, m) == m.pend \notin {0, rate[g]}

\* The cycle has still to come to the group, or waits for the answer to its PUT.
Active(g) ==
  /\ g \in Plan
  /\ \/ pc \in {"initial", "single"}
     \/ pc \in {"bootstrap", "seed", "retry"} /\ g \in todo \cup ready
     \/ pc = "consume" /\ g \in todo
Sending(g) == call # NoCall /\ pc # "single" /\ call.group = g

\* A target that was sent is sent again only after the group had another rate as
\* that of one account; before it is sent that is one more.
Rest(g, m) == Targets(g, m) + Bit(Owed(g, m) \/ Apart(g))
Sends(g, m) == Targets(g, m) + Bit(Owed(g, m)) + Bit(Apart(g))
Begun(g, m) == CycleTargets(g, m) + Bit(Owed(g, m)) + Bit(Apart(g))

FileDebt(g) ==
  IF Sending(g) THEN Sends(g, disk.dynamic[g]) ELSE Rest(g, disk.dynamic[g])
MemoryDebt(g) ==
  IF Active(g) THEN Begun(g, mem.dynamic[g])
  ELSE IF Sending(g) THEN Sends(g, mem.dynamic[g]) ELSE Rest(g, mem.dynamic[g])

\* As a group of many.
ManyInv(g) ==
  /\ Several(env.bound[g]) => /\ writes[g].many + FileDebt(g) <= events[g]
                              /\ up => writes[g].many + MemoryDebt(g) <= events[g]
  /\ ~Several(env.bound[g]) => writes[g].many = 0

\* As a group of one: it has not the rate of its account, or loses it to a target
\* that is still to come.
Unlike(g) == \E v \in Bound(g) : view.rate[g] # view.acct[v]
Overtaken(g) == \E v \in Bound(g), a \in Now(g) : Now(g) = {a} /\ acct[a] # view.acct[v]
Behind(g) == \E a \in Now(g) : Now(g) = {a} /\ (rate[g] # acct[a] \/ Active(g) \/ Sending(g))
Lag(g) == IF Alone(g) THEN Bit(Unlike(g)) + Bit(Overtaken(g)) ELSE Bit(Behind(g))
OneInv(g) == writes[g].one + Lag(g) <= events[g]

\* Rates are there, and a memory knows those of all it counted.
Priced ==
  /\ \A a \in Accounts : acct[a] # Invalid /\ (pc # "idle" => view.acct[a] # Invalid)
  /\ pc = "consume" => \A a \in Accounts : costs[a] # Invalid
Known(m) == m.init => AccountBase(m) \subseteq Rated(m.rates)

\* The parts of a cycle, and what the groups they have still to come to are.
Stages ==
  /\ pc = "initial" => env.initial = Bound(env.image)
  /\ pc \in {"initial", "single"} => \A g \in todo : view.rate[g] = rate[g]
  /\ pc \in {"bootstrap", "seed"} => \A g \in todo : ~mem.dynamic[g].init
  /\ pc \in {"retry", "consume"} => \A g \in todo : Fit(g, mem.dynamic[g])
  /\ pc \in {"bootstrap", "seed", "retry"} => \A g \in ready : Fit(g, mem.dynamic[g])
  /\ pc = "retry" => todo \cap ready = {}
  /\ pc = "seed" => \A g \in todo : choice[g] # 0 <=> Enough(g, Bound(g), through)

\* The PUT that is under way.
Answers ==
  /\ \A g \in Groups : Sending(g) => mem.dynamic[g].pend = call.rate /\ ~Active(g)
  /\ call # NoCall /\ pc = "single" =>
       /\ call.group \notin todo
       /\ \E v \in Bound(call.group) :
            call.rate = view.acct[v] /\ view.acct[v] # view.rate[call.group]

Grounds ==
  /\ env \in Environments
  /\ writes \in [Groups -> [one : Nat, many : Nat]] /\ events \in [Groups -> Nat]
  /\ Priced /\ Stages /\ Answers
  /\ \A g \in Groups : Known(mem.dynamic[g]) /\ Known(disk.dynamic[g])

RestInv == Calm => Grounds /\ \A g \in Groups : ManyInv(g) /\ OneInv(g)
-----------------------------------------------------------------------------
(* Sets of accounts, and counts.                                            *)

\* Sets by their sizes.
LEMMA SizeOfSets ==
  ASSUME NEW S, IsFiniteSet(S)
  PROVE  /\ Cardinality(S) > 1 <=> Several(S)
         /\ Cardinality(S) = 1 <=> \E v : S = {v}
  <1>1. Cardinality(S) \in Nat
    BY FS_CardinalityType
  <1>2. Cardinality(S) = 1 <=> \E v : S = {v}
    BY FS_Singleton
  <1>3. Cardinality(S) = 0 <=> S = {}
    BY FS_EmptySet
  <1>4. Several(S) <=> S # {} /\ ~ \E v : S = {v}
    BY DEF Several
  <1>5. Cardinality(S) > 1 <=> Cardinality(S) # 0 /\ Cardinality(S) # 1
    BY <1>1
  <1> QED
    BY <1>2, <1>3, <1>4, <1>5, Zenon

\* The groups by their listed accounts.
LEMMA SizeOfGroups ==
  ASSUME Inv, NEW g \in Groups
  PROVE  /\ Bound(g) \subseteq env.bound[g] /\ Now(g) \subseteq env.bound[g]
         /\ env.bound[g] \subseteq Accounts
         /\ g \in Plan <=> Several(Bound(g))
         /\ g \in Single <=> \E v : Bound(g) = {v}
         /\ Cardinality(Now(g)) = 1 <=> \E v : Now(g) = {v}
         /\ Cardinality(Now(g)) > 1 <=> Several(Now(g))
  <1>1. env.bound[g] \subseteq Accounts
    BY DEF Inv, Surroundings, Environment
  <1>2. Bound(g) \subseteq env.bound[g] /\ Now(g) \subseteq env.bound[g]
    BY DEF Bound, Now
  <1>3. IsFiniteSet(Accounts)
    BY GroupAssumption
  <1>4. IsFiniteSet(Bound(g)) /\ IsFiniteSet(Now(g))
    BY <1>1, <1>2, <1>3, FS_Subset
  <1> QED
    BY <1>1, <1>2, <1>4, SizeOfSets DEF Plan, Single

\* More accounts have answered more requests.
LEMMA AnsweredMore ==
  ASSUME NEW S, NEW T, S \subseteq T, IsFiniteSet(T), Cardinality(S) >= MinRequests
  PROVE  Cardinality(T) >= MinRequests
  <1>1. Cardinality(S) <= Cardinality(T) /\ IsFiniteSet(S)
    BY FS_Subset
  <1>2. Cardinality(S) \in Nat /\ Cardinality(T) \in Nat
    BY <1>1, FS_CardinalityType
  <1> QED
    BY <1>1, <1>2, ConstantFacts

\* Requests of a window are finitely many.
LEMMA AnsweredFinite ==
  ASSUME TypeOK, NEW g, NEW B, NEW hi \in Nat
  PROVE  IsFiniteSet(Answered(g, B, hi))
  <1>1. oldest \in Int /\ hi \in Int
    BY ConstantFacts DEF TypeOK
  <1>2. IsFiniteSet(oldest..hi)
    BY <1>1, FS_Interval
  <1> QED
    BY <1>2, FS_Subset DEF Answered

\* What the file and the process may come to is within what is listed.
LEMMA HorizonFacts ==
  ASSUME Inv
  PROVE  /\ Horizon \in 0..Len(log) /\ Horizon \in Nat /\ Len(log) \in Nat
         /\ DOMAIN log = 1..Len(log) /\ oldest \in Nat \ {0}
         /\ \A h \in Groups :
              /\ mem.dynamic[h] \in Memory /\ disk.dynamic[h] \in Memory
              /\ mem.dynamic[h].last \in 0..Len(log) /\ disk.dynamic[h].last \in 0..Len(log)
              /\ Looking => mem.dynamic[h].last <= through
  <1>1. /\ Len(log) \in Nat /\ DOMAIN log = 1..Len(log) /\ through \in 0..Len(log)
        /\ \A h \in Groups : mem.dynamic[h] \in Memory /\ disk.dynamic[h] \in Memory
    BY LogFacts DEF Inv
  <1>2. oldest \in Nat \ {0}
    BY ConstantFacts DEF Inv, TypeOK
  <1>3. ASSUME NEW h \in Groups
        PROVE  /\ mem.dynamic[h].last \in 0..Len(log) /\ disk.dynamic[h].last \in 0..Len(log)
               /\ Looking => mem.dynamic[h].last <= through
    <2>1. mem.dynamic[h].last \in Nat /\ disk.dynamic[h].last \in Nat
      BY <1>1, ConstantFacts DEF Memory
    <2> QED
      BY <2>1, <1>1 DEF Inv, Memories, MemoryInv, Sound
  <1> QED
    BY <1>1, <1>2, <1>3 DEF Horizon

\* What is left without the cycle, the cycle has before it.
LEMMA CycleCovers ==
  ASSUME Inv, NEW g \in Groups, NEW m \in Memory
  PROVE  Targets(g, m) <= CycleTargets(g, m)
  <1>0. /\ Horizon \in Nat /\ Len(log) \in Nat /\ Horizon <= Len(log) /\ DOMAIN log = 1..Len(log)
        /\ oldest \in Nat \ {0}
    BY HorizonFacts
  <1>1. CASE m.init
    <2>1. Stale(g, m) => Noticed(g, m) \/ Moved(g)
      BY <1>0 DEF Stale, Noticed, Moved, After
    <2>2. Unfit(g, m) => Rated(m.rates) # Bound(g) \/ Replaced(g, m)
      BY <1>1 DEF Unfit, Replaced, Fit
    <2> QED
      BY <1>1, <2>1, <2>2 DEF Targets, CycleTargets, Bit
  <1>2. CASE ~m.init
    <2>1. ASSUME Startable(g), ~Moved(g), ~Replaced(g, m)
          PROVE  Enough(g, Bound(g), Horizon)
      <3>1. Now(g) \subseteq Bound(g)
        BY <2>1 DEF Replaced, Misfit
      <3>2. \A i \in DOMAIN log : log[i].group = g => i <= Horizon
        BY <2>1, <1>0 DEF Moved, After
      <3>3. Answered(g, Now(g), Len(log)) \subseteq Answered(g, Bound(g), Horizon)
        BY <3>1, <3>2, <1>0 DEF Answered
      <3>4. IsFiniteSet(Answered(g, Bound(g), Horizon))
        BY <1>0, AnsweredFinite DEF Inv
      <3> QED
        BY <2>1, <3>3, <3>4, AnsweredMore DEF Startable, Enough
    <2> QED
      BY <1>2, <2>1 DEF Targets, CycleTargets, Bit
  <1> QED
    BY <1>1, <1>2

\* The debts are ordered by how much of a cycle is still to come.
LEMMA RestCovered ==
  ASSUME Inv, NEW g \in Groups
  PROVE  /\ \A m \in Memory : Rest(g, m) <= Sends(g, m) /\ Sends(g, m) <= Begun(g, m)
         /\ Rest(g, mem.dynamic[g]) <= MemoryDebt(g)
         /\ \A m \in Memory : Targets(g, m) \in Nat /\ CycleTargets(g, m) \in Nat
  <1>1. \A m \in Memory : Targets(g, m) \in Nat /\ CycleTargets(g, m) \in Nat
    BY DEF Targets, CycleTargets, Bit
  <1>2. \A m \in Memory : Targets(g, m) <= CycleTargets(g, m)
    BY CycleCovers
  <1>3. \A m \in Memory : Rest(g, m) <= Sends(g, m) /\ Sends(g, m) <= Begun(g, m)
    BY <1>1, <1>2 DEF Rest, Sends, Begun, Bit
  <1>4. mem.dynamic[g] \in Memory
    BY HorizonFacts
  <1>5. Rest(g, mem.dynamic[g]) \in Nat
    BY <1>1, <1>4 DEF Rest, Bit
  <1>6. /\ Sends(g, mem.dynamic[g]) \in Nat /\ Begun(g, mem.dynamic[g]) \in Nat
    BY <1>1, <1>4 DEF Sends, Begun, Bit
  <1> QED
    BY <1>1, <1>3, <1>4, <1>5, <1>6 DEF MemoryDebt
-----------------------------------------------------------------------------
(* What leaves targets as they are, and what gives a reason for one.        *)

\* Targets depend on the surroundings only.
LEMMA SameTargets ==
  ASSUME NEW g, NEW m, UNCHANGED <<env, log, on, acct, oldest>>
  PROVE  Targets(g, m)' = Targets(g, m)
BY DEF Targets, Stale, Unfit, Misfit, Strangers, Startable, Enough, Answered, Now, After, Rated

\* Before a cycle they depend on what it has seen, too.
LEMMA SameCycleTargets ==
  ASSUME NEW g, NEW m, UNCHANGED <<env, log, on, acct, oldest, view>>, Horizon' = Horizon,
         pc' = "consume" => pc = "consume" /\ costs' = costs
  PROVE  CycleTargets(g, m)' <= CycleTargets(g, m)
  <1>1. /\ Noticed(g, m)' = Noticed(g, m) /\ Replaced(g, m)' = Replaced(g, m)
        /\ Bound(g)' = Bound(g)
        /\ Enough(g, Bound(g), Horizon)' = Enough(g, Bound(g), Horizon)
    BY DEF Noticed, Replaced, Fit, Misfit, Strangers, Enough, Answered, Now, After, Rated, Bound
  <1>2. Moved(g)' => Moved(g)
    BY DEF Moved, After
  <1> QED
    BY <1>1, <1>2 DEF CycleTargets, Bit, Rated

\* Something happens in the surroundings of a group: d times, once at most.
Happening(g, d) ==
  /\ d \in 0..1 /\ events'[g] = events[g] + d
  /\ \A m \in Memory : m.last <= Len(log) =>
       /\ Targets(g, m)' <= Targets(g, m) + d
       /\ CycleTargets(g, m)' <= CycleTargets(g, m) + d
       /\ Apart(g)' /\ ~Apart(g) => /\ d = 1 /\ Targets(g, m)' <= Targets(g, m)
                                    /\ CycleTargets(g, m)' <= CycleTargets(g, m)

\* What happens in the surroundings leaves the cycle where it is.
LEMMA AroundLeaves ==
  ASSUME NEW a, ChangeAccountRate(a) \/ Switch(a) \/ (\E h \in Groups : Request(h, a))
  PROVE  /\ UNCHANGED <<env, rate, disk, mem, up, pc, view, through, todo, ready, choice, costs,
                        call, good, writes, oldest>>
         /\ Looking' = Looking
         /\ \A g : /\ Alone(g)' = Alone(g) /\ Active(g)' = Active(g) /\ Bound(g)' = Bound(g)
                   /\ Sending(g)' = Sending(g)
         /\ \A g, m : Owed(g, m)' = Owed(g, m)
BY DEF ChangeAccountRate, Switch, Request, Untouched, local, Looking, Alone, Active, Plan, Bound,
       Sending, Owed

\* The rate of an account changes.
LEMMA RateHappens ==
  ASSUME Inv, NEW g \in Groups, NEW a \in Accounts, ChangeAccountRate(a), events[g] \in Nat
  PROVE  \E d \in 0..1 : Happening(g, d)
  <1>1. /\ UNCHANGED <<env, log, on, pc, view, through, costs, oldest, Looking>>
        /\ \A b \in Accounts \ {a} : acct'[b] = acct[b]
    BY AroundLeaves DEF ChangeAccountRate, Inv, TypeOK
  <1>2. events'[g] = IF a \in env.bound[g] THEN events[g] + 1 ELSE events[g]
    BY DEF ChangeAccountRate, Affected
  <1>3. /\ Bound(g)' = Bound(g) /\ Now(g)' = Now(g) /\ Apart(g)' = Apart(g) /\ Horizon' = Horizon
    BY <1>1, AroundLeaves DEF Now, Apart, Horizon
  <1>4. env.bound[g] \subseteq Accounts
    BY SizeOfGroups
  <1>5. ASSUME NEW m \in Memory
        PROVE  /\ Unfit(g, m)' = Unfit(g, m) /\ Startable(g)' = Startable(g)
               /\ Noticed(g, m)' = Noticed(g, m) /\ Replaced(g, m)' = Replaced(g, m)
               /\ Enough(g, Bound(g), Horizon)' = Enough(g, Bound(g), Horizon)
               /\ a \notin env.bound[g] => Stale(g, m)' = Stale(g, m) /\ Moved(g)' = Moved(g)
    <2>1. /\ Unfit(g, m)' = Unfit(g, m) /\ Startable(g)' = Startable(g)
          /\ Noticed(g, m)' = Noticed(g, m) /\ Replaced(g, m)' = Replaced(g, m)
          /\ Enough(g, Bound(g), Horizon)' = Enough(g, Bound(g), Horizon)
      BY <1>1, <1>3
      DEF Unfit, Startable, Noticed, Replaced, Fit, Misfit, Strangers, Enough, Answered, After,
          Rated
    <2>2. a \notin env.bound[g] => \A b \in env.bound[g] : acct'[b] = acct[b]
      BY <1>1, <1>4
    <2>3. a \notin env.bound[g] => Stale(g, m)' = Stale(g, m) /\ Moved(g)' = Moved(g)
      BY <1>1, <1>3, <2>2 DEF Stale, Moved, After
    <2> QED
      BY <2>1, <2>3
  <1>6. CASE a \in env.bound[g]
    <2>1. ASSUME NEW m \in Memory
          PROVE  /\ Targets(g, m)' <= Targets(g, m) + 1
                 /\ CycleTargets(g, m)' <= CycleTargets(g, m) + 1
      BY <1>3, <1>5 DEF Targets, CycleTargets, Bit, Rated
    <2> QED
      BY <1>2, <1>3, <1>6, <2>1 DEF Happening
  <1>7. CASE a \notin env.bound[g]
    <2>1. ASSUME NEW m \in Memory
          PROVE  /\ Targets(g, m)' <= Targets(g, m) + 0
                 /\ CycleTargets(g, m)' <= CycleTargets(g, m) + 0
      BY <1>3, <1>5, <1>7 DEF Targets, CycleTargets, Bit, Rated
    <2> QED
      BY <1>2, <1>3, <1>7, <2>1 DEF Happening
  <1> QED
    BY <1>6, <1>7

\* An account becomes schedulable, or is no longer.
LEMMA SwitchHappens ==
  ASSUME Inv, NEW g \in Groups, NEW a \in Accounts, Switch(a), events[g] \in Nat
  PROVE  \E d \in 0..1 : Happening(g, d)
  <1>1. /\ UNCHANGED <<env, log, acct, pc, view, through, costs, oldest, Looking>>
        /\ \A b : b # a => (b \in on' <=> b \in on)
    BY AroundLeaves DEF Switch
  <1>2. events'[g] = IF a \in env.bound[g] THEN events[g] + 1 ELSE events[g]
    BY DEF Switch, Affected
  <1>3. Bound(g)' = Bound(g) /\ Horizon' = Horizon /\ Alone(g)' = Alone(g)
    BY <1>1, AroundLeaves DEF Horizon
  <1>4. ASSUME NEW m \in Memory
        PROVE  /\ Stale(g, m)' = Stale(g, m) /\ Noticed(g, m)' = Noticed(g, m)
               /\ Moved(g)' = Moved(g)
               /\ Enough(g, Bound(g), Horizon)' = Enough(g, Bound(g), Horizon)
    BY <1>1, <1>3 DEF Stale, Noticed, Moved, Enough, Answered, After
  <1>5. \A lo, A : Strangers(g, A, lo)' = Strangers(g, A, lo)
    BY <1>1 DEF Strangers, After
  <1>6. CASE a \in env.bound[g]
    <2>1. ASSUME NEW m \in Memory
          PROVE  /\ Targets(g, m)' <= Targets(g, m) + 1
                 /\ CycleTargets(g, m)' <= CycleTargets(g, m) + 1
      BY <1>3, <1>4 DEF Targets, CycleTargets, Bit, Rated
    <2>2. ASSUME Apart(g)', ~Apart(g), NEW m \in Memory
          PROVE  /\ Targets(g, m)' <= Targets(g, m)
                 /\ CycleTargets(g, m)' <= CycleTargets(g, m)
      <3>1. ~Several(Now(g)') /\ Several(Now(g))
        BY <2>2, <1>3 DEF Apart
      <3>2. Now(g)' \subseteq Now(g)
        BY <3>1, <1>1 DEF Now, Several, Switch
      <3>3. \A A : Misfit(g, A)' => Misfit(g, A)
        BY <3>1, <3>2 DEF Misfit
      <3>4. ~Startable(g)'
        BY <3>1 DEF Startable
      <3>5. Unfit(g, m)' => Unfit(g, m)
        BY <3>3, <1>5 DEF Unfit, Rated
      <3>6. Replaced(g, m)' => Replaced(g, m)
        BY <3>3, <1>3, <1>5 DEF Replaced, Fit, Rated
      <3> QED
        BY <3>4, <3>5, <3>6, <1>3, <1>4 DEF Targets, CycleTargets, Bit, Rated
    <2> QED
      BY <1>2, <1>6, <2>1, <2>2 DEF Happening
  <1>7. CASE a \notin env.bound[g]
    <2>1. Now(g)' = Now(g)
      BY <1>1, <1>7 DEF Now
    <2>2. Apart(g)' = Apart(g)
      BY <2>1, <1>3 DEF Apart
    <2>3. ASSUME NEW m \in Memory
          PROVE  /\ Unfit(g, m)' = Unfit(g, m) /\ Startable(g)' = Startable(g)
                 /\ Replaced(g, m)' = Replaced(g, m)
      BY <2>1, <1>1, <1>3, <1>5
      DEF Unfit, Startable, Replaced, Misfit, Fit, Enough, Answered, Rated
    <2>4. ASSUME NEW m \in Memory
          PROVE  /\ Targets(g, m)' <= Targets(g, m) + 0
                 /\ CycleTargets(g, m)' <= CycleTargets(g, m) + 0
      BY <2>3, <1>3, <1>4 DEF Targets, CycleTargets, Bit, Rated
    <2> QED
      BY <1>2, <1>7, <2>2, <2>4 DEF Happening
  <1> QED
    BY <1>6, <1>7

\* A request comes, of an account that is schedulable.
LEMMA RequestHappens ==
  ASSUME Inv, Calm, NEW g \in Groups, NEW h \in Groups, NEW a \in Accounts, Request(h, a),
         events \in [Groups -> Nat]
  PROVE  \E d \in 0..1 : Happening(g, d)
  <1>1. /\ UNCHANGED <<env, on, acct, pc, view, through, costs, oldest, Looking>>
        /\ log' = Append(log, [group |-> h, account |-> a]) /\ a \in Now(h)
    BY AroundLeaves DEF Request, Calm, Now
  <1>2. /\ log \in Seq(Requests) /\ Len(log) \in Nat /\ DOMAIN log = 1..Len(log)
        /\ through \in Nat /\ through <= Len(log) /\ oldest \in Nat
        /\ Horizon \in Nat /\ Horizon <= Len(log)
    BY LogFacts, HorizonFacts DEF Inv
  <1>3. /\ Len(log') = Len(log) + 1 /\ DOMAIN log' = 1..(Len(log) + 1)
        /\ \A i \in 1..Len(log) : log'[i] = log[i]
        /\ log'[Len(log) + 1] = [group |-> h, account |-> a]
    BY <1>1, <1>2
  <1>4. /\ Bound(g)' = Bound(g) /\ Now(g)' = Now(g) /\ Apart(g)' = Apart(g)
        /\ \/ Looking /\ Horizon' = Horizon
           \/ ~Looking /\ Horizon' = Len(log) + 1 /\ Horizon = Len(log)
    BY <1>1, <1>3, AroundLeaves DEF Now, Apart, Horizon
  <1>2a. /\ Len(log) \in Nat /\ Horizon \in Nat /\ Horizon <= Len(log)
         /\ oldest \in Nat \ {0} /\ Len(log) + 1 \in Nat
    BY HorizonFacts
  <1>4a. Horizon' \in Nat /\ Horizon <= Horizon'
    BY <1>2a, <1>4
  <1>5. events'[g] = IF h = g THEN events[g] + 1 ELSE events[g]
    BY DEF Request
  <1>6. ASSUME NEW lo \in Nat, NEW i
        PROVE  i \in After(g, lo)' <=> \/ i \in After(g, lo)
                                       \/ i = Len(log) + 1 /\ h = g /\ lo < Len(log) + 1
    BY <1>2, <1>3 DEF After
  <1>7. ASSUME NEW lo \in Nat, NEW A, NEW k \in Nat, lo <= k,
               Misfit(g, A)' \/ Strangers(g, A, k)'
        PROVE  Misfit(g, A) \/ Strangers(g, A, lo)
    <2>1. Misfit(g, A)' = Misfit(g, A)
      BY <1>4 DEF Misfit
    <2>2. ASSUME Strangers(g, A, k)' PROVE Misfit(g, A) \/ Strangers(g, A, lo)
      <3>1. PICK i \in After(g, k)' : log'[i].account \notin A
        BY <2>2, <1>4 DEF Strangers
      <3>2. CASE i \in After(g, k)
        <4>1. i \in After(g, lo) /\ log'[i] = log[i]
          BY <3>2, <1>2, <1>3, <1>7 DEF After
        <4> QED
          BY <3>1, <4>1 DEF Strangers
      <3>3. CASE i = Len(log) + 1 /\ h = g
        BY <3>1, <3>3, <1>1, <1>3 DEF Misfit
      <3> QED
        BY <3>2, <3>3, <3>1, <1>6
    <2> QED
      BY <2>1, <2>2, <1>7
  <1>8. \A m \in Memory : m.last \in Nat
    BY ConstantFacts DEF Memory
  <1>9. ASSUME NEW m \in Memory
        PROVE  /\ Unfit(g, m)' => Unfit(g, m)
               /\ Replaced(g, m)' => Replaced(g, m)
    <2>1. m.last \in Nat /\ m.last <= m.last
      BY <1>8
    <2>2. Unfit(g, m)' => Unfit(g, m)
      BY <2>1, <1>7 DEF Unfit, Rated
    <2>4. Fit(g, m)' = Fit(g, m)
      BY <1>4 DEF Fit, Rated
    <2>5. CASE Fit(g, m)
      <3>1. ASSUME NEW A, A = Bound(g)
            PROVE  Replaced(g, m)' => Misfit(g, A)' \/ Strangers(g, A, m.last)'
        BY <3>1, <2>4, <2>5, <1>4 DEF Replaced
      <3>2. Replaced(g, m) <=> Misfit(g, Bound(g)) \/ Strangers(g, Bound(g), m.last)
        BY <2>5 DEF Replaced
      <3> QED
        BY <3>1, <3>2, <2>1, <2>2, <1>7
    <2>6. CASE ~Fit(g, m)
      <3>1. ASSUME NEW A, A = Bound(g), NEW k \in Nat, k = Horizon'
            PROVE  Replaced(g, m)' => Misfit(g, A)' \/ Strangers(g, A, k)'
        BY <3>1, <2>4, <2>6, <1>4 DEF Replaced
      <3>2. Replaced(g, m) <=> Misfit(g, Bound(g)) \/ Strangers(g, Bound(g), Horizon)
        BY <2>6 DEF Replaced
      <3> QED
        BY <3>1, <3>2, <2>2, <1>4a, <1>2, <1>7
    <2> QED
      BY <2>2, <2>5, <2>6
  <1>10. ASSUME NEW m \in Memory, m.last <= Len(log), Stale(g, m)'
         PROVE  Stale(g, m) \/ h = g
    <2>1. m.last \in Nat
      BY <1>8
    <2>2. \A i : i \in After(g, m.last)' => i \in After(g, m.last) \/ h = g
      BY <2>1, <1>6
    <2> QED
      BY <2>2, <1>1, <1>10 DEF Stale
  <1>11. Moved(g)' => Moved(g) \/ (Looking /\ h = g)
    <2>1. ASSUME NEW i, NEW k \in Nat, k = Horizon', i \in After(g, k)'
          PROVE  i \in After(g, Horizon) \/ (Looking /\ h = g)
      <3>0. i \in After(g, k) \/ (i = Len(log) + 1 /\ h = g /\ k < Len(log) + 1)
        BY <2>1, <1>6
      <3>1. CASE Looking
        BY <3>0, <3>1, <2>1, <1>4
      <3>2. CASE ~Looking
        <4>1. k = Len(log) + 1
          BY <3>2, <2>1, <1>4
        <4>2. i \in 1..Len(log) => ~(i > k)
          BY <4>1, <1>2a
        <4>3. i \notin After(g, k)
          BY <4>2, <1>2 DEF After
        <4> QED
          BY <3>0, <4>1, <4>3, <1>2a
      <3> QED
        BY <3>1, <3>2
    <2>2. After(g, Horizon)' # {} => After(g, Horizon) # {} \/ (Looking /\ h = g)
      BY <2>1, <1>4a
    <2> QED
      BY <2>2, <1>1 DEF Moved
  <1>12. ASSUME NEW m \in Memory, m.last <= Len(log), Noticed(g, m)'
         PROVE  Noticed(g, m) \/ (~Looking /\ h = g)
    <2>1. m.last \in Nat
      BY <1>8
    <2>2. ASSUME NEW i \in After(g, m.last)', i <= Horizon', ~(~Looking /\ h = g)
          PROVE  i \in After(g, m.last) /\ i <= Horizon
      <3>1. i \in After(g, m.last) \/ (i = Len(log) + 1 /\ h = g)
        BY <2>1, <2>2, <1>6
      <3>2. i \in After(g, m.last) => i \in Nat /\ i <= Len(log)
        BY <1>2 DEF After
      <3> QED
        BY <3>1, <3>2, <2>2, <1>2a, <1>4
    <2> QED
      BY <2>2, <1>1, <1>12 DEF Noticed
  <1>13. ASSUME NEW B, NEW k \in Nat, k <= Len(log)
         PROVE  /\ Answered(g, B, k)' = Answered(g, B, k)
                /\ h # g /\ k = Len(log) => Answered(g, B, k + 1)' = Answered(g, B, k)
    <2>1. \A i \in oldest..k : i \in 1..Len(log)
      BY <1>2a, <1>13
    <2>2. Answered(g, B, k)' = Answered(g, B, k)
      BY <2>1, <1>1, <1>3 DEF Answered
    <2>3. ASSUME h # g, k = Len(log), NEW i \in oldest..(k + 1), log'[i].group = g
          PROVE  i \in 1..Len(log) /\ i \in oldest..k /\ log'[i] = log[i]
      <3>1. i # Len(log) + 1
        BY <2>3, <1>3
      <3> QED
        BY <3>1, <2>3, <1>2a, <1>3
    <2>5. ASSUME h # g, k = Len(log)
          PROVE  Answered(g, B, k + 1)' = Answered(g, B, k)
      <3>1. \A i \in oldest..k : i \in oldest..(k + 1) /\ i \in 1..Len(log) /\ log'[i] = log[i]
        BY <2>5, <1>2a, <1>3
      <3>2. \A i : i \in Answered(g, B, k + 1)' <=> i \in Answered(g, B, k)
        BY <3>1, <2>3, <2>5, <1>1 DEF Answered
      <3> QED
        BY <3>2 DEF Answered
    <2> QED
      BY <2>2, <2>5
  <1>14. ASSUME NEW B
         PROVE  /\ Enough(g, B, Len(log))' => Enough(g, B, Len(log)) \/ h = g
                /\ Enough(g, B, Horizon)' => Enough(g, B, Horizon) \/ (~Looking /\ h = g)
    <2>0. Len(log) <= Len(log)
      BY <1>2a
    <2>1. ASSUME NEW k \in Nat, k = Len(log), h # g
          PROVE  Enough(g, B, k + 1)' => Enough(g, B, k)
      BY <2>0, <2>1, <1>13 DEF Enough
    <2>2. ASSUME NEW k \in Nat, k = Horizon
          PROVE  Enough(g, B, k)' => Enough(g, B, k)
      BY <2>2, <1>2a, <1>13 DEF Enough
    <2>3. Enough(g, B, Len(log))' => Enough(g, B, Len(log)) \/ h = g
      <3> DEFINE n == Len(log)
      <3>1. n \in Nat /\ n' = n + 1
        BY <1>2a, <1>3
      <3> QED
        BY <3>1, <2>1, <1>3
    <2>4. CASE Looking
      BY <2>2, <2>3, <2>4, <1>2a, <1>4
    <2>5. CASE ~Looking
      BY <2>1, <2>3, <2>5, <1>2a, <1>4
    <2> QED
      BY <2>4, <2>5
  <1>15. CASE h # g
    <2>1. ASSUME NEW m \in Memory, m.last <= Len(log)
          PROVE  /\ Targets(g, m)' <= Targets(g, m) + 0
                 /\ CycleTargets(g, m)' <= CycleTargets(g, m) + 0
      <3>1. Startable(g)' => Startable(g)
        BY <1>4, <1>14, <1>15 DEF Startable
      <3>2. Enough(g, Bound(g), Horizon)' => Enough(g, Bound(g), Horizon)
        BY <1>4, <1>14, <1>15
      <3> QED
        BY <3>1, <3>2, <2>1, <1>4, <1>9, <1>10, <1>11, <1>12, <1>15
        DEF Targets, CycleTargets, Bit, Rated
    <2> QED
      BY <2>1, <1>4, <1>5, <1>15 DEF Happening
  <1>16. CASE h = g
    <2>1. ASSUME NEW m \in Memory, m.last <= Len(log)
          PROVE  /\ Targets(g, m)' <= Targets(g, m) + 1
                 /\ CycleTargets(g, m)' <= CycleTargets(g, m) + 1
      <3>1. Enough(g, Bound(g), Horizon)' => Enough(g, Bound(g), Horizon) \/ ~Looking
        BY <1>4, <1>14
      <3> QED
        BY <3>1, <2>1, <1>4, <1>9, <1>11, <1>12 DEF Targets, CycleTargets, Bit, Rated
    <2> QED
      BY <2>1, <1>4, <1>5, <1>16 DEF Happening
  <1> QED
    BY <1>15, <1>16

\* A reason pays for what it gives rise to.
LEMMA AroundKeepsDebts ==
  ASSUME Inv, Calm, Grounds, NEW g \in Groups, ManyInv(g), OneInv(g),
         NEW a \in Accounts,
         ChangeAccountRate(a) \/ Switch(a) \/ (\E h \in Groups : Request(h, a))
  PROVE  ManyInv(g)' /\ OneInv(g)'
  <1>1. PICK d \in 0..1 : Happening(g, d)
    BY RateHappens, SwitchHappens, RequestHappens DEF Grounds
  <1>2. /\ UNCHANGED <<env, rate, disk, mem, up, call, writes, view>>
        /\ Alone(g)' = Alone(g) /\ Active(g)' = Active(g) /\ Bound(g)' = Bound(g)
        /\ Sending(g)' = Sending(g)
        /\ \A m : Owed(g, m)' = Owed(g, m)
    BY AroundLeaves
  <1>3. /\ writes[g].many \in Nat /\ writes[g].one \in Nat /\ events[g] \in Nat
        /\ events'[g] = events[g] + d
    BY <1>1 DEF Grounds, Happening
  <1>4. ASSUME NEW m \in Memory, m.last <= Len(log)
        PROVE  /\ Rest(g, m)' <= Rest(g, m) + d /\ Sends(g, m)' <= Sends(g, m) + d
               /\ Begun(g, m)' <= Begun(g, m) + d
    <2>1. Targets(g, m) \in Nat /\ CycleTargets(g, m) \in Nat
      BY RestCovered
    <2>2. Targets(g, m)' \in Nat /\ CycleTargets(g, m)' \in Nat
      BY DEF Targets, CycleTargets, Bit
    <2> QED
      BY <2>1, <2>2, <1>1, <1>2, <1>4 DEF Happening, Rest, Sends, Begun, Bit
  <1>5. /\ mem.dynamic[g] \in Memory /\ disk.dynamic[g] \in Memory
        /\ mem.dynamic[g].last <= Len(log) /\ disk.dynamic[g].last <= Len(log)
    BY HorizonFacts
  <1>6. FileDebt(g)' <= FileDebt(g) + d /\ MemoryDebt(g)' <= MemoryDebt(g) + d
    BY <1>2, <1>4, <1>5 DEF FileDebt, MemoryDebt
  <1>7. /\ FileDebt(g) \in Int /\ FileDebt(g)' \in Int
        /\ MemoryDebt(g) \in Int /\ MemoryDebt(g)' \in Int
    BY DEF FileDebt, MemoryDebt, Rest, Sends, Begun, Targets, CycleTargets, Bit
  <1>8. ManyInv(g)'
    BY <1>2, <1>3, <1>6, <1>7 DEF ManyInv, Several
  <1>9. Lag(g)' <= Lag(g) + d
    <2>1. CASE a \in env.bound[g]
      <3>1. Unlike(g)' = Unlike(g)
        BY <1>2 DEF Unlike
      <3>2. d = 1 \/ \E h \in Groups : Request(h, a)
        BY <2>1, <1>3 DEF ChangeAccountRate, Switch, Affected
      <3>3. ASSUME NEW h \in Groups, Request(h, a)
            PROVE  Overtaken(g)' = Overtaken(g) /\ Behind(g)' = Behind(g)
        <4>1. UNCHANGED <<on, acct>>
          BY <3>3 DEF Request
        <4> QED
          BY <4>1, <1>2 DEF Overtaken, Behind, Now
      <3> QED
        BY <3>1, <3>2, <3>3, <1>1, <1>2 DEF Lag, Bit
    <2>2. CASE a \notin env.bound[g]
      <3>1. Now(g)' = Now(g) /\ \A b \in env.bound[g] : acct'[b] = acct[b]
        <4>1. env' = env /\ env.bound[g] \subseteq Accounts
          BY <1>2, SizeOfGroups
        <4>2. \A b \in env.bound[g] : b # a /\ b \in Accounts
          BY <2>2, <4>1
        <4>3. CASE ChangeAccountRate(a)
          <5>1. UNCHANGED on /\ \A b \in Accounts \ {a} : acct'[b] = acct[b]
            BY <4>3 DEF ChangeAccountRate, Inv, TypeOK
          <5> QED
            BY <4>1, <4>2, <5>1 DEF Now
        <4>4. CASE Switch(a)
          <5>1. UNCHANGED acct /\ \A b : b # a => (b \in on' <=> b \in on)
            BY <4>4 DEF Switch
          <5> QED
            BY <4>1, <4>2, <5>1 DEF Now
        <4>5. CASE \E h \in Groups : Request(h, a)
          BY <4>1, <4>5 DEF Request, Now
        <4> QED
          BY <4>3, <4>4, <4>5
      <3>2. \A b \in Now(g) : b \in env.bound[g]
        BY DEF Now
      <3>3. Overtaken(g)' = Overtaken(g) /\ Behind(g)' = Behind(g) /\ Unlike(g)' = Unlike(g)
        BY <3>1, <3>2, <1>2 DEF Overtaken, Behind, Unlike
      <3> QED
        BY <3>3, <1>1, <1>2 DEF Lag, Bit
    <2> QED
      BY <2>1, <2>2
  <1>10. OneInv(g)'
    <2>1. Lag(g) \in Int /\ Lag(g)' \in Int
      BY DEF Lag, Bit
    <2> QED
      BY <2>1, <1>2, <1>3, <1>9 DEF OneInv
  <1> QED
    BY <1>8, <1>10
-----------------------------------------------------------------------------
(* The cycle: what it does to the debts of a group.                         *)

\* Nothing that a rate depends on changes.
LEMMA RestStays ==
  ASSUME NEW g, UNCHANGED <<env, log, on, acct, oldest>>, rate'[g] = rate[g],
         Apart(g)' => Apart(g), NEW m
  PROVE  Rest(g, m)' <= Rest(g, m) /\ Sends(g, m)' <= Sends(g, m)
  <1>1. Targets(g, m)' = Targets(g, m) /\ Targets(g, m) \in Nat
    BY SameTargets DEF Targets, Bit
  <1>2. Owed(g, m)' = Owed(g, m)
    BY DEF Owed
  <1> QED
    BY <1>1, <1>2 DEF Rest, Sends, Bit

\* The same before a cycle that goes on.
LEMMA BegunStays ==
  ASSUME NEW g, UNCHANGED <<env, log, on, acct, oldest, view>>, rate'[g] = rate[g],
         Apart(g)' => Apart(g), Horizon' = Horizon,
         pc' = "consume" => pc = "consume" /\ costs' = costs, NEW m
  PROVE  Begun(g, m)' <= Begun(g, m)
  <1>1. CycleTargets(g, m)' <= CycleTargets(g, m)
    BY SameCycleTargets
  <1>2. CycleTargets(g, m)' \in Nat /\ CycleTargets(g, m) \in Nat
    BY DEF CycleTargets, Bit
  <1>3. Owed(g, m)' = Owed(g, m)
    BY DEF Owed
  <1> QED
    BY <1>1, <1>2, <1>3 DEF Begun, Bit

\* Debts are numbers.
LEMMA DebtsAreNumbers ==
  ASSUME NEW g
  PROVE  /\ FileDebt(g) \in Nat /\ MemoryDebt(g) \in Nat /\ Lag(g) \in Nat
         /\ FileDebt(g)' \in Nat /\ MemoryDebt(g)' \in Nat /\ Lag(g)' \in Nat
BY DEF FileDebt, MemoryDebt, Rest, Sends, Begun, Targets, CycleTargets, Lag, Bit

\* Debts that do not grow.
LEMMA DebtsFall ==
  ASSUME Grounds, NEW g \in Groups, ManyInv(g), OneInv(g), env' = env, writes'[g] = writes[g],
         events'[g] = events[g],
         FileDebt(g)' <= FileDebt(g) \/ (up /\ FileDebt(g)' <= MemoryDebt(g)),
         up' => \/ up /\ MemoryDebt(g)' <= MemoryDebt(g)
                \/ MemoryDebt(g)' <= FileDebt(g),
         Lag(g)' <= Lag(g)
  PROVE  ManyInv(g)' /\ OneInv(g)'
  <1>1. writes[g].many \in Nat /\ writes[g].one \in Nat /\ events[g] \in Nat
    BY DEF Grounds
  <1> QED
    BY <1>1, DebtsAreNumbers DEF ManyInv, OneInv, Several

\* A group with one account whose turn did not come is behind it if it was.
LEMMA LagStops ==
  ASSUME Inv, Grounds, NEW g \in Groups, call.group # g, pc' \in {"idle", "save"},
         call' = NoCall, UNCHANGED <<env, on, acct>>, rate'[g] = rate[g]
  PROVE  Lag(g)' <= Lag(g)
  <1>1. ~Sending(g) /\ ~Sending(g)' /\ ~Active(g)' /\ ~Alone(g)' /\ Now(g)' = Now(g)
    BY DEF Sending, Active, Alone, Now
  <1>2. Behind(g)' => \E a \in Now(g) : Now(g) = {a} /\ rate[g] # acct[a]
    BY <1>1 DEF Behind
  <1>3. CASE Alone(g)
    <2>1. g \in todo /\ pc \in {"initial", "single"}
      BY <1>3 DEF Alone
    <2>2. g \in Single /\ view.rate[g] = rate[g]
      BY <2>1 DEF Inv, Duties, Grounds, Stages
    <2>3. PICK v : Bound(g) = {v}
      BY <2>2, SizeOfGroups
    <2>4. Behind(g)' => Unlike(g) \/ Overtaken(g)
      BY <1>2, <2>2, <2>3 DEF Unlike, Overtaken
    <2> QED
      BY <1>1, <1>3, <2>4 DEF Lag, Bit
  <1>4. CASE ~Alone(g)
    BY <1>1, <1>2, <1>4 DEF Lag, Bit, Behind
  <1> QED
    BY <1>3, <1>4

\* A cycle, or its part that changes rates, is over.
LEMMA StopKeepsDebts ==
  ASSUME Inv, Grounds, NEW g \in Groups, ManyInv(g), OneInv(g),
         pc' \in {"idle", "save"}, call = NoCall, call' = NoCall,
         UNCHANGED <<env, log, on, acct, oldest, rate, writes, events>>,
         disk' = disk \/ (up /\ disk' = mem),
         up' => (up /\ mem' = mem) \/ mem' = disk
  PROVE  ManyInv(g)' /\ OneInv(g)'
  <1>1. call.group # g
    BY ConstantFacts DEF NoCall
  <1>2. ~Sending(g) /\ ~Sending(g)' /\ ~Active(g)' /\ ~Alone(g)' /\ Now(g)' = Now(g)
    BY DEF Sending, Active, Alone, Now
  <1>3. Apart(g)' => Apart(g)
    BY <1>2 DEF Apart
  <1>4. \A m : Rest(g, m)' <= Rest(g, m)
    BY <1>3, RestStays
  <1>5. Rest(g, mem.dynamic[g]) <= MemoryDebt(g)
    BY RestCovered
  <1>6. /\ Rest(g, mem.dynamic[g]) \in Nat /\ Rest(g, disk.dynamic[g]) \in Nat
        /\ Rest(g, mem.dynamic[g])' \in Nat /\ Rest(g, disk.dynamic[g])' \in Nat
    BY DEF Rest, Targets, Bit
  <1>7. FileDebt(g)' <= FileDebt(g) \/ (up /\ FileDebt(g)' <= MemoryDebt(g))
    BY <1>2, <1>4, <1>5, <1>6, DebtsAreNumbers DEF FileDebt
  <1>8. up' => \/ up /\ MemoryDebt(g)' <= MemoryDebt(g)
               \/ MemoryDebt(g)' <= FileDebt(g)
    <2>1. MemoryDebt(g)' = Rest(g, mem.dynamic[g])' /\ FileDebt(g) = Rest(g, disk.dynamic[g])
      BY <1>2 DEF MemoryDebt, FileDebt
    <2> QED
      BY <2>1, <1>4, <1>5, <1>6, DebtsAreNumbers
  <1>9. Lag(g)' <= Lag(g)
    BY <1>1, LagStops
  <1> QED
    BY <1>7, <1>8, <1>9, DebtsFall

\* A cycle begins: what was left is before it.
LEMMA ListKeepsDebts ==
  ASSUME Inv, Grounds, NEW g \in Groups, ManyInv(g), OneInv(g), List
  PROVE  ManyInv(g)' /\ OneInv(g)'
  <1>0. /\ up /\ pc = "idle" /\ call = NoCall /\ pc' \in {"initial", "single"}
        /\ view' = [on |-> on, acct |-> acct, rate |-> rate]
        /\ todo' = {h \in Groups : Cardinality(Now(h)) = 1}
        /\ UNCHANGED <<env, log, on, acct, oldest, rate, disk, mem, up, call, writes, events>>
        /\ Inv'
    BY ListKeepsInv DEF List, Inv, Calls, gateway, Now
  <1>1. /\ call.group # g /\ Now(g)' = Now(g) /\ Bound(g)' = Now(g)
        /\ Horizon' = Len(log) /\ ~Sending(g) /\ ~Sending(g)' /\ ~Active(g) /\ ~Alone(g)
        /\ Alone(g)' <=> \E v : Now(g) = {v}
        /\ Active(g)' <=> Several(Now(g))
    <2>1. call.group # g
      BY <1>0, ConstantFacts DEF NoCall
    <2>2. Now(g)' = Now(g) /\ Bound(g)' = Now(g) /\ Horizon' = Len(log)
      BY <1>0 DEF Now, Bound, Horizon, Looking
    <2>3. ~Sending(g) /\ ~Sending(g)' /\ ~Active(g) /\ ~Alone(g)
      BY <1>0 DEF Sending, Active, Alone
    <2>4. Alone(g)' <=> Cardinality(Now(g)) = 1
      BY <1>0, <2>1 DEF Alone
    <2>5. Active(g)' <=> Cardinality(Now(g)) > 1
      BY <1>0, <2>2 DEF Active, Plan
    <2> QED
      BY <2>1, <2>2, <2>3, <2>4, <2>5, SizeOfGroups
  <1>2. Apart(g)' = Apart(g) /\ (Several(Now(g)) => ~Apart(g))
    BY <1>1 DEF Apart, Several
  <1>3. \A m : Rest(g, m)' <= Rest(g, m)
    BY <1>0, <1>2, RestStays
  <1>4. ASSUME NEW m \in Memory, m.last <= Len(log), Several(Now(g))
        PROVE  Begun(g, m)' <= Rest(g, m)
    <2>1. ~Moved(g)'
      BY <1>0, <1>1, HorizonFacts DEF Moved, After
    <2>2. ~Misfit(g, Now(g))'
      BY <1>1 DEF Misfit
    <2>3. ~Apart(g)' /\ Owed(g, m)' = Owed(g, m)
      BY <1>0, <1>2, <1>4 DEF Owed
    <2>4. \A A, lo : Strangers(g, A, lo)' = Strangers(g, A, lo)
      BY <1>0 DEF Strangers, After
    <2>5. ~Strangers(g, Now(g), Len(log))
      BY HorizonFacts DEF Strangers, After
    <2>6. Rated(m.rates) # Now(g) => Unfit(g, m)
      BY <1>4 DEF Unfit, Misfit
    <2>7. Replaced(g, m)' => m.init /\ Rated(m.rates) = Now(g) /\ Unfit(g, m)
      <3>1. ASSUME NEW B, B = Now(g), NEW k, k = Len(log), Replaced(g, m)'
            PROVE  /\ m.init /\ Rated(m.rates) = B
                   /\ Strangers(g, B, m.last)'
        <4>1. ~Misfit(g, B)'
          BY <2>2, <3>1, <1>1
        <4>2. ~Strangers(g, B, k)'
          BY <2>4, <2>5, <3>1
        <4> QED
          BY <3>1, <4>1, <4>2, <1>1 DEF Replaced, Fit, Rated
      <3>2. Replaced(g, m)' => m.init /\ Rated(m.rates) = Now(g) /\ Strangers(g, Now(g), m.last)
        BY <3>1, <2>4
      <3> QED
        BY <3>2 DEF Unfit
    <2>8. Noticed(g, m)' => Stale(g, m)
      BY <1>0, <1>1 DEF Noticed, Stale, After
    <2>9. Enough(g, Bound(g), Horizon)' = Enough(g, Now(g), Len(log))
      BY <1>0, <1>1 DEF Enough, Answered
    <2>10. CycleTargets(g, m)' <= Targets(g, m)
      BY <2>1, <2>6, <2>7, <2>8, <2>9, <1>1, <1>4
      DEF CycleTargets, Targets, Startable, Bit, Rated
    <2>11. CycleTargets(g, m)' \in Nat /\ Targets(g, m) \in Nat
      BY DEF CycleTargets, Targets, Bit
    <2> QED
      BY <2>3, <2>10, <2>11 DEF Begun, Rest, Bit
  <1>5. /\ mem.dynamic[g] \in Memory /\ mem.dynamic[g].last <= Len(log)
    BY HorizonFacts
  <1>6. FileDebt(g)' <= FileDebt(g)
    BY <1>0, <1>1, <1>3 DEF FileDebt
  <1>7. MemoryDebt(g)' <= MemoryDebt(g)
    BY <1>0, <1>1, <1>3, <1>4, <1>5 DEF MemoryDebt
  <1>8. Lag(g)' <= Lag(g)
    <2>1. ~Overtaken(g)' /\ (Unlike(g)' /\ Alone(g)' => Behind(g))
      BY <1>0, <1>1 DEF Overtaken, Unlike, Behind
    <2>2. Behind(g)' => Behind(g)
      BY <1>0, <1>1 DEF Behind, Several
    <2> QED
      BY <2>1, <2>2, <1>1 DEF Lag, Bit
  <1> QED
    BY <1>0, <1>6, <1>7, <1>8, DebtsFall

\* A group with one account: its turn ends, or its PUT is under way.
LEMMA SingleKeepsDebts ==
  ASSUME Inv, Grounds, NEW g \in Groups, ManyInv(g), OneInv(g),
         NEW h \in Groups, syncSingleAccountGroup(h)
  PROVE  ManyInv(g)' /\ OneInv(g)'
  <1>0. /\ up /\ call = NoCall /\ pc = "single" /\ h \in todo /\ todo' = todo \ {h}
        /\ UNCHANGED <<env, log, on, acct, oldest, rate, disk, mem, up, pc, view, through, ready,
                       choice, costs, writes, events>>
    BY DEF syncSingleAccountGroup, Idle, Going, gateway
  <1>1. /\ h \in Single /\ h \notin Plan
        /\ view.rate[h] = rate[h]
    BY <1>0, PlanIsNotSingle DEF Inv, Duties, Grounds, Stages
  <1>2. PICK v : Bound(h) = {v} /\ v \in Accounts
    BY <1>1, SizeOfGroups
  <1>3. /\ view.acct[v] # Invalid
        /\ call' = IF view.acct[v] = view.rate[h] THEN call
                   ELSE [group |-> h, rate |-> view.acct[v]]
    <2>1. view.acct[v] # Invalid
      BY <1>0, <1>2 DEF Grounds, Priced
    <2>2. (CHOOSE b \in Bound(h) : TRUE) = v
      BY <1>2
    <2> QED
      BY <2>1, <2>2 DEF syncSingleAccountGroup
  <1>4. /\ ~Sending(g) /\ ~Sending(g)' /\ Active(g)' = Active(g) /\ Now(g)' = Now(g)
        /\ Bound(g)' = Bound(g) /\ Horizon' = Horizon
        /\ h = g => ~Active(g)
    BY <1>0, <1>1 DEF Sending, Active, Plan, Now, Bound, Horizon, Looking
  <1>5. call.group # g
    BY <1>0, ConstantFacts DEF NoCall
  <1>6. Alone(g)' => Alone(g)
    BY <1>0, <1>3, <1>5 DEF Alone
  <1>7. Apart(g)' => Apart(g)
    BY <1>4, <1>6 DEF Apart
  <1>8. /\ \A m : Rest(g, m)' <= Rest(g, m)
        /\ \A m : Begun(g, m)' <= Begun(g, m)
    BY <1>0, <1>4, <1>7, RestStays, BegunStays
  <1>9. FileDebt(g)' <= FileDebt(g) /\ MemoryDebt(g)' <= MemoryDebt(g)
    BY <1>0, <1>4, <1>8 DEF FileDebt, MemoryDebt
  <1>10. Lag(g)' <= Lag(g)
    <2>1. /\ Unlike(g)' = Unlike(g) /\ Overtaken(g)' = Overtaken(g)
          /\ Behind(g)' = Behind(g)
      BY <1>0, <1>4 DEF Unlike, Overtaken, Behind
    <2>2. CASE Alone(g) /\ ~Alone(g)'
      <3>1. h = g /\ view.acct[v] = view.rate[g]
        BY <2>2, <1>0, <1>3, <1>5 DEF Alone
      <3>2. Behind(g) => Overtaken(g)
        BY <3>1, <1>1, <1>2, <1>4 DEF Behind, Overtaken
      <3> QED
        BY <2>1, <2>2, <3>2 DEF Lag, Bit
    <2>3. CASE ~(Alone(g) /\ ~Alone(g)')
      BY <2>1, <2>3, <1>6 DEF Lag, Bit
    <2> QED
      BY <2>2, <2>3
  <1> QED
    BY <1>0, <1>9, <1>10, DebtsFall

\* The parts of a cycle in which a group has still its turn before it.
LEMMA TurnKeepsDebts ==
  ASSUME Inv, Grounds, NEW g \in Groups, ManyInv(g), OneInv(g),
         UNCHANGED <<env, log, on, acct, oldest, rate, disk, up, view, writes, events>>,
         call = NoCall, call' = NoCall, ~Alone(g), ~Alone(g)', Active(g)' <=> Active(g), up,
         \A m : Begun(g, m)' <= Begun(g, m),
         IF Active(g) THEN Begun(g, mem'.dynamic[g]) <= Begun(g, mem.dynamic[g])
         ELSE mem'.dynamic[g] = mem.dynamic[g]
  PROVE  ManyInv(g)' /\ OneInv(g)'
  <1>1. /\ ~Sending(g) /\ ~Sending(g)' /\ Now(g)' = Now(g)
    BY DEF Sending, Now
  <1>2. Apart(g)' => Apart(g)
    BY <1>1 DEF Apart
  <1>3. \A m : Rest(g, m)' <= Rest(g, m)
    BY <1>2, RestStays
  <1>4. \A m : Begun(g, m)' \in Nat /\ Begun(g, m) \in Nat
    BY DEF Begun, CycleTargets, Bit
  <1>5. FileDebt(g)' <= FileDebt(g)
    BY <1>1, <1>3 DEF FileDebt
  <1>6. MemoryDebt(g)' <= MemoryDebt(g)
    <2>1. CASE Active(g)
      <3>1. Begun(g, mem.dynamic[g])' <= Begun(g, mem'.dynamic[g])
        OBVIOUS
      <3>2. Begun(g, mem.dynamic[g])' <= Begun(g, mem.dynamic[g])
        BY <2>1, <3>1, <1>4
      <3> QED
        BY <2>1, <3>2 DEF MemoryDebt
    <2>2. CASE ~Active(g)
      BY <2>2, <1>1, <1>3 DEF MemoryDebt
    <2> QED
      BY <2>1, <2>2
  <1>7. Lag(g)' <= Lag(g)
    BY <1>1 DEF Lag, Behind, Bit
  <1> QED
    BY <1>5, <1>6, <1>7, DebtsFall

\* The groups that have a memory are next.
LEMMA BetweenKeepsDebts ==
  ASSUME Inv, Grounds, NEW g \in Groups, ManyInv(g), OneInv(g),
         BeginRetry \/ ListGroupUsageSince
  PROVE  ManyInv(g)' /\ OneInv(g)'
  <1>0. /\ up /\ call = NoCall /\ call' = NoCall
        /\ UNCHANGED <<env, log, on, acct, oldest, rate, disk, mem, up, view, through, writes,
                       events>>
        /\ \/ pc = "seed" /\ todo = {} /\ pc' = "retry" /\ todo' \subseteq ready
              /\ ready' = ready \ todo'
           \/ pc = "retry" /\ todo = {} /\ pc' = "consume" /\ todo' = ready /\ costs' = acct
    BY DEF BeginRetry, ListGroupUsageSince, Idle, Going, gateway
  <1>1. /\ ~Alone(g) /\ ~Alone(g)' /\ Horizon' = Horizon /\ Bound(g)' = Bound(g)
        /\ Active(g)' = Active(g)
    BY <1>0 DEF Alone, Horizon, Looking, Active, Plan, Bound
  <1>2. /\ Moved(g)' = Moved(g)
        /\ \A m : Noticed(g, m)' = Noticed(g, m) /\ Replaced(g, m)' = Replaced(g, m)
        /\ Enough(g, Bound(g), Horizon)' = Enough(g, Bound(g), Horizon)
    BY <1>0, <1>1 DEF Moved, Noticed, Replaced, Fit, Misfit, Strangers, Enough, Answered, Now,
       After, Rated
  <1>3. /\ Apart(g)' = Apart(g)
        /\ \A m : Owed(g, m)' = Owed(g, m) /\ CycleTargets(g, m)' = CycleTargets(g, m)
    BY <1>0, <1>1, <1>2 DEF Apart, Now, Owed, CycleTargets, Rated
  <1>4. \A m : Begun(g, m)' <= Begun(g, m) /\ Begun(g, m) <= Begun(g, m)
    BY <1>3 DEF Begun, CycleTargets, Bit
  <1> QED
    BY <1>0, <1>1, <1>4, TurnKeepsDebts

\* A memory that is started anew is owed no more than the one before it.
LEMMA PrepareKeepsDebts ==
  ASSUME Inv, Grounds, NEW g \in Groups, ManyInv(g), OneInv(g), prepareDynamicStates
  PROVE  ManyInv(g)' /\ OneInv(g)'
  <1>0. /\ up /\ call = NoCall /\ call' = NoCall /\ pc = "single" /\ todo = {}
        /\ UNCHANGED <<env, log, on, acct, oldest, rate, disk, up, view, writes, events>>
        /\ through' = Len(log) /\ pc' \in {"seed", "bootstrap"}
        /\ ready' = {h \in Plan : Prepared(h).init} /\ todo' = Plan \ ready'
        /\ mem'.dynamic[g] = IF g \in Plan THEN Prepared(g) ELSE mem.dynamic[g]
    <2>1. mem'.dynamic[g] = IF g \in Plan THEN Prepared(g) ELSE mem.dynamic[g]
      BY DEF prepareDynamicStates, Inv, TypeOK, State
    <2> QED
      BY <2>1 DEF prepareDynamicStates, Idle, Going, gateway
  <1>1. /\ call.group # g /\ ~Alone(g) /\ ~Alone(g)' /\ Bound(g)' = Bound(g) /\ Now(g)' = Now(g)
        /\ Horizon = Len(log) /\ Horizon' = Horizon
        /\ Active(g) <=> g \in Plan
        /\ Active(g)' <=> g \in Plan
    <2>1. call.group # g
      BY <1>0, ConstantFacts DEF NoCall
    <2>2. /\ ~Alone(g) /\ ~Alone(g)' /\ Bound(g)' = Bound(g) /\ Now(g)' = Now(g)
          /\ Horizon = Len(log) /\ Horizon' = Horizon
      BY <1>0, <2>1 DEF Alone, Bound, Now, Horizon, Looking
    <2>3. Plan' = Plan
      BY <1>0 DEF Plan, Bound
    <2> QED
      BY <1>0, <2>1, <2>2, <2>3 DEF Active
  <1>2. Apart(g)' = Apart(g)
    BY <1>1 DEF Apart
  <1>3. \A m : Begun(g, m)' <= Begun(g, m)
    BY <1>0, <1>1, <1>2, BegunStays
  <1>4. ASSUME g \in Plan PROVE Begun(g, Prepared(g)) <= Begun(g, mem.dynamic[g])
    <2> DEFINE m == mem.dynamic[g]
               n == [newDynamicGroupState EXCEPT !.pend = m.pend]
    <2>0. m.last <= Len(log) /\ Len(log) \in Nat
      BY HorizonFacts
    <2>1. CASE Prepared(g) = m
      <3>1. Begun(g, m) \in Nat
        BY DEF Begun, CycleTargets, Bit
      <3> QED
        BY <2>1, <3>1
    <2>2. CASE Prepared(g) # m
      <3>1. Prepared(g) = n
        BY <2>2 DEF Prepared
      <3>2. ~n.init /\ n.pend = m.pend
        BY DEF newDynamicGroupState
      <3>3. m.init => Rated(m.rates) # Bound(g)
        <4>1. ASSUME m.init, Rated(m.rates) = Bound(g) PROVE FALSE
          <5>1. AccountBase(m) \subseteq Rated(m.rates)
            BY <4>1 DEF Grounds, Known
          <5>2. usableDynamicGroupState(m) /\ dynamicAccountSetMatches(m, g)
            BY <4>1, <5>1 DEF usableDynamicGroupState, RatesKnown, dynamicAccountSetMatches
          <5> QED
            BY <2>0, <2>2, <5>2 DEF Prepared
        <4> QED
          BY <4>1
      <3> HIDE DEF m, n
      <3>4. Replaced(g, n) => Replaced(g, m)
        <4>1. After(g, Horizon) = {}
          BY <1>1, HorizonFacts DEF After
        <4>2. Replaced(g, n) => Misfit(g, Bound(g))
          BY <3>2, <4>1 DEF Replaced, Fit, Strangers
        <4> QED
          BY <4>2 DEF Replaced
      <3>5. Owed(g, n) = Owed(g, m)
        BY <3>2 DEF Owed
      <3>6. CycleTargets(g, n) <= CycleTargets(g, m)
        BY <3>2, <3>3, <3>4 DEF CycleTargets, Bit
      <3>7. Begun(g, n) <= Begun(g, m)
        BY <3>5, <3>6 DEF Begun, CycleTargets, Bit
      <3> QED
        BY <3>1, <3>7 DEF m
    <2> QED
      BY <2>1, <2>2
  <1>5. IF Active(g) THEN Begun(g, mem'.dynamic[g]) <= Begun(g, mem.dynamic[g])
        ELSE mem'.dynamic[g] = mem.dynamic[g]
    BY <1>0, <1>1, <1>4
  <1>6. Active(g)' <=> Active(g)
    BY <1>1
  <1> QED
    BY <1>0, <1>1, <1>3, <1>5, <1>6, TurnKeepsDebts

\* Windows only lose requests.
LEMMA LoadKeepsDebts ==
  ASSUME Inv, Grounds, NEW g \in Groups, ManyInv(g), OneInv(g), loadDynamicBootstrap
  PROVE  ManyInv(g)' /\ OneInv(g)'
  <1>0. /\ up /\ call = NoCall /\ call' = NoCall /\ pc = "bootstrap" /\ pc' = "seed"
        /\ UNCHANGED <<env, log, on, acct, rate, disk, mem, up, view, through, todo, ready,
                       writes, events>>
        /\ oldest' \in oldest..through + 1
    BY DEF loadDynamicBootstrap, Idle
  <1>1. /\ ~Alone(g) /\ ~Alone(g)' /\ Bound(g)' = Bound(g) /\ Now(g)' = Now(g)
        /\ Active(g)' = Active(g) /\ Horizon' = Horizon /\ Apart(g)' = Apart(g)
        /\ ~Sending(g) /\ ~Sending(g)'
    BY <1>0 DEF Alone, Bound, Now, Active, Plan, Horizon, Looking, Apart, Sending
  <1>2. oldest <= oldest' /\ oldest \in Nat /\ oldest' \in Nat
    <2>1. oldest \in Nat /\ through \in Nat
      BY HorizonFacts, LogFacts DEF Inv
    <2> QED
      BY <2>1, <1>0
  <1>3. ASSUME NEW B, NEW k \in Nat, Enough(g, B, k)' PROVE Enough(g, B, k)
    <2>1. Answered(g, B, k)' \subseteq Answered(g, B, k)
      BY <1>0, <1>2 DEF Answered
    <2>2. IsFiniteSet(Answered(g, B, k))
      BY AnsweredFinite DEF Inv
    <2> QED
      BY <1>3, <2>1, <2>2, AnsweredMore DEF Enough
  <1>4. /\ Startable(g)' => Startable(g)
        /\ Enough(g, Bound(g), Horizon)' => Enough(g, Bound(g), Horizon)
    <2>1. /\ Len(log) \in Nat /\ Horizon \in Nat
          /\ Now(g)' = Now(g) /\ Len(log)' = Len(log) /\ Bound(g)' = Bound(g)
      BY <1>0, <1>1, HorizonFacts
    <2> QED
      BY <2>1, <1>1, <1>3 DEF Startable
  <1>5. ASSUME NEW m
        PROVE  /\ Stale(g, m)' = Stale(g, m) /\ Unfit(g, m)' = Unfit(g, m)
               /\ Noticed(g, m)' = Noticed(g, m) /\ Moved(g)' = Moved(g)
               /\ Replaced(g, m)' = Replaced(g, m) /\ Owed(g, m)' = Owed(g, m)
    BY <1>0, <1>1 DEF Stale, Unfit, Noticed, Moved, Replaced, Fit, Misfit, Strangers, After,
       Rated, Owed
  <1>6. ASSUME NEW m
        PROVE  Rest(g, m)' <= Rest(g, m) /\ Begun(g, m)' <= Begun(g, m)
    <2>1. /\ Targets(g, m)' <= Targets(g, m) /\ CycleTargets(g, m)' <= CycleTargets(g, m)
      BY <1>1, <1>4, <1>5 DEF Targets, CycleTargets, Bit, Rated
    <2>2. /\ Targets(g, m)' \in Nat /\ CycleTargets(g, m)' \in Nat
          /\ Targets(g, m) \in Nat /\ CycleTargets(g, m) \in Nat
      BY DEF Targets, CycleTargets, Bit
    <2> QED
      BY <2>1, <2>2, <1>1, <1>5 DEF Rest, Begun, Bit
  <1>7. FileDebt(g)' <= FileDebt(g) /\ MemoryDebt(g)' <= MemoryDebt(g)
    BY <1>0, <1>1, <1>6 DEF FileDebt, MemoryDebt
  <1>8. Lag(g)' <= Lag(g)
    BY <1>0, <1>1 DEF Lag, Behind, Bit
  <1> QED
    BY <1>0, <1>7, <1>8, DebtsFall

\* The turn of a group: the memory it gets knows of targets no more than the cycle
\* had before it, and a new target is one of these.
LEMMA PublishKeepsDebts ==
  ASSUME Inv, Grounds, NEW g \in Groups, ManyInv(g), OneInv(g),
         up, call = NoCall, pc \in {"seed", "retry", "consume"}, NEW h \in todo, NEW m \in Memory,
         NEW event, NEW p \in 0..MaxRate,
         mem' = [mem EXCEPT !.dynamic[h] = [m EXCEPT !.pend = p]],
         todo' = todo \ {h},
         \/ disk' = disk /\ call' = call
         \/ disk' = mem' /\ call' = [group |-> h, rate |-> p] /\ p \in Rates,
         p \in {0, m.pend} \/ (event /\ m.pend = 0),
         UNCHANGED <<pc, view, through, ready, choice, costs>>, Going,
         m.pend = mem.dynamic[h].pend,
         Targets(h, m) + Bit(event) <= CycleTargets(h, mem.dynamic[h])
  PROVE  ManyInv(g)' /\ OneInv(g)'
  <1> DEFINE n == [m EXCEPT !.pend = p]
  <1>0. /\ UNCHANGED <<env, log, on, acct, oldest, rate, up, view, through, writes, events>>
        /\ h \in Groups /\ h \in Plan /\ Looking
    BY DEF Going, gateway, Inv, Duties, TypeOK, Looking
  <1>1. /\ n \in Memory /\ n.pend = p /\ n.init = m.init /\ n.last = m.last /\ n.rates = m.rates
    BY PendMemory DEF Memory
  <1>2. /\ mem'.dynamic[h] = n
        /\ \A k \in Groups : k # h => mem'.dynamic[k] = mem.dynamic[k]
    <2>1. mem \in State /\ mem' = [mem EXCEPT !.dynamic[h] = n]
      BY DEF Inv, TypeOK
    <2>2. h \in Groups /\ n \in Memory
      BY <1>0, <1>1
    <2>3. ASSUME NEW x \in Memory, mem' = [mem EXCEPT !.dynamic[h] = x]
          PROVE  /\ mem'.dynamic[h] = x
                 /\ \A k \in Groups : k # h => mem'.dynamic[k] = mem.dynamic[k]
      BY <2>1, <2>2, <2>3 DEF State
    <2> HIDE DEF n
    <2> QED
      BY <2>1, <2>2, <2>3
  <1> HIDE DEF n
  <1>3. h \notin ready \/ pc = "consume"
    BY DEF Grounds, Stages, Inv, Duties, Looking
  <1>4. /\ ~Alone(g) /\ ~Alone(g)' /\ ~Sending(g) /\ Now(g)' = Now(g) /\ Horizon' = Horizon
        /\ Bound(g)' = Bound(g)
    BY <1>0 DEF Alone, Sending, Now, Bound, Horizon, Looking
  <1>5. Apart(g)' = Apart(g)
    BY <1>4 DEF Apart
  <1>6. /\ \A k : Rest(g, k)' <= Rest(g, k) /\ Sends(g, k)' <= Sends(g, k)
        /\ \A k : Begun(g, k)' <= Begun(g, k)
    BY <1>0, <1>4, <1>5, RestStays, BegunStays
  <1>7. \A k : /\ Rest(g, k) \in Nat /\ Sends(g, k) \in Nat /\ Begun(g, k) \in Nat
               /\ Rest(g, k)' \in Nat /\ Sends(g, k)' \in Nat /\ Begun(g, k)' \in Nat
               /\ Rest(g, k) <= Sends(g, k)
    BY DEF Rest, Sends, Begun, Targets, CycleTargets, Bit
  <1>8. CASE g = h
    <2>1. Active(g) /\ ~Active(g)'
      BY <1>0, <1>3, <1>8 DEF Active
    <2>2. Sends(g, n) <= Begun(g, mem.dynamic[g])
      <3>1. Targets(g, n) = Targets(g, m)
        BY <1>1 DEF Targets, Stale, Unfit
      <3>2. \/ Owed(g, n) => Owed(g, mem.dynamic[g])
            \/ event
        BY <1>1, <1>8 DEF Owed
      <3>3. Targets(g, n) \in Nat /\ CycleTargets(g, mem.dynamic[g]) \in Nat
        BY DEF Targets, CycleTargets, Bit
      <3> QED
        BY <3>1, <3>2, <3>3, <1>8 DEF Sends, Begun, Bit
    <2>3. MemoryDebt(g)' <= MemoryDebt(g)
      <3>1. MemoryDebt(g)' \in {Sends(g, n)', Rest(g, n)'}
        BY <2>1, <1>2, <1>8 DEF MemoryDebt
      <3> QED
        BY <3>1, <2>1, <2>2, <1>6, <1>7 DEF MemoryDebt
    <2>4. FileDebt(g)' <= FileDebt(g) \/ FileDebt(g)' <= MemoryDebt(g)
      <3>1. CASE disk' = disk /\ call' = call
        <4>1. ~Sending(g)'
          BY <3>1 DEF Sending
        <4> QED
          BY <3>1, <4>1, <1>4, <1>6 DEF FileDebt
      <3>2. CASE disk' = mem'
        <4>1. FileDebt(g)' \in {Sends(g, n)', Rest(g, n)'}
          BY <3>2, <1>2, <1>8 DEF FileDebt
        <4> QED
          BY <4>1, <2>1, <2>2, <1>6, <1>7 DEF MemoryDebt
      <3> QED
        BY <3>1, <3>2
    <2>5. Lag(g)' <= Lag(g)
      BY <2>1, <1>0, <1>4 DEF Lag, Behind, Bit
    <2> QED
      BY <2>3, <2>4, <2>5, <1>0, DebtsFall
  <1>9. CASE g # h
    <2>1. ~Sending(g)' /\ (Active(g)' <=> Active(g)) /\ mem'.dynamic[g] = mem.dynamic[g]
      BY <1>0, <1>2, <1>9 DEF Sending, Active, Plan, Bound
    <2>2. MemoryDebt(g)' <= MemoryDebt(g)
      BY <2>1, <1>4, <1>6 DEF MemoryDebt
    <2>3. FileDebt(g)' <= FileDebt(g) \/ FileDebt(g)' <= MemoryDebt(g)
      <3>1. CASE disk' = disk
        BY <3>1, <2>1, <1>4, <1>6 DEF FileDebt
      <3>2. CASE disk' = mem'
        <4>1. FileDebt(g)' = Rest(g, mem.dynamic[g])'
          BY <3>2, <2>1 DEF FileDebt
        <4>2. Rest(g, mem.dynamic[g]) <= MemoryDebt(g)
          BY RestCovered
        <4> QED
          BY <4>1, <4>2, <2>1, <1>6, <1>7, DebtsAreNumbers
      <3> QED
        BY <3>1, <3>2
    <2>4. Lag(g)' <= Lag(g)
      BY <2>1, <1>0, <1>4 DEF Lag, Behind, Bit
    <2> QED
      BY <2>2, <2>3, <2>4, <1>0, DebtsFall
  <1> QED
    BY <1>8, <1>9

\* A memory just started knows the accounts of the group and their rates as listed.
LEMMA SeededMemory ==
  ASSUME Inv, Grounds, pc = "seed", NEW g \in todo, choice[g] # 0
  PROVE  LET n == seedDynamicGroupState(g, choice[g]) IN
           /\ n \in Memory /\ n.init /\ n.last = through /\ n.pend = mem.dynamic[g].pend
           /\ Rated(n.rates) = Bound(g) /\ AccountBase(n) \subseteq Rated(n.rates)
           /\ \A a \in Bound(g) : n.rates[a] = view.acct[a]
           /\ Targets(g, n) + 1 <= CycleTargets(g, mem.dynamic[g])
  <1> DEFINE n == seedDynamicGroupState(g, choice[g])
             m == mem.dynamic[g]
             rows == WindowRows(g, choice[g])
             used == {log[i].account : i \in rows}
             taken == [a \in Accounts |-> IF a \in used THEN costs[a] ELSE Invalid]
  <1>0. /\ g \in Groups /\ g \in Plan /\ Looking /\ ~m.init /\ Enough(g, Bound(g), through)
        /\ Horizon = through /\ Bound(g) \subseteq env.bound[g] /\ env.bound[g] \subseteq Accounts
    <2>1. g \in Groups /\ g \in Plan /\ Looking
      BY DEF Inv, TypeOK, Duties, Looking
    <2>2. ~m.init /\ Enough(g, Bound(g), through)
      BY DEF Grounds, Stages
    <2> QED
      BY <2>1, <2>2, SizeOfGroups DEF Horizon
  <1>1. n \in Memory /\ n.init /\ n.last = through
    <2>1. choice[g] \in Nat
      BY <1>0, ConstantFacts DEF Inv, TypeOK
    <2> QED
      BY <1>0, <2>1, SeededFits DEF Fits
  <1>2. /\ n.pend = m.pend /\ n.rates = overlayBindingRates(taken, g)
        /\ n.seen = [i \in 1..MaxRows |-> IF i \in rows THEN 1 ELSE 0]
    BY DEF seedDynamicGroupState
  <1>3. \A a \in Accounts : view.acct[a] # Invalid
    BY DEF Grounds, Priced
  <1>4. used \subseteq Bound(g)
    BY DEF WindowRows
  <1>5. \A a \in Accounts : n.rates[a] = IF a \in Bound(g) THEN view.acct[a] ELSE Invalid
    BY <1>2, <1>3, <1>4 DEF overlayBindingRates
  <1>6. AccountBase(n) \subseteq used
    <2> SUFFICES ASSUME NEW i \in DOMAIN log, n.seen[i] > 0 PROVE i \in rows
      BY DEF AccountBase
    <2>1. i \in 1..MaxRows
      <3>1. Len(log) <= MaxRows /\ Len(log) \in Nat /\ DOMAIN log = 1..Len(log)
        BY HorizonFacts DEF Inv, TypeOK
      <3> QED
        BY <3>1, ConstantFacts
    <2> QED
      BY <2>1, <1>2
  <1> HIDE DEF n, m, used, taken
  <1>7. Rated(n.rates) = Bound(g)
    BY <1>0, <1>3, <1>5 DEF Rated
  <1>8. Stale(g, n) => Moved(g)
    <2>1. \A a \in env.bound[g] : n.rates[a] # Invalid => n.rates[a] = view.acct[a]
      BY <1>0, <1>5
    <2> QED
      BY <1>0, <1>1, <2>1 DEF Stale, Moved
  <1>9. Unfit(g, n) => Replaced(g, m)
    BY <1>0, <1>1, <1>7 DEF Unfit, Replaced, Fit
  <1>10. Targets(g, n) + 1 <= CycleTargets(g, m)
    BY <1>0, <1>1, <1>8, <1>9 DEF Targets, CycleTargets, Bit
  <1> QED
    BY <1>0, <1>1, <1>2, <1>4, <1>5, <1>6, <1>7, <1>10 DEF n, m

\* A memory that has gone on knows the accounts that answered, too.
LEMMA UpdatedMemory ==
  ASSUME Inv, Grounds, pc = "consume", NEW g \in todo
  PROVE  LET n == updateDynamicMemory(g)
             m == mem.dynamic[g]
             event == NewRows(g) # {} \/ relevantAccountRatesChanged(m, n)
         IN /\ n \in Memory /\ n.init /\ n.last = through /\ n.pend = m.pend
            /\ AccountBase(n) \subseteq Rated(n.rates)
            /\ Targets(g, n) + Bit(event) <= CycleTargets(g, m)
  <1> DEFINE n == updateDynamicMemory(g)
             m == mem.dynamic[g]
             used == {log[i].account : i \in NewRows(g)}
             found == [a \in Accounts |->
                         IF a \in used /\ costs[a] # Invalid THEN costs[a] ELSE m.rates[a]]
             event == NewRows(g) # {} \/ relevantAccountRatesChanged(m, n)
  <1>0. /\ g \in Groups /\ g \in Plan /\ Looking /\ m.init /\ Rated(m.rates) = Bound(g)
        /\ Horizon = through /\ Bound(g) \subseteq env.bound[g] /\ env.bound[g] \subseteq Accounts
        /\ AccountBase(m) \subseteq Rated(m.rates)
    <2>1. g \in Groups /\ g \in Plan /\ Looking
      BY DEF Inv, TypeOK, Duties, Looking
    <2>2. m.init /\ Rated(m.rates) = Bound(g)
      BY DEF Grounds, Stages, Fit
    <2>3. AccountBase(m) \subseteq Rated(m.rates)
      BY <2>1, <2>2 DEF Grounds, Known
    <2> QED
      BY <2>1, <2>2, <2>3, SizeOfGroups DEF Horizon
  <1>1. n \in Memory /\ n.last = through /\ m \in Memory
    BY UpdatedFits, <1>0, HorizonFacts DEF Fits
  <1>2. /\ n.pend = m.pend /\ n.init = m.init
        /\ n.rates = overlayBindingRates(found, g)
        /\ n.seen = [i \in 1..MaxRows |-> m.seen[i] + IF i \in NewRows(g) THEN 1 ELSE 0]
    BY <1>1 DEF updateDynamicMemory, Memory
  <1>3. \A a \in Accounts : view.acct[a] # Invalid /\ costs[a] # Invalid
    BY DEF Grounds, Priced
  <1>4. /\ m.last \in Nat /\ m.last <= through /\ through \in Nat /\ through <= Len(log)
        /\ DOMAIN log = 1..Len(log) /\ Len(log) \in Nat
        /\ \A i \in DOMAIN log : log[i].account \in Accounts
    <2>1. m.last \in 0..Len(log) /\ m.last <= through
      BY <1>0, HorizonFacts
    <2> QED
      BY <2>1, LogFacts DEF Inv
  <1>5. \A i \in NewRows(g) : i \in After(g, m.last) /\ i <= through /\ log[i].account \in used
    <2>1. \A i \in m.last + 1 .. through : i \in 1..Len(log) /\ i > m.last /\ i <= through
      BY <1>4
    <2> QED
      BY <2>1, <1>4 DEF NewRows, After
  <1>6. used \subseteq Accounts
    BY <1>4, <1>5 DEF After
  <1>7. \A a \in Accounts :
          n.rates[a] = IF a \in Bound(g) THEN view.acct[a]
                       ELSE IF a \in used THEN costs[a] ELSE m.rates[a]
    BY <1>2, <1>3 DEF overlayBindingRates
  <1>8. AccountBase(n) \subseteq AccountBase(m) \cup used
    <2> SUFFICES ASSUME NEW i \in DOMAIN log, n.seen[i] > 0
                 PROVE  m.seen[i] > 0 \/ i \in NewRows(g)
      BY DEF AccountBase
    <2>1. i \in 1..MaxRows
      <3>1. Len(log) <= MaxRows
        BY DEF Inv, TypeOK
      <3> QED
        BY <3>1, <1>4, ConstantFacts
    <2>2. m.seen[i] \in 0..1
      BY <2>1, <1>1 DEF Memory
    <2> QED
      BY <2>1, <2>2, <1>2
  <1>9. NewRows(g) = {} => AccountBase(n) \subseteq AccountBase(m)
    BY <1>8
  <1>10. m.rates \in [Accounts -> 0..MaxRate]
    BY <1>1 DEF Memory
  <1> HIDE DEF n, m, found
  <1>11. Rated(n.rates) = Bound(g) \cup used
    <2>1. ASSUME NEW a \in Accounts PROVE n.rates[a] # Invalid <=> a \in Bound(g) \cup used
      BY <1>0, <1>3, <1>7 DEF Rated
    <2> QED
      BY <2>1, <1>0, <1>6 DEF Rated
  <1>12. event => Noticed(g, m)
    <2>1. CASE NewRows(g) # {}
      BY <2>1, <1>0, <1>5 DEF Noticed
    <2>2. ASSUME NewRows(g) = {}, relevantAccountRatesChanged(m, n) PROVE Noticed(g, m)
      <3>1. PICK a \in AccountBase(n) : m.rates[a] # n.rates[a] \/ n.rates[a] = Invalid
        BY <2>2 DEF relevantAccountRatesChanged
      <3>2. a \in Bound(g) /\ m.rates[a] # Invalid
        BY <2>2, <3>1, <1>0, <1>9 DEF Rated
      <3> QED
        BY <3>1, <3>2, <1>0, <1>3, <1>7 DEF Noticed
    <2> QED
      BY <2>1, <2>2
  <1>13. Stale(g, n) => Moved(g)
    <2>1. ASSUME NEW a \in env.bound[g], n.rates[a] # Invalid, n.rates[a] # acct[a]
          PROVE  acct[a] # view.acct[a] \/ acct[a] # costs[a]
      BY <2>1, <1>0, <1>3, <1>7 DEF Rated
    <2> QED
      BY <1>0, <1>1, <2>1 DEF Stale, Moved
  <1>14. Unfit(g, n) => Replaced(g, m)
    <2>1. Fit(g, m)
      BY <1>0 DEF Fit
    <2>2. ASSUME ~Strangers(g, Bound(g), m.last) PROVE used \subseteq Bound(g)
      BY <2>2, <1>5 DEF Strangers, used
    <2>3. ASSUME Strangers(g, Bound(g) \cup used, through)
          PROVE  Strangers(g, Bound(g), m.last)
      BY <2>3, <1>4 DEF Strangers, After
    <2>4. CASE Strangers(g, Bound(g), m.last)
      BY <2>1, <2>4 DEF Replaced
    <2>5. CASE ~Strangers(g, Bound(g), m.last)
      <3>1. Bound(g) \cup used = Bound(g)
        BY <2>2, <2>5
      <3> QED
        BY <2>1, <2>3, <2>5, <3>1, <1>1, <1>11 DEF Unfit, Replaced
    <2> QED
      BY <2>4, <2>5
  <1>15. Targets(g, n) + Bit(event) <= CycleTargets(g, m)
    <2>1. n.init /\ m.init
      BY <1>0, <1>2
    <2> HIDE DEF event
    <2> QED
      BY <2>1, <1>12, <1>13, <1>14 DEF Targets, CycleTargets, Bit
  <1>16. AccountBase(n) \subseteq Rated(n.rates)
    BY <1>0, <1>8, <1>11
  <1> QED
    BY <1>0, <1>1, <1>2, <1>15, <1>16 DEF n, m, event

\* Each of the turns of a group is such a one.
LEMMA GroupTurnKeepsDebts ==
  ASSUME Inv, Grounds, NEW g \in Groups, ManyInv(g), OneInv(g), NEW h \in Groups,
         BootstrapWaits(h) \/ Seed(h) \/ Retry(h) \/ consumeDynamicGroup(h)
  PROVE  ManyInv(g)' /\ OneInv(g)'
  <1>0. /\ up /\ call = NoCall /\ pc \in {"seed", "retry", "consume"} /\ h \in todo
        /\ UNCHANGED <<pc, view, through, ready, choice, costs>> /\ Going
        /\ TypeOK /\ Surroundings /\ pc # "idle"
    BY DEF BootstrapWaits, Seed, Retry, consumeDynamicGroup, Idle, Inv
  <1> DEFINE m == mem.dynamic[h]
  <1>1. /\ m \in Memory /\ m = [m EXCEPT !.pend = m.pend] /\ m.pend \in 0..MaxRate
        /\ mem \in State
    <2>1. m \in Memory /\ mem \in State
      BY HorizonFacts DEF Inv, TypeOK
    <2> HIDE DEF m
    <2> QED
      BY <2>1 DEF Memory
  <1>2. Targets(h, m) + Bit(FALSE) <= CycleTargets(h, m)
    <2>1. Targets(h, m) \in Nat
      BY DEF Targets, Bit
    <2> QED
      BY <2>1, <1>1, CycleCovers DEF Bit
  <1>3. ASSUME publishDynamicGroup(h, m, FALSE) PROVE ManyInv(g)' /\ OneInv(g)'
    <2>1. PICK p \in 0..MaxRate :
            /\ mem' = [mem EXCEPT !.dynamic[h] = [m EXCEPT !.pend = p]]
            /\ \/ disk' = disk /\ call' = call
               \/ disk' = mem' /\ call' = [group |-> h, rate |-> p] /\ p \in Rates
            /\ p \in {0, m.pend} \/ (FALSE /\ m.pend = 0)
      BY <1>0, <1>1, <1>3, PublishOutcome
    <2>2. todo' = todo \ {h}
      BY <1>0, <1>1, <1>3, PublishOutcome
    <2>3. m \in Memory /\ m.pend = mem.dynamic[h].pend
      BY <1>1
    <2> HIDE DEF m
    <2> QED
      BY <2>1, <2>2, <2>3, <1>0, <1>2, PublishKeepsDebts DEF m
  <1>4. CASE BootstrapWaits(h)
    <2>1. CASE publishDynamicGroup(h, m, FALSE)
      BY <2>1, <1>3
    <2>2. CASE m.pend = 0 /\ Settled(h, m, FALSE) /\ UNCHANGED left
      <3>1. /\ mem' = [mem EXCEPT !.dynamic[h] = [m EXCEPT !.pend = m.pend]]
            /\ disk' = disk /\ call' = call /\ todo' = todo \ {h}
        BY <2>2, <1>1 DEF Settled
      <3> QED
        BY <3>1, <1>0, <1>1, <1>2, PublishKeepsDebts
    <2> QED
      BY <2>1, <2>2, <1>4 DEF BootstrapWaits
  <1>5. CASE Seed(h)
    <2> DEFINE n == seedDynamicGroupState(h, choice[h])
    <2>1. /\ publishDynamicGroup(h, n, TRUE) /\ pc = "seed" /\ choice[h] # 0
      BY <1>5 DEF Seed
    <2>2. n \in Memory /\ n.pend = m.pend /\ Targets(h, n) + 1 <= CycleTargets(h, m)
      BY <1>0, <2>1, SeededMemory
    <2> HIDE DEF n, m
    <2>3. Targets(h, n) + Bit(TRUE) <= CycleTargets(h, m)
      BY <2>2 DEF Bit
    <2>4. PICK p \in 0..MaxRate :
            /\ mem' = [mem EXCEPT !.dynamic[h] = [n EXCEPT !.pend = p]]
            /\ \/ disk' = disk /\ call' = call
               \/ disk' = mem' /\ call' = [group |-> h, rate |-> p] /\ p \in Rates
            /\ p \in {0, n.pend} \/ (TRUE /\ n.pend = 0)
      BY <1>0, <2>1, <2>2, PublishOutcome
    <2>5. todo' = todo \ {h}
      BY <1>0, <2>1, <2>2, PublishOutcome
    <2> QED
      BY <2>2, <2>3, <2>4, <2>5, <1>0, PublishKeepsDebts DEF m
  <1>6. CASE Retry(h)
    BY <1>3, <1>6 DEF Retry
  <1>7. CASE consumeDynamicGroup(h)
    <2> DEFINE n == updateDynamicMemory(h)
               event == NewRows(h) # {} \/ relevantAccountRatesChanged(m, n)
    <2>1. publishDynamicGroup(h, n, event) /\ pc = "consume"
      BY <1>7 DEF consumeDynamicGroup
    <2>2. n \in Memory /\ n.pend = m.pend /\ Targets(h, n) + Bit(event) <= CycleTargets(h, m)
      BY <1>0, <2>1, UpdatedMemory
    <2> HIDE DEF n, m, event
    <2>4. PICK p \in 0..MaxRate :
            /\ mem' = [mem EXCEPT !.dynamic[h] = [n EXCEPT !.pend = p]]
            /\ \/ disk' = disk /\ call' = call
               \/ disk' = mem' /\ call' = [group |-> h, rate |-> p] /\ p \in Rates
            /\ p \in {0, n.pend} \/ (event /\ n.pend = 0)
      BY <1>0, <2>1, <2>2, PublishOutcome
    <2>5. todo' = todo \ {h}
      BY <1>0, <2>1, <2>2, PublishOutcome
    <2> QED
      BY <2>2, <2>4, <2>5, <1>0, PublishKeepsDebts DEF m
  <1> QED
    BY <1>4, <1>5, <1>6, <1>7

\* The first rates of the shared upstream are a reason of their own.
LEMMA InitializeKeepsDebts ==
  ASSUME Inv, Grounds, NEW g \in Groups, ManyInv(g), OneInv(g), Initialize
  PROVE  ManyInv(g)' /\ OneInv(g)'
  <1> DEFINE h == env.image
             m == mem.dynamic[h]
             n == [m EXCEPT !.pend = InitialRate,
                     !.rates = [a \in Accounts |->
                                  IF a \in env.initial THEN view.acct[a] ELSE Invalid]]
  <1>0. /\ up /\ pc = "initial" /\ call = NoCall /\ h \in Groups
        /\ UNCHANGED <<env, log, on, acct, oldest, rate, up, writes>>
        /\ env.initial = Bound(h) /\ Cardinality(env.initial) > 1
    <2>1. pc = "initial" /\ h # 0 /\ h \in Groups
      BY DEF Initialize, Inv, Surroundings, Environment
    <2>2. env.initial = Bound(h) /\ Cardinality(env.initial) > 1
      BY <2>1, EnvironmentAssumption DEF Grounds, Stages
    <2> QED
      BY <2>1, <2>2 DEF Initialize, gateway, Inv, Calls
  <1>1. CASE EndCycle(FALSE) /\ UNCHANGED <<mem, disk, events>>
    BY <1>0, <1>1, StopKeepsDebts DEF EndCycle
  <1>2. CASE /\ RatesKnown(n)
             /\ mem' = [mem EXCEPT !.dynamic[h] = n, !.applied = TRUE]
             /\ disk' = mem'
             /\ pc' = "single"
             /\ events' = [events EXCEPT ![h] = @ + 1]
             /\ UNCHANGED <<view, through, todo, ready, choice, costs, call>>
    <2>1. /\ m \in Memory /\ n \in Memory /\ n.init /\ m.init /\ n.last = m.last
          /\ n.rates = [a \in Accounts |-> IF a \in env.initial THEN view.acct[a] ELSE Invalid]
      <3>1. m \in Memory /\ InitialRate \in 0..MaxRate
        BY <1>0, HorizonFacts, ConstantFacts
      <3>2. [a \in Accounts |-> IF a \in env.initial THEN view.acct[a] ELSE Invalid]
            \in [Accounts -> 0..MaxRate]
        BY ConstantFacts DEF Inv, Surroundings, Listed, Invalid
      <3> QED
        BY <3>1, <3>2, <1>2 DEF Memory, RatesKnown
    <2>2. /\ mem'.dynamic[h] = n
          /\ \A k \in Groups : k # h => mem'.dynamic[k] = mem.dynamic[k]
      <3>1. mem \in State
        BY DEF Inv, TypeOK
      <3> HIDE DEF n, h
      <3> QED
        BY <3>1, <1>0, <1>2 DEF State
    <2>3. /\ h \in Plan /\ Bound(h) \subseteq Accounts
          /\ \A a \in Accounts : view.acct[a] # Invalid
      BY <1>0, SizeOfGroups DEF Plan, Grounds, Priced
    <2>4. Rated(n.rates) = Bound(h)
      BY <2>1, <2>3, <1>0 DEF Rated
    <2>5. /\ Alone(g)' = Alone(g) /\ ~Sending(g) /\ ~Sending(g)' /\ Now(g)' = Now(g)
          /\ Horizon' = Horizon /\ Active(g)' = Active(g) /\ Bound(g)' = Bound(g)
      BY <1>0, <1>2 DEF Alone, Sending, Now, Horizon, Looking, Active, Plan, Bound
    <2>6. Apart(g)' = Apart(g)
      BY <2>5 DEF Apart
    <2>7. \A k : Rest(g, k)' <= Rest(g, k) /\ Begun(g, k)' <= Begun(g, k)
      BY <1>0, <1>2, <2>5, <2>6, RestStays, BegunStays
    <2>8. \A k : /\ Rest(g, k) \in Nat /\ Begun(g, k) \in Nat
                 /\ Rest(g, k)' \in Nat /\ Begun(g, k)' \in Nat
      BY DEF Rest, Begun, Targets, CycleTargets, Bit
    <2>9. Lag(g)' <= Lag(g)
      BY <1>0, <1>2, <2>5 DEF Lag, Unlike, Overtaken, Behind, Bit
    <2> HIDE DEF n
    <2>10. CASE g = h
      <3>1. CycleTargets(g, n) <= CycleTargets(g, m)
        <4>1. Noticed(g, n) => Noticed(g, m)
          <5>1. \A a \in env.bound[g] : n.rates[a] # Invalid => n.rates[a] = view.acct[a]
            BY <2>1, <2>10, <1>0, SizeOfGroups
          <5> QED
            BY <5>1, <2>1 DEF Noticed
        <4>2. Rated(m.rates) = Bound(g) => Replaced(g, n) = Replaced(g, m)
          BY <2>1, <2>4, <2>10 DEF Replaced, Fit
        <4> QED
          BY <4>1, <4>2, <2>1, <2>4, <2>10 DEF CycleTargets, Bit
      <3>2. Begun(g, n) <= Begun(g, m) + 1
        <4>1. CycleTargets(g, n) \in Nat /\ CycleTargets(g, m) \in Nat
          BY DEF CycleTargets, Bit
        <4> QED
          BY <3>1, <4>1 DEF Begun, Bit
      <3>3. Rest(g, n) <= Begun(g, n)
        <4>1. Rest(g, n) <= Sends(g, n) /\ Sends(g, n) <= Begun(g, n)
          BY <2>1, RestCovered
        <4>2. Sends(g, n) \in Nat
          BY DEF Sends, Targets, Bit
        <4> QED
          BY <4>1, <4>2, <2>8
      <3>4. Active(g) /\ MemoryDebt(g) = Begun(g, m)
        BY <2>3, <2>10, <1>0 DEF Active, MemoryDebt
      <3>5. MemoryDebt(g)' <= MemoryDebt(g) + 1 /\ FileDebt(g)' <= MemoryDebt(g) + 1
        <4>1. ASSUME NEW x, x = n
              PROVE  MemoryDebt(g)' <= MemoryDebt(g) + 1 /\ FileDebt(g)' <= MemoryDebt(g) + 1
          <5>1. mem'.dynamic[g] = x /\ disk'.dynamic[g] = x
            BY <4>1, <2>2, <2>10, <1>2
          <5>2. MemoryDebt(g)' = Begun(g, x)' /\ FileDebt(g)' = Rest(g, x)'
            BY <5>1, <3>4, <2>5 DEF MemoryDebt, FileDebt
          <5>3. /\ Begun(g, x)' <= Begun(g, x) /\ Rest(g, x)' <= Rest(g, x)
                /\ Begun(g, x) <= MemoryDebt(g) + 1 /\ Rest(g, x) <= Begun(g, x)
            BY <4>1, <3>2, <3>3, <3>4, <2>7
          <5> QED
            BY <5>2, <5>3, <2>8, DebtsAreNumbers
        <4> QED
          BY <4>1
      <3>6. /\ events'[g] = events[g] + 1 /\ events[g] \in Nat
            /\ writes[g].many \in Nat /\ writes[g].one \in Nat
        BY <2>10, <1>2 DEF Grounds
      <3> QED
        BY <3>5, <3>6, <2>9, <1>0, DebtsAreNumbers DEF ManyInv, OneInv, Several
    <2>11. CASE g # h
      <3>1. MemoryDebt(g)' <= MemoryDebt(g)
        BY <2>2, <2>5, <2>7, <2>11 DEF MemoryDebt
      <3>2. FileDebt(g)' <= MemoryDebt(g)
        <4>1. FileDebt(g)' = Rest(g, mem.dynamic[g])'
          BY <2>5, <1>2 DEF FileDebt
        <4>2. Rest(g, mem.dynamic[g])' <= Rest(g, mem.dynamic[g])
          BY <2>2, <2>7, <2>11
        <4>3. Rest(g, mem.dynamic[g]) <= MemoryDebt(g)
          BY RestCovered
        <4> QED
          BY <4>1, <4>2, <4>3, <2>8, DebtsAreNumbers
      <3>3. events'[g] = events[g]
        BY <2>11, <1>0, <1>2 DEF Grounds
      <3> QED
        BY <3>1, <3>2, <3>3, <2>9, <1>0, DebtsFall
    <2> QED
      BY <2>10, <2>11
  <1> QED
    BY <1>1, <1>2 DEF Initialize

\* The answer to a PUT, or its loss.
Replied ==
  /\ call # NoCall /\ call' = NoCall
  /\ UNCHANGED <<env, log, on, acct, oldest, disk, events>>
  /\ Applied \/ UNCHANGED <<rate, writes>>
  /\ \/ /\ up /\ up' /\ UNCHANGED <<pc, view, through, todo, ready, choice, costs>>
        /\ \/ mem' = mem
           \/ /\ Applied /\ pc # "single"
              /\ mem' = [mem EXCEPT !.dynamic[call.group] = clearDynamicPending(@)]
     \/ ~up' /\ pc' = "idle"

\* What an answer changes.
LEMMA AnswerFacts ==
  ASSUME Inv, Grounds, Replied
  PROVE  /\ call.group \in Groups /\ call.rate \in Rates /\ NoCall.group \notin Groups
         /\ rate' = rate \/ rate' = [rate EXCEPT ![call.group] = call.rate]
         /\ rate' # rate => rate[call.group] # call.rate
         /\ \A h \in Groups : h # call.group => rate'[h] = rate[h] /\ writes'[h] = writes[h]
         /\ rate' = rate => writes' = writes
         /\ rate' # rate =>
              LET w == writes[call.group] IN
              writes'[call.group] = [one |-> w.one + IF pc = "single" THEN 1 ELSE 0,
                                     many |-> w.many + IF pc = "single" THEN 0 ELSE 1]
         /\ up' => mem'.dynamic[call.group] \in
                     {mem.dynamic[call.group], clearDynamicPending(mem.dynamic[call.group])}
         /\ up' /\ pc = "single" => mem' = mem
         /\ up' => \A h \in Groups : h # call.group => mem'.dynamic[h] = mem.dynamic[h]
  <1>1. call.group \in Groups /\ call.rate \in Rates /\ NoCall.group \notin Groups
    BY ConstantFacts DEF Replied, Inv, TypeOK, NoCall
  <1>2. /\ rate \in [Groups -> Rates] /\ mem \in State
        /\ writes \in [Groups -> [one : Nat, many : Nat]]
    BY DEF Inv, TypeOK, Grounds
  <1>3. rate' = rate \/ rate' = [rate EXCEPT ![call.group] = call.rate]
    BY DEF Replied, Applied
  <1>4. rate' # rate => rate[call.group] # call.rate
    BY <1>1, <1>2, <1>3
  <1>5. rate' = rate => writes' = writes
    BY DEF Replied, Applied
  <1>6. rate' # rate =>
          writes' = IF pc = "single" THEN [writes EXCEPT ![call.group].one = @ + 1]
                    ELSE [writes EXCEPT ![call.group].many = @ + 1]
    BY DEF Replied, Applied
  <1>7. ASSUME NEW h \in Groups, h # call.group PROVE rate'[h] = rate[h] /\ writes'[h] = writes[h]
    BY <1>1, <1>2, <1>3, <1>5, <1>6, <1>7
  <1>8. rate' # rate =>
          LET w == writes[call.group] IN
          writes'[call.group] = [one |-> w.one + IF pc = "single" THEN 1 ELSE 0,
                                 many |-> w.many + IF pc = "single" THEN 0 ELSE 1]
    <2>1. writes[call.group] \in [one : Nat, many : Nat]
      BY <1>1, <1>2
    <2> QED
      BY <2>1, <1>1, <1>2, <1>6
  <1>9. /\ up' => mem'.dynamic[call.group] \in
                    {mem.dynamic[call.group], clearDynamicPending(mem.dynamic[call.group])}
        /\ up' /\ pc = "single" => mem' = mem
        /\ up' => \A h \in Groups : h # call.group => mem'.dynamic[h] = mem.dynamic[h]
    BY <1>1, <1>2 DEF Replied, State
  <1> QED
    BY <1>1, <1>3, <1>4, <1>5, <1>7, <1>8, <1>9

\* The group of the PUT is another one.
LEMMA AnswerOfOthers ==
  ASSUME Inv, Grounds, NEW g \in Groups, ManyInv(g), OneInv(g), Replied, call.group # g
  PROVE  ManyInv(g)' /\ OneInv(g)'
  <1>1. /\ rate'[g] = rate[g] /\ writes'[g] = writes[g] /\ NoCall.group # g
        /\ up' => mem'.dynamic[g] = mem.dynamic[g]
    BY AnswerFacts
  <1>2. /\ ~Sending(g) /\ ~Sending(g)' /\ Now(g)' = Now(g)
        /\ UNCHANGED <<env, log, on, acct, oldest, disk>> /\ events'[g] = events[g]
        /\ call' = NoCall
    BY DEF Sending, Now, Replied
  <1>3. CASE up /\ up' /\ UNCHANGED <<pc, view, through, todo, ready, costs>>
    <2>1. /\ Alone(g)' = Alone(g) /\ Active(g)' = Active(g) /\ Horizon' = Horizon
          /\ Bound(g)' = Bound(g)
      BY <1>1, <1>2, <1>3 DEF Alone, Active, Plan, Bound, Horizon, Looking
    <2>2. Apart(g)' = Apart(g)
      BY <2>1, <1>2 DEF Apart
    <2>3. \A m : Rest(g, m)' <= Rest(g, m) /\ Begun(g, m)' <= Begun(g, m)
      BY <1>1, <1>2, <1>3, <2>1, <2>2, RestStays, BegunStays
    <2>4. FileDebt(g)' <= FileDebt(g) /\ MemoryDebt(g)' <= MemoryDebt(g)
      BY <1>1, <1>2, <1>3, <2>1, <2>3 DEF FileDebt, MemoryDebt
    <2>5. Lag(g)' <= Lag(g)
      BY <1>1, <1>2, <1>3, <2>1 DEF Lag, Unlike, Overtaken, Behind, Bit
    <2> QED
      BY <1>1, <1>2, <1>3, <2>4, <2>5, DebtsFall
  <1>4. CASE ~up' /\ pc' = "idle"
    <2>1. ~Alone(g)'
      BY <1>4 DEF Alone
    <2>2. Apart(g)' => Apart(g)
      BY <2>1, <1>2 DEF Apart
    <2>3. FileDebt(g)' <= FileDebt(g)
      BY <1>1, <1>2, <2>2, RestStays DEF FileDebt
    <2>4. Lag(g)' <= Lag(g)
      BY <1>1, <1>2, <1>4, LagStops
    <2> QED
      BY <1>1, <1>2, <1>4, <2>3, <2>4, DebtsFall
  <1> QED
    BY <1>3, <1>4 DEF Replied

\* A group of one account gets its rate, and may be behind it again by then.
LEMMA AnswerOfSingle ==
  ASSUME Inv, Grounds, NEW g \in Groups, ManyInv(g), OneInv(g), Replied, call.group = g,
         pc = "single"
  PROVE  ManyInv(g)' /\ OneInv(g)'
  <1>1. PICK v \in Bound(g) : call.rate = view.acct[v] /\ view.acct[v] # view.rate[g]
    BY DEF Replied, Grounds, Answers
  <1>2. g \in Single /\ g \notin Plan /\ g \notin todo
    BY PlanIsNotSingle DEF Replied, Grounds, Answers, Inv, Calls
  <1>3. Bound(g) = {v}
    BY <1>1, <1>2, SizeOfGroups
  <1>4. /\ UNCHANGED <<env, log, on, acct, oldest, disk, events>> /\ Now(g)' = Now(g)
        /\ Alone(g) /\ ~Alone(g)' /\ ~Active(g) /\ ~Active(g)' /\ ~Sending(g) /\ ~Sending(g)'
        /\ Apart(g) /\ Unlike(g)
    <2>1. UNCHANGED <<env, log, on, acct, oldest, disk, events>> /\ call' = NoCall
      BY DEF Replied
    <2>2. /\ Now(g)' = Now(g) /\ Alone(g) /\ ~Active(g) /\ ~Sending(g) /\ ~Sending(g)'
          /\ Apart(g) /\ Unlike(g)
      BY <2>1, <1>1, <1>2 DEF Now, Alone, Active, Sending, Apart, Unlike
    <2>3. ~Alone(g)' /\ ~Active(g)'
      BY <1>2, <2>1, AnswerFacts DEF Replied, Alone, Active, Plan, Bound
    <2> QED
      BY <2>1, <2>2, <2>3
  <1>5. \A m : Rest(g, m)' <= Rest(g, m)
    <2> SUFFICES ASSUME NEW m PROVE Rest(g, m)' <= Rest(g, m)
      OBVIOUS
    <2>1. Targets(g, m)' = Targets(g, m) /\ Targets(g, m) \in Nat
      BY <1>4, SameTargets DEF Targets, Bit
    <2> QED
      BY <2>1, <1>4 DEF Rest, Bit
  <1>6. FileDebt(g)' <= FileDebt(g) /\ (up' => MemoryDebt(g)' <= MemoryDebt(g))
    BY <1>4, <1>5, AnswerFacts DEF FileDebt, MemoryDebt
  <1>7. /\ writes[g].many \in Nat /\ writes[g].one \in Nat /\ events[g] \in Nat
        /\ writes[g] = [one |-> writes[g].one, many |-> writes[g].many]
    BY DEF Grounds
  <1>8. up' => up
    BY DEF Replied
  <1>9. CASE rate' = rate
    <2>1. writes'[g] = writes[g] /\ Lag(g)' <= Lag(g)
      BY <1>4, <1>9, AnswerFacts DEF Lag, Bit
    <2> QED
      BY <2>1, <1>4, <1>6, <1>8, DebtsFall
  <1>10. CASE rate' # rate
    <2>1. writes'[g].one = writes[g].one + 1 /\ writes'[g].many = writes[g].many
      BY <1>7, <1>10, AnswerFacts
    <2>2. rate'[g] = view.acct[v]
      <3>1. rate' = [rate EXCEPT ![call.group] = call.rate]
        BY <1>10, AnswerFacts
      <3> QED
        BY <3>1, <1>1 DEF Inv, TypeOK
    <2>3. Behind(g)' => Overtaken(g)
      BY <2>2, <1>3, <1>4 DEF Behind, Overtaken
    <2>4. Lag(g)' + 1 <= Lag(g)
      BY <2>3, <1>4 DEF Lag, Bit
    <2> QED
      BY <2>1, <2>4, <1>4, <1>6, <1>7, <1>8, DebtsAreNumbers DEF ManyInv, OneInv, Several
  <1> QED
    BY <1>9, <1>10

\* A target that becomes the rate was owed before.
LEMMA AnswerOfMany ==
  ASSUME Inv, Grounds, NEW g \in Groups, ManyInv(g), OneInv(g), Replied, call.group = g,
         pc # "single"
  PROVE  ManyInv(g)' /\ OneInv(g)'
  <1>1. /\ call # NoCall /\ g \in Plan /\ disk.dynamic[g].pend = call.rate /\ call.rate \in Rates
        /\ pc # "initial"
    BY AnswerFacts DEF Replied, Inv, Calls
  <1>2. Sending(g) /\ mem.dynamic[g].pend = call.rate /\ ~Active(g)
    BY <1>1 DEF Sending, Grounds, Answers
  <1>3. /\ UNCHANGED <<env, log, on, acct, oldest, disk, events>> /\ Now(g)' = Now(g)
        /\ ~Alone(g) /\ ~Alone(g)' /\ ~Active(g)' /\ ~Sending(g)' /\ Apart(g)' = Apart(g)
    <2>1. UNCHANGED <<env, log, on, acct, oldest, disk, events>> /\ call' = NoCall
      BY DEF Replied
    <2>2. Now(g)' = Now(g) /\ ~Alone(g) /\ ~Sending(g)'
      BY <2>1, <1>1 DEF Now, Alone, Sending
    <2>3. ~Alone(g)' /\ ~Active(g)'
      BY <1>1, <1>2, <2>1 DEF Replied, Alone, Active, Plan, Bound
    <2>4. Apart(g)' = Apart(g)
      BY <2>2, <2>3 DEF Apart
    <2> QED
      BY <2>1, <2>2, <2>3, <2>4
  <1> DEFINE paid == IF rate' = rate THEN 0 ELSE 1
  <1>4. rate' # rate => rate[g] # call.rate /\ rate'[g] = call.rate
    <2>1. rate' # rate => rate' = [rate EXCEPT ![call.group] = call.rate] /\ rate[g] # call.rate
      BY AnswerFacts
    <2> QED
      BY <2>1 DEF Inv, TypeOK
  <1>5. ASSUME NEW m \in Memory, m.pend = call.rate
        PROVE  Rest(g, m)' + paid <= Sends(g, m)
    <2>1. Targets(g, m)' = Targets(g, m) /\ Targets(g, m) \in Nat
      BY <1>3, SameTargets DEF Targets, Bit
    <2>2. rate' = rate => Owed(g, m)' = Owed(g, m)
      BY DEF Owed
    <2>3. rate' # rate => ~Owed(g, m)' /\ Owed(g, m)
      BY <1>1, <1>4, <1>5, ConstantFacts DEF Owed
    <2> QED
      BY <2>1, <2>2, <2>3, <1>3 DEF Rest, Sends, Bit
  <1>6. ASSUME NEW m \in Memory, m.pend = call.rate, NEW n, n = clearDynamicPending(m)
        PROVE  Rest(g, n)' + paid <= Sends(g, m)
    <2>1. n.init = m.init /\ n.last = m.last /\ n.rates = m.rates /\ n.pend = 0
      BY <1>6 DEF clearDynamicPending, Memory
    <2>2. Targets(g, n)' = Targets(g, n) /\ Targets(g, n) = Targets(g, m) /\ Targets(g, m) \in Nat
      <3>1. Targets(g, n)' = Targets(g, n)
        BY <1>3, SameTargets
      <3>2. Targets(g, n) = Targets(g, m)
        BY <2>1 DEF Targets, Stale, Unfit
      <3>3. Targets(g, m) \in Nat
        BY DEF Targets, Bit
      <3> QED
        BY <3>1, <3>2, <3>3
    <2>3. ~Owed(g, n)' /\ (rate' # rate => Owed(g, m))
      BY <2>1, <1>1, <1>4, <1>6, ConstantFacts DEF Owed
    <2> QED
      BY <2>2, <2>3, <1>3 DEF Rest, Sends, Bit
  <1>7. mem.dynamic[g] \in Memory /\ disk.dynamic[g] \in Memory
    BY HorizonFacts
  <1>8. FileDebt(g)' + paid <= FileDebt(g)
    BY <1>1, <1>2, <1>3, <1>5, <1>7 DEF FileDebt
  <1>9. up' => MemoryDebt(g)' + paid <= MemoryDebt(g)
    <2> SUFFICES ASSUME up' PROVE MemoryDebt(g)' + paid <= MemoryDebt(g)
      OBVIOUS
    <2>1. PICK n \in {mem.dynamic[g], clearDynamicPending(mem.dynamic[g])} : mem'.dynamic[g] = n
      BY AnswerFacts
    <2>2. MemoryDebt(g)' = Rest(g, n)' /\ MemoryDebt(g) = Sends(g, mem.dynamic[g])
      BY <2>1, <1>2, <1>3 DEF MemoryDebt
    <2>3. Rest(g, n)' + paid <= Sends(g, mem.dynamic[g])
      BY <2>1, <1>2, <1>5, <1>6, <1>7
    <2> QED
      BY <2>2, <2>3
  <1>10. Lag(g)' <= Lag(g)
    BY <1>2, <1>3 DEF Lag, Behind, Bit
  <1>11. /\ writes[g].many \in Nat /\ writes[g].one \in Nat /\ events[g] \in Nat
         /\ writes[g] = [one |-> writes[g].one, many |-> writes[g].many]
    BY DEF Grounds
  <1>12. writes'[g].one = writes[g].one /\ writes'[g].many = writes[g].many + paid
    BY <1>11, AnswerFacts
  <1>13. up' => up
    BY DEF Replied
  <1>14. paid \in 0..1 /\ env' = env /\ events' = events
    BY <1>3
  <1> HIDE DEF paid
  <1>15. ManyInv(g)'
    <2>1. writes'[g].many + FileDebt(g)' <= writes[g].many + FileDebt(g)
      BY <1>8, <1>11, <1>12, <1>14, DebtsAreNumbers
    <2>2. up' => writes'[g].many + MemoryDebt(g)' <= writes[g].many + MemoryDebt(g)
      BY <1>9, <1>11, <1>12, <1>14, DebtsAreNumbers
    <2>3. Several(env.bound[g])
      BY <1>1, SizeOfGroups DEF Several
    <2>4. /\ writes[g].many + FileDebt(g) <= events[g]
          /\ up => writes[g].many + MemoryDebt(g) <= events[g]
      BY <2>3 DEF ManyInv
    <2>5. writes'[g].many \in Nat
      BY <1>11, <1>12, <1>14
    <2>6. /\ writes'[g].many + FileDebt(g)' <= events'[g]
          /\ up' => writes'[g].many + MemoryDebt(g)' <= events'[g]
      BY <2>1, <2>2, <2>4, <2>5, <1>11, <1>13, <1>14, DebtsAreNumbers
    <2>7. Several(env'.bound[g])
      BY <2>3, <1>14
    <2> QED
      BY <2>6, <2>7 DEF ManyInv, Several
  <1>16. OneInv(g)'
    BY <1>10, <1>11, <1>12, <1>14, DebtsAreNumbers DEF OneInv
  <1> QED
    BY <1>15, <1>16

\* All that may come of a PUT.
LEMMA AnswersKeepDebts ==
  ASSUME Inv, Grounds, NEW g \in Groups, ManyInv(g), OneInv(g),
         UpdateSucceeds \/ UpdateFails \/ Crash
  PROVE  ManyInv(g)' /\ OneInv(g)'
  <1>1. CASE Replied
    BY <1>1, AnswerOfOthers, AnswerOfSingle, AnswerOfMany
  <1>2. CASE Crash /\ call = NoCall
    BY <1>2, StopKeepsDebts DEF Crash, gateway
  <1>3. CASE UpdateSucceeds
    <2>1. Replied
      BY <1>3 DEF UpdateSucceeds, Replied, gateway
    <2> QED
      BY <2>1, <1>1
  <1>4. CASE UpdateFails
    <2>1. Replied
      BY <1>4 DEF UpdateFails, Replied, gateway
    <2> QED
      BY <2>1, <1>1
  <1>5. CASE Crash /\ call # NoCall
    <2>1. Replied
      BY <1>5 DEF Crash, Replied, gateway
    <2> QED
      BY <2>1, <1>1
  <1> QED
    BY <1>2, <1>3, <1>4, <1>5

\* The steps that end a cycle, or its part that changes rates, and a new start.
LEMMA EndsKeepDebts ==
  ASSUME Inv, Grounds, NEW g \in Groups, ManyInv(g), OneInv(g),
         ListFails \/ UsageFails \/ SaveState \/ SaveFails \/ Start
  PROVE  ManyInv(g)' /\ OneInv(g)'
  <1>1. CASE ListFails
    BY <1>1, StopKeepsDebts DEF ListFails, EndCycle, gateway, Inv, Calls
  <1>2. CASE UsageFails
    BY <1>2, StopKeepsDebts DEF UsageFails, Idle, Going, gateway
  <1>3. CASE SaveState \/ SaveFails
    BY <1>3, StopKeepsDebts DEF SaveState, SaveFails, Through, Idle, EndCycle, gateway
  <1>4. CASE Start
    BY <1>4, StopKeepsDebts DEF Start, gateway, local, Inv, Duties, Calls
  <1> QED
    BY <1>1, <1>2, <1>3, <1>4

\* Nothing that has to do with rates happens.
Nothing ==
  UNCHANGED <<env, log, on, acct, oldest, rate, disk, mem, up, local, writes, events>>

\* The key and the clock do not count.
LEMMA NothingHappens ==
  ASSUME WaitForKey \/ SetKey \/ Tick \/ UNCHANGED vars
  PROVE  Nothing
BY DEF WaitForKey, SetKey, Tick, Untouched, Nothing, gateway, vars

\* Where nothing happens, the debts are what they were.
LEMMA NothingKeepsDebts ==
  ASSUME Inv, Grounds, NEW g \in Groups, ManyInv(g), OneInv(g), Nothing
  PROVE  ManyInv(g)' /\ OneInv(g)'
  <1>1. /\ UNCHANGED <<env, log, on, acct, oldest, rate, disk, mem, up, pc, view, through, todo,
                       ready, choice, costs, call, writes, events>>
    BY DEF Nothing, local
  <1>2. /\ Alone(g)' = Alone(g) /\ Active(g)' = Active(g) /\ Sending(g)' = Sending(g)
        /\ Horizon' = Horizon /\ Now(g)' = Now(g) /\ Bound(g)' = Bound(g)
    BY <1>1 DEF Alone, Active, Plan, Bound, Sending, Horizon, Looking, Now
  <1>3. Apart(g)' = Apart(g)
    BY <1>2 DEF Apart
  <1>4. /\ \A m : Rest(g, m)' <= Rest(g, m) /\ Sends(g, m)' <= Sends(g, m)
        /\ \A m : Begun(g, m)' <= Begun(g, m)
    BY <1>1, <1>2, <1>3, RestStays, BegunStays
  <1>5. FileDebt(g)' <= FileDebt(g) /\ MemoryDebt(g)' <= MemoryDebt(g)
    BY <1>1, <1>2, <1>4 DEF FileDebt, MemoryDebt
  <1>6. Lag(g)' <= Lag(g)
    BY <1>1, <1>2 DEF Lag, Unlike, Overtaken, Behind, Bit
  <1> QED
    BY <1>1, <1>5, <1>6, DebtsFall

\* No step leaves a group with more changes and debts than reasons.
LEMMA StepKeepsDebts ==
  ASSUME Inv, Calm, Grounds, NEW g \in Groups, ManyInv(g), OneInv(g), [Next]_vars
  PROVE  ManyInv(g)' /\ OneInv(g)'
  <1>1. CASE WaitForKey \/ SetKey \/ Tick \/ UNCHANGED vars
    BY <1>1, NothingHappens, NothingKeepsDebts
  <1>2. CASE List
    BY <1>2, ListKeepsDebts
  <1>3. CASE ListFails \/ UsageFails \/ SaveState \/ SaveFails \/ Start
    BY <1>3, EndsKeepDebts
  <1>4. CASE Initialize
    BY <1>4, InitializeKeepsDebts
  <1>5. CASE prepareDynamicStates \/ loadDynamicBootstrap
    BY <1>5, PrepareKeepsDebts, LoadKeepsDebts
  <1>6. CASE BeginRetry \/ ListGroupUsageSince
    BY <1>6, BetweenKeepsDebts
  <1>7. CASE UpdateSucceeds \/ UpdateFails \/ Crash
    BY <1>7, AnswersKeepDebts
  <1>8. ASSUME NEW h \in Groups, syncSingleAccountGroup(h) PROVE ManyInv(g)' /\ OneInv(g)'
    BY <1>8, SingleKeepsDebts
  <1>9. ASSUME NEW h \in Groups,
               BootstrapWaits(h) \/ Seed(h) \/ Retry(h) \/ consumeDynamicGroup(h)
        PROVE  ManyInv(g)' /\ OneInv(g)'
    BY <1>9, GroupTurnKeepsDebts
  <1>10. ASSUME NEW a \in Accounts,
                ChangeAccountRate(a) \/ Switch(a) \/ (\E h \in Groups : Request(h, a))
         PROVE  ManyInv(g)' /\ OneInv(g)'
    BY <1>10, AroundKeepsDebts
  <1> QED
    BY <1>1, <1>2, <1>3, <1>4, <1>5, <1>6, <1>7, <1>8, <1>9, <1>10 DEF Next, Cycle, Around
-----------------------------------------------------------------------------
(* The grounds of the debts are kept.                                       *)

\* What a memory knows depends on the log and on what it counted.
LEMMA KnownStays ==
  ASSUME log' = log, NEW m, NEW n, n.seen = m.seen, n.rates = m.rates, n.init = m.init, Known(m)
  PROVE  Known(n)'
BY DEF Known, AccountBase, Rated

\* The file is the one before or the memories of the process.
LEMMA KnownSaved ==
  ASSUME Grounds, log' = log, NEW g \in Groups,
         disk' = disk \/ disk' = mem', Known(mem'.dynamic[g])
  PROVE  Known(mem.dynamic[g])' /\ Known(disk.dynamic[g])'
  <1>1. ASSUME NEW m, Known(m) PROVE Known(m)'
    BY <1>1, KnownStays
  <1>2. ASSUME NEW x, x = mem'.dynamic[g] PROVE Known(x)'
    BY <1>1, <1>2
  <1>3. Known(mem.dynamic[g])'
    BY <1>2
  <1>4. ASSUME NEW x, x = disk'.dynamic[g] PROVE Known(x)'
    BY <1>1, <1>4 DEF Grounds
  <1>5. Known(disk.dynamic[g])'
    BY <1>4
  <1> QED
    BY <1>3, <1>5

\* No PUT is under way.
LEMMA NoAnswers ==
  ASSUME call' = NoCall
  PROVE  Answers'
BY DEF Answers, Sending

\* Where nothing happens, the grounds are what they were.
LEMMA NothingKeepsGrounds ==
  ASSUME Inv, Grounds, Nothing
  PROVE  Grounds'
  <1>1. UNCHANGED <<env, log, on, acct, oldest, rate, disk, mem, up, pc, view, through, todo,
                    ready, choice, costs, call, writes, events>>
    BY DEF Nothing, local
  <1>2. Priced'
    BY <1>1 DEF Grounds, Priced
  <1>3. Stages'
    BY <1>1 DEF Grounds, Stages, Bound, Fit, Rated, Enough, Answered
  <1>4. Answers'
    BY <1>1 DEF Grounds, Answers, Sending, Active, Plan, Bound
  <1>5. \A g \in Groups : Known(mem.dynamic[g])' /\ Known(disk.dynamic[g])'
    BY <1>1, KnownSaved DEF Grounds
  <1> QED
    BY <1>1, <1>2, <1>3, <1>4, <1>5 DEF Grounds

\* What happens in the surroundings of the cycle.
LEMMA AroundKeepsGrounds ==
  ASSUME Inv, Calm, Grounds, NEW a \in Accounts,
         ChangeAccountRate(a) \/ Switch(a) \/ (\E h \in Groups : Request(h, a))
  PROVE  Grounds'
  <1>1. UNCHANGED <<env, rate, disk, mem, up, pc, view, through, todo, ready, choice, costs,
                    call, writes, oldest>>
    BY AroundLeaves
  <1>2. events' \in [Groups -> Nat]
    <2>1. events \in [Groups -> Nat]
      BY DEF Grounds
    <2>2. CASE ChangeAccountRate(a) \/ Switch(a)
      BY <2>1, <2>2 DEF ChangeAccountRate, Switch, Affected
    <2>3. ASSUME NEW h \in Groups, Request(h, a) PROVE events' \in [Groups -> Nat]
      BY <2>1, <2>3 DEF Request
    <2> QED
      BY <2>2, <2>3
  <1>3. Priced'
    <2>1. \A b \in Accounts : acct'[b] # Invalid
      BY DEF ChangeAccountRate, Switch, Request, Calm, Grounds, Priced, Inv, TypeOK
    <2> QED
      BY <1>1, <2>1 DEF Grounds, Priced
  <1>4. Len(log) \in Nat /\ through \in 0..Len(log) /\ oldest \in Nat \ {0}
    BY HorizonFacts, LogFacts DEF Inv
  <1>5. \A i \in 1..Len(log) : i \in DOMAIN log' /\ log'[i] = log[i]
    <2>1. log' = log \/ \E h \in Groups : log' = Append(log, [group |-> h, account |-> a])
      BY DEF ChangeAccountRate, Switch, Request
    <2>2. log \in Seq(Requests)
      BY DEF Inv, Surroundings
    <2>3. ASSUME NEW r \in Requests, log' = Append(log, r)
          PROVE  \A i \in 1..Len(log) : i \in DOMAIN log' /\ log'[i] = log[i]
      BY <2>2, <2>3
    <2>4. \A h \in Groups : [group |-> h, account |-> a] \in Requests
      BY DEF Requests
    <2>5. CASE log' = log
      BY <2>5, HorizonFacts
    <2>6. ASSUME NEW h \in Groups, log' = Append(log, [group |-> h, account |-> a])
          PROVE  \A i \in 1..Len(log) : i \in DOMAIN log' /\ log'[i] = log[i]
      BY <2>3, <2>4, <2>6
    <2> QED
      BY <2>1, <2>5, <2>6
  <1>6. Stages'
    <2>1. \A g, B : Enough(g, B, through)' = Enough(g, B, through)
      <3>1. \A i \in oldest..through : i \in 1..Len(log)
        BY <1>4
      <3>2. \A g, B : Answered(g, B, through)' = Answered(g, B, through)
        BY <3>1, <1>1, <1>5 DEF Answered
      <3> QED
        BY <3>2 DEF Enough
    <2>2. \A g : /\ Bound(g)' = Bound(g)
                 /\ Enough(g, Bound(g), through)' = Enough(g, Bound(g), through)
      BY <2>1, <1>1 DEF Bound
    <2> QED
      BY <1>1, <2>2 DEF Grounds, Stages, Fit, Rated, Bound
  <1>7. Answers'
    BY <1>1 DEF Grounds, Answers, Sending, Active, Plan, Bound
  <1>8. ASSUME NEW h \in Groups, NEW m \in Memory, Sound(log, h, m), Known(m)
        PROVE  Known(m)'
    <2>1. \A i \in DOMAIN log' : m.seen[i] > 0 => i \in DOMAIN log
      <3> SUFFICES ASSUME NEW i \in DOMAIN log', m.seen[i] > 0 PROVE i \in DOMAIN log
        OBVIOUS
      <3>1. DOMAIN log = 1..Len(log) /\ Len(log) \in Nat /\ Len(log') \in Nat
            /\ DOMAIN log' = 1..Len(log') /\ Len(log') <= MaxRows
        <4>1. Inv'
          BY RequestKeepsInv, OthersKeepInv
        <4>2. Len(log') <= MaxRows /\ log' \in Seq(Requests)
          BY <4>1 DEF Inv, TypeOK, Surroundings
        <4> QED
          BY <4>2, HorizonFacts
      <3>2. i \in Ids
        BY <3>1, ConstantFacts DEF Ids
      <3>3. m.seen[i] = 1
        <4>1. m.seen[i] \in 0..1
          BY <3>2 DEF Memory, Ids
        <4> QED
          BY <4>1
      <3> QED
        BY <3>2, <3>3, <1>8 DEF Sound, Rows
    <2>2. DOMAIN log = 1..Len(log)
      BY HorizonFacts
    <2>3. AccountBase(m)' \subseteq AccountBase(m)
      BY <2>1, <2>2, <1>5 DEF AccountBase
    <2> QED
      BY <2>3, <1>8 DEF Known, Rated
  <1>9. \A g \in Groups : Known(mem.dynamic[g])' /\ Known(disk.dynamic[g])'
    <2> SUFFICES ASSUME NEW g \in Groups PROVE Known(mem.dynamic[g])' /\ Known(disk.dynamic[g])'
      OBVIOUS
    <2>1. /\ mem.dynamic[g] \in Memory /\ disk.dynamic[g] \in Memory
          /\ Sound(log, g, mem.dynamic[g]) /\ Sound(log, g, disk.dynamic[g])
          /\ Known(mem.dynamic[g]) /\ Known(disk.dynamic[g])
      BY HorizonFacts DEF Inv, Memories, MemoryInv, Grounds
    <2>2. ASSUME NEW x, x = mem.dynamic[g] \/ x = disk.dynamic[g] PROVE Known(x)'
      BY <2>1, <2>2, <1>8
    <2>3. Known(mem.dynamic[g])'
      BY <2>2, <1>1
    <2>4. Known(disk.dynamic[g])'
      BY <2>2, <1>1
    <2> QED
      BY <2>3, <2>4
  <1> QED
    BY <1>1, <1>2, <1>3, <1>6, <1>7, <1>9 DEF Grounds

\* A cycle, or its part that changes rates, is over; what is kept was known.
LEMMA EndsKeepGrounds ==
  ASSUME Inv, Grounds, ListFails \/ UsageFails \/ SaveState \/ SaveFails \/ Start \/ Crash
  PROVE  Grounds'
  <1>1. /\ UNCHANGED <<env, log, acct, events>> /\ call' = NoCall
        /\ pc' = "idle" \/ (pc' = "save" /\ pc # "idle" /\ view' = view)
        /\ disk' = disk \/ disk' = mem'
        /\ mem' \in {mem, disk, newState}
    <2>1. CASE ListFails
      BY <2>1 DEF ListFails, EndCycle, gateway, Inv, Calls
    <2>2. CASE UsageFails
      BY <2>2 DEF UsageFails, Idle, Going, gateway
    <2>3. CASE SaveState \/ SaveFails
      BY <2>3 DEF SaveState, SaveFails, Through, Idle, EndCycle, gateway
    <2>4. CASE Start
      BY <2>4 DEF Start, gateway, local, Inv, Duties, Calls
    <2>5. CASE Crash
      BY <2>5 DEF Crash, gateway
    <2> QED
      BY <2>1, <2>2, <2>3, <2>4, <2>5
  <1>2. Priced' /\ Stages' /\ Answers'
    <2>1. Priced'
      BY <1>1 DEF Grounds, Priced
    <2>2. Stages'
      BY <1>1 DEF Stages
    <2> QED
      BY <1>1, <2>1, <2>2, NoAnswers
  <1>3. \A g \in Groups : Known(mem.dynamic[g])' /\ Known(disk.dynamic[g])'
    <2> SUFFICES ASSUME NEW g \in Groups PROVE Known(mem.dynamic[g])' /\ Known(disk.dynamic[g])'
      OBVIOUS
    <2>1. ~newState.dynamic[g].init
      BY FreshMemory DEF newDynamicGroupState
    <2>2. Known(mem'.dynamic[g])
      BY <2>1, <1>1 DEF Grounds, Known
    <2> QED
      BY <2>2, <1>1, KnownSaved
  <1>4. writes' \in [Groups -> [one : Nat, many : Nat]]
    <2>1. UNCHANGED writes \/ (call # NoCall /\ Applied)
      BY DEF ListFails, UsageFails, SaveState, SaveFails, Start, Crash, Going
    <2>2. CASE UNCHANGED writes
      BY <2>2 DEF Grounds
    <2>3. CASE call # NoCall /\ Applied
      <3>1. writes \in [Groups -> [one : Nat, many : Nat]] /\ call.group \in Groups
        BY <2>3 DEF Grounds, Inv, TypeOK
      <3>2. ASSUME NEW w \in [one : Nat, many : Nat],
                   writes' = [writes EXCEPT ![call.group] = w]
            PROVE  writes' \in [Groups -> [one : Nat, many : Nat]]
        BY <3>1, <3>2
      <3>3. CASE writes' = [writes EXCEPT ![call.group].one = @ + 1]
        BY <3>1, <3>2, <3>3
      <3>4. CASE writes' = [writes EXCEPT ![call.group].many = @ + 1]
        BY <3>1, <3>2, <3>4
      <3> QED
        BY <3>1, <3>3, <3>4, <2>3 DEF Applied
    <2> QED
      BY <2>1, <2>2, <2>3
  <1> QED
    BY <1>1, <1>2, <1>3, <1>4 DEF Grounds

\* A cycle begins.
LEMMA ListKeepsGrounds ==
  ASSUME Inv, Grounds, List
  PROVE  Grounds'
  <1>1. /\ UNCHANGED <<env, log, on, acct, rate, disk, mem, call, writes, events>>
        /\ pc = "idle" /\ call = NoCall /\ pc' \in {"initial", "single"}
        /\ pc' = "initial" => env.image # 0 /\ env.bound[env.image] \cap on = env.initial
        /\ view' = [on |-> on, acct |-> acct, rate |-> rate]
    BY DEF List, gateway, Inv, Calls, InitialDue
  <1>2. Priced'
    BY <1>1 DEF Grounds, Priced
  <1>3. Stages'
    <2>1. pc' = "initial" => (env.initial = Bound(env.image))'
      BY <1>1 DEF Bound
    <2>2. todo' \subseteq Groups
      BY DEF List
    <2> QED
      BY <1>1, <2>1, <2>2 DEF Stages
  <1>4. Answers'
    BY <1>1, NoAnswers
  <1>5. \A g \in Groups : Known(mem.dynamic[g])' /\ Known(disk.dynamic[g])'
    BY <1>1, KnownSaved DEF Grounds
  <1> QED
    BY <1>1, <1>2, <1>3, <1>4, <1>5 DEF Grounds

\* The group that is rebased has the rates it counted by.
LEMMA InitializeKeepsGrounds ==
  ASSUME Inv, Grounds, Initialize
  PROVE  Grounds'
  <1> DEFINE h == env.image
             n == [mem.dynamic[h] EXCEPT !.pend = InitialRate,
                     !.rates = [a \in Accounts |->
                                  IF a \in env.initial THEN view.acct[a] ELSE Invalid]]
  <1>0. /\ pc = "initial" /\ call = NoCall /\ h \in Groups
        /\ UNCHANGED <<env, log, on, acct, rate, writes>>
    BY DEF Initialize, gateway, Inv, Calls, Surroundings, Environment
  <1>1. CASE EndCycle(FALSE) /\ UNCHANGED <<mem, disk, events>>
    <2>1. pc' = "idle" /\ call' = NoCall
      BY <1>0, <1>1 DEF EndCycle
    <2>2. Priced' /\ Stages' /\ Answers'
      BY <2>1, <1>0, NoAnswers DEF Grounds, Priced, Stages
    <2>3. \A g \in Groups : Known(mem.dynamic[g])' /\ Known(disk.dynamic[g])'
      BY <1>0, <1>1, KnownSaved DEF Grounds
    <2> QED
      BY <1>0, <1>1, <2>2, <2>3 DEF Grounds
  <1>2. CASE /\ RatesKnown(n)
             /\ mem' = [mem EXCEPT !.dynamic[h] = n, !.applied = TRUE]
             /\ disk' = mem'
             /\ pc' = "single"
             /\ events' = [events EXCEPT ![h] = @ + 1]
             /\ UNCHANGED <<view, through, todo, ready, choice, costs, call>>
    <2> HIDE DEF n, h
    <2>1. mem'.dynamic[h] = n /\ \A g \in Groups : g # h => mem'.dynamic[g] = mem.dynamic[g]
      <3>1. mem \in State
        BY DEF Inv, TypeOK
      <3> QED
        BY <3>1, <1>0, <1>2 DEF State
    <2>2. Known(n)
      BY <1>2 DEF RatesKnown, Known
    <2>3. ASSUME NEW g \in Groups PROVE Known(mem'.dynamic[g])
      BY <2>1, <2>2 DEF Grounds
    <2>4. \A g \in Groups : Known(mem.dynamic[g])' /\ Known(disk.dynamic[g])'
      BY <1>0, <1>2, <2>3, KnownSaved
    <2>5. Priced'
      BY <1>0, <1>2 DEF Grounds, Priced
    <2>6. Stages'
      BY <1>0, <1>2 DEF Grounds, Stages
    <2>7. Answers'
      BY <1>0, <1>2, NoAnswers
    <2>8. events' \in [Groups -> Nat]
      BY <1>0, <1>2 DEF Grounds
    <2> QED
      BY <1>0, <2>4, <2>5, <2>6, <2>7, <2>8 DEF Grounds
  <1> QED
    BY <1>1, <1>2 DEF Initialize

\* A group with one account is through, or its PUT is under way.
LEMMA SingleKeepsGrounds ==
  ASSUME Inv, Grounds, NEW h \in Groups, syncSingleAccountGroup(h)
  PROVE  Grounds'
  <1>0. /\ call = NoCall /\ pc = "single" /\ pc' = pc /\ h \in todo /\ todo' = todo \ {h}
        /\ UNCHANGED <<env, log, on, acct, oldest, rate, disk, mem, up, view, through, ready,
                       choice, costs, writes, events>>
    BY DEF syncSingleAccountGroup, Idle, Going, gateway
  <1>1. PICK v : Bound(h) = {v}
    <2>1. h \in Single
      BY <1>0 DEF Inv, Duties
    <2> QED
      BY <2>1, SizeOfGroups
  <1>2. \/ call' = NoCall
        \/ call' = [group |-> h, rate |-> view.acct[v]] /\ view.acct[v] # view.rate[h]
    <2>1. (CHOOSE b \in Bound(h) : TRUE) = v
      BY <1>1
    <2> QED
      BY <2>1, <1>0 DEF syncSingleAccountGroup
  <1>3. Priced'
    BY <1>0 DEF Grounds, Priced
  <1>4. Stages'
    BY <1>0 DEF Grounds, Stages
  <1>5. Answers'
    <2>1. CASE call' = NoCall
      BY <2>1, NoAnswers
    <2>2. CASE call' = [group |-> h, rate |-> view.acct[v]] /\ view.acct[v] # view.rate[h]
      <3>1. \A g \in Groups : ~Sending(g)'
        BY <1>0 DEF Sending
      <3>2. Bound(h)' = {v}
        BY <1>0, <1>1 DEF Bound
      <3> QED
        BY <2>2, <3>1, <3>2, <1>0 DEF Answers
    <2> QED
      BY <1>2, <2>1, <2>2
  <1>6. \A g \in Groups : Known(mem.dynamic[g])' /\ Known(disk.dynamic[g])'
    BY <1>0, KnownSaved DEF Grounds
  <1> QED
    BY <1>0, <1>3, <1>4, <1>5, <1>6 DEF Grounds

\* A memory that goes on fits the accounts of its group.
LEMMA PrepareKeepsGrounds ==
  ASSUME Inv, Grounds, prepareDynamicStates
  PROVE  Grounds'
  <1>0. /\ call = NoCall /\ call' = NoCall /\ pc = "single"
        /\ UNCHANGED <<env, log, on, acct, rate, disk, view, choice, costs, writes, events>>
        /\ ready' = {g \in Plan : Prepared(g).init} /\ todo' = Plan \ ready'
        /\ pc' = IF todo' = {} THEN "seed" ELSE "bootstrap"
    BY DEF prepareDynamicStates, Idle, Going, gateway
  <1>1. \A g \in Groups : mem'.dynamic[g] = IF g \in Plan THEN Prepared(g) ELSE mem.dynamic[g]
    BY DEF prepareDynamicStates, Inv, TypeOK, State
  <1>2. Plan \subseteq Groups
    BY DEF Plan
  <1>3. ASSUME NEW g \in Plan
        PROVE  Known(Prepared(g)) /\ (Prepared(g).init => Fit(g, Prepared(g)))
    <2>1. CASE Prepared(g) = [newDynamicGroupState EXCEPT !.pend = mem.dynamic[g].pend]
      <3>1. ~Prepared(g).init
        BY <2>1 DEF newDynamicGroupState
      <3> QED
        BY <3>1 DEF Known
    <2>2. CASE /\ Prepared(g) = mem.dynamic[g] /\ usableDynamicGroupState(mem.dynamic[g])
               /\ dynamicAccountSetMatches(mem.dynamic[g], g)
      BY <2>2 DEF usableDynamicGroupState, RatesKnown, dynamicAccountSetMatches, Fit, Known
    <2> QED
      BY <2>1, <2>2 DEF Prepared
  <1>4. \A g \in Groups : Known(mem'.dynamic[g])
    BY <1>1, <1>3 DEF Grounds
  <1>5. \A g \in Groups : Known(mem.dynamic[g])' /\ Known(disk.dynamic[g])'
    BY <1>0, <1>4, KnownSaved
  <1>6. Priced'
    BY <1>0 DEF Grounds, Priced
  <1>7. Stages'
    <2>1. \A g, m : Fit(g, m)' = Fit(g, m)
      BY <1>0 DEF Fit, Rated, Bound
    <2>2. ASSUME NEW g \in ready' PROVE Fit(g, mem.dynamic[g])'
      <3>1. g \in Plan /\ Prepared(g).init /\ mem'.dynamic[g] = Prepared(g)
        BY <2>2, <1>0, <1>1, <1>2
      <3>2. ASSUME NEW x, x = Prepared(g) PROVE Fit(g, x)'
        BY <3>1, <3>2, <2>1, <1>3
      <3>3. ASSUME NEW x, x = mem'.dynamic[g] PROVE Fit(g, x)'
        BY <3>1, <3>2, <3>3
      <3> QED
        BY <3>3
    <2>3. \A g \in todo' : ~mem'.dynamic[g].init
      BY <1>0, <1>1, <1>2
    <2>4. pc' \in {"bootstrap", "seed"} /\ (pc' = "seed" => todo' = {})
      BY <1>0
    <2> QED
      BY <2>2, <2>3, <2>4 DEF Stages
  <1> QED
    BY <1>0, <1>5, <1>6, <1>7, NoAnswers DEF Grounds

\* The window that is chosen suffices if any does.
LEMMA LoadKeepsGrounds ==
  ASSUME Inv, Grounds, loadDynamicBootstrap
  PROVE  Grounds'
  <1>0. /\ call = NoCall /\ call' = NoCall /\ pc = "bootstrap" /\ pc' = "seed"
        /\ UNCHANGED <<env, log, on, acct, rate, disk, mem, view, through, todo, ready, writes,
                       events>>
        /\ costs' = acct /\ oldest' \in oldest..through + 1 /\ todo \subseteq Groups
    BY DEF loadDynamicBootstrap, Idle, Inv, TypeOK
  <1>1. /\ oldest' \in Nat \ {0} /\ through \in Nat /\ through \in 0..Len(log)
        /\ DOMAIN log = 1..Len(log) /\ Len(log) \in Nat
        /\ \A i \in DOMAIN log : log[i].account \in Accounts
    <2>1. oldest \in Nat \ {0} /\ through \in Nat /\ through \in 0..Len(log)
      BY HorizonFacts, LogFacts DEF Inv
    <2>2. oldest' \in Nat \ {0}
      BY <2>1, <1>0
    <2> QED
      BY <2>1, <2>2, LogFacts DEF Inv
  <1>2. Priced'
    BY <1>0 DEF Grounds, Priced
  <1>3. ASSUME NEW g, NEW k \in Nat \ {0}
        PROVE  dynamicBootstrapSufficient(g, k) <=> Cardinality(WindowRows(g, k)) >= MinRequests
    <2>1. \A i \in WindowRows(g, k) : i \in 1..Len(log)
      BY <1>1 DEF WindowRows
    <2>2. \A i \in WindowRows(g, k) : acct[log[i].account] # Invalid
      BY <2>1, <1>1 DEF Grounds, Priced
    <2> QED
      BY <2>2 DEF dynamicBootstrapSufficient
  <1>4. PICK from \in [todo -> oldest'..through + 1] :
          /\ \A g \in todo : dynamicBootstrapSufficient(g, oldest')
                             => dynamicBootstrapSufficient(g, from[g])
          /\ choice' = [g \in Groups |->
                          IF g \in todo /\ dynamicBootstrapSufficient(g, from[g])
                          THEN from[g] ELSE 0]
    BY DEF loadDynamicBootstrap
  <1>5. ASSUME NEW g \in todo PROVE choice'[g] # 0 <=> Enough(g, Bound(g), through)'
    <2>1. from[g] \in oldest'..through + 1 /\ from[g] \in Nat \ {0} /\ oldest' <= from[g]
      <3>1. from[g] \in oldest'..through + 1
        BY <1>4
      <3> QED
        BY <3>1, <1>1
    <2>2. choice'[g] # 0 <=> dynamicBootstrapSufficient(g, from[g])
      BY <1>0, <1>4, <2>1
    <2>3. ASSUME NEW k, k = oldest'
          PROVE  Enough(g, Bound(g), through)' <=> Cardinality(WindowRows(g, k)) >= MinRequests
      BY <2>3, <1>0 DEF Enough, Answered, Bound, WindowRows
    <2>4. ASSUME NEW k, k = oldest', Cardinality(WindowRows(g, from[g])) >= MinRequests
          PROVE  Cardinality(WindowRows(g, k)) >= MinRequests
      <3>1. WindowRows(g, from[g]) \subseteq WindowRows(g, k)
        BY <2>1, <2>4, <1>1 DEF WindowRows
      <3>2. IsFiniteSet(k..through)
        BY <2>4, <1>1, FS_Interval
      <3>3. IsFiniteSet(WindowRows(g, k))
        BY <3>2, FS_Subset DEF WindowRows
      <3> QED
        BY <3>1, <3>3, <2>4, AnsweredMore
    <2>5. ASSUME NEW k, k = oldest'
          PROVE  dynamicBootstrapSufficient(g, k) => dynamicBootstrapSufficient(g, from[g])
      BY <2>5, <1>4
    <2>6. ASSUME NEW k, k = oldest'
          PROVE  choice'[g] # 0 <=> Enough(g, Bound(g), through)'
      BY <2>1, <2>2, <2>3, <2>4, <2>5, <2>6, <1>1, <1>3
    <2> QED
      BY <2>6
  <1>6. Stages'
    <2>1. \A g, m : Fit(g, m)' = Fit(g, m)
      BY <1>0 DEF Fit, Rated, Bound
    <2>2. ASSUME NEW g \in ready PROVE Fit(g, mem.dynamic[g])'
      BY <1>0, <2>1, <2>2 DEF Grounds, Stages
    <2>3. \A g \in todo : ~mem.dynamic[g].init
      BY <1>0 DEF Grounds, Stages
    <2> QED
      BY <1>0, <1>5, <2>2, <2>3 DEF Stages
  <1>7. \A g \in Groups : Known(mem.dynamic[g])' /\ Known(disk.dynamic[g])'
    BY <1>0, KnownSaved DEF Grounds
  <1> QED
    BY <1>0, <1>2, <1>6, <1>7, NoAnswers DEF Grounds

\* The groups that have a memory are next.
LEMMA BetweenKeepsGrounds ==
  ASSUME Inv, Grounds, BeginRetry \/ ListGroupUsageSince
  PROVE  Grounds'
  <1>0. /\ call = NoCall /\ call' = NoCall
        /\ UNCHANGED <<env, log, on, acct, rate, disk, mem, view, writes, events>>
        /\ \/ pc = "seed" /\ pc' = "retry" /\ todo' \subseteq ready /\ ready' = ready \ todo'
              /\ costs' = costs
           \/ pc = "retry" /\ pc' = "consume" /\ todo' = ready /\ costs' = acct
    BY DEF BeginRetry, ListGroupUsageSince, Idle, Going, gateway
  <1>1. Priced'
    BY <1>0 DEF Grounds, Priced
  <1>2. Stages'
    <2>1. \A g, m : Fit(g, m)' = Fit(g, m)
      BY <1>0 DEF Fit, Rated, Bound
    <2>2. ASSUME NEW g \in ready PROVE Fit(g, mem.dynamic[g])'
      BY <1>0, <2>1, <2>2 DEF Grounds, Stages
    <2> QED
      BY <1>0, <2>2 DEF Stages
  <1>3. \A g \in Groups : Known(mem.dynamic[g])' /\ Known(disk.dynamic[g])'
    BY <1>0, KnownSaved DEF Grounds
  <1> QED
    BY <1>0, <1>1, <1>2, <1>3, NoAnswers DEF Grounds

\* The turn of a group leaves the others theirs.
LEMMA PublishKeepsGrounds ==
  ASSUME Inv, Grounds,
         call = NoCall, pc \in {"seed", "retry", "consume"}, NEW h \in todo, NEW m \in Memory,
         Known(m), NEW p \in 0..MaxRate,
         mem' = [mem EXCEPT !.dynamic[h] = [m EXCEPT !.pend = p]],
         todo' = todo \ {h},
         \/ disk' = disk /\ call' = call
         \/ disk' = mem' /\ call' = [group |-> h, rate |-> p] /\ p \in Rates,
         UNCHANGED <<pc, view, through, ready, choice, costs>>, Going
  PROVE  Grounds'
  <1> DEFINE n == [m EXCEPT !.pend = p]
  <1>0. /\ UNCHANGED <<env, log, on, acct, oldest, rate, writes, events>>
        /\ h \in Groups /\ Looking /\ todo \subseteq Groups /\ ready \subseteq Groups
    BY DEF Going, gateway, Inv, TypeOK, Looking
  <1>1. n \in Memory /\ n.pend = p /\ n.init = m.init /\ n.seen = m.seen /\ n.rates = m.rates
    BY PendMemory DEF Memory
  <1> HIDE DEF n
  <1>2. /\ mem'.dynamic[h] = n
        /\ \A k \in Groups : k # h => mem'.dynamic[k] = mem.dynamic[k]
    <2>1. mem \in State /\ mem' = [mem EXCEPT !.dynamic[h] = n]
      BY DEF Inv, TypeOK, n
    <2> QED
      BY <2>1, <1>0 DEF State
  <1>3. Known(n)
    BY <1>1 DEF Known, AccountBase
  <1>4. \A k \in Groups : Known(mem'.dynamic[k])
    BY <1>2, <1>3 DEF Grounds
  <1>5. \A k \in Groups : Known(mem.dynamic[k])' /\ Known(disk.dynamic[k])'
    BY <1>0, <1>4, KnownSaved
  <1>6. Priced'
    BY <1>0 DEF Grounds, Priced
  <1>7. h \notin ready \/ pc = "consume"
    BY DEF Grounds, Stages, Inv, Duties, Looking
  <1>8. Stages'
    <2>1. \A g, x : Fit(g, x)' = Fit(g, x)
      BY <1>0 DEF Fit, Rated, Bound
    <2>2. ASSUME NEW g \in Groups, g # h, Fit(g, mem.dynamic[g])
          PROVE  Fit(g, mem.dynamic[g])'
      <3>1. ASSUME NEW x, x = mem.dynamic[g] PROVE Fit(g, x)' /\ mem'.dynamic[g] = x
        BY <2>1, <2>2, <3>1, <1>2
      <3> QED
        BY <3>1
    <2>3. \A g : Enough(g, Bound(g), through)' = Enough(g, Bound(g), through)
      BY <1>0 DEF Enough, Answered, Bound
    <2>4. pc = "seed" => \A g \in todo' : ~mem'.dynamic[g].init
      BY <1>0, <1>2 DEF Grounds, Stages
    <2>5. pc \in {"retry", "consume"} => \A g \in todo' : Fit(g, mem.dynamic[g])'
      BY <1>0, <2>2 DEF Grounds, Stages
    <2>6. pc \in {"seed", "retry"} => \A g \in ready : Fit(g, mem.dynamic[g])'
      BY <1>0, <1>7, <2>2 DEF Grounds, Stages
    <2>7. pc = "seed" => \A g \in todo' : choice'[g] # 0 <=> Enough(g, Bound(g), through)'
      BY <2>3 DEF Grounds, Stages
    <2>8. pc = "retry" => todo' \cap ready = {}
      BY DEF Grounds, Stages
    <2>9. pc' = pc /\ ready' = ready
      OBVIOUS
    <2> QED
      BY <2>4, <2>5, <2>6, <2>7, <2>8, <2>9 DEF Stages
  <1>9. Answers'
    <2>1. CASE call' = call
      BY <2>1, NoAnswers
    <2>2. CASE disk' = mem' /\ call' = [group |-> h, rate |-> p]
      <3>1. mem'.dynamic[h].pend = p
        BY <1>1, <1>2
      <3>2. ~Active(h)'
        BY <1>7 DEF Active
      <3>3. ASSUME NEW g \in Groups, Sending(g)' PROVE g = h
        BY <2>2, <3>3 DEF Sending
      <3>4. pc' # "single"
        OBVIOUS
      <3> QED
        BY <2>2, <3>1, <3>2, <3>3, <3>4 DEF Answers
    <2> QED
      BY <2>1, <2>2
  <1> QED
    BY <1>0, <1>5, <1>6, <1>8, <1>9 DEF Grounds

\* Each of the turns of a group is such a one.
LEMMA GroupTurnKeepsGrounds ==
  ASSUME Inv, Grounds, NEW h \in Groups,
         BootstrapWaits(h) \/ Seed(h) \/ Retry(h) \/ consumeDynamicGroup(h)
  PROVE  Grounds'
  <1>0. /\ call = NoCall /\ pc \in {"seed", "retry", "consume"} /\ h \in todo
        /\ UNCHANGED <<pc, view, through, ready, choice, costs>> /\ Going
        /\ TypeOK /\ Surroundings /\ pc # "idle"
    BY DEF BootstrapWaits, Seed, Retry, consumeDynamicGroup, Idle, Inv
  <1> DEFINE m == mem.dynamic[h]
  <1>1. m \in Memory /\ m = [m EXCEPT !.pend = m.pend] /\ m.pend \in 0..MaxRate /\ Known(m)
    <2>1. m \in Memory /\ Known(m)
      BY HorizonFacts DEF Grounds
    <2> HIDE DEF m
    <2> QED
      BY <2>1 DEF Memory
  <1>2. ASSUME NEW n \in Memory, Known(n), NEW event, publishDynamicGroup(h, n, event)
        PROVE  Grounds'
    <2>1. PICK p \in 0..MaxRate :
            /\ mem' = [mem EXCEPT !.dynamic[h] = [n EXCEPT !.pend = p]]
            /\ \/ disk' = disk /\ call' = call
               \/ disk' = mem' /\ call' = [group |-> h, rate |-> p] /\ p \in Rates
      BY <1>0, <1>2, PublishOutcome
    <2>2. todo' = todo \ {h}
      BY <1>0, <1>2, PublishOutcome
    <2> QED
      BY <2>1, <2>2, <1>0, <1>2, PublishKeepsGrounds
  <1>3. CASE BootstrapWaits(h)
    <2>1. CASE publishDynamicGroup(h, m, FALSE)
      BY <2>1, <1>1, <1>2
    <2>2. CASE m.pend = 0 /\ Settled(h, m, FALSE) /\ UNCHANGED left
      <3>1. /\ mem' = [mem EXCEPT !.dynamic[h] = [m EXCEPT !.pend = m.pend]]
            /\ disk' = disk /\ call' = call /\ todo' = todo \ {h}
        BY <2>2, <1>1 DEF Settled
      <3> HIDE DEF m
      <3> QED
        BY <3>1, <1>0, <1>1, PublishKeepsGrounds
    <2> QED
      BY <2>1, <2>2, <1>3 DEF BootstrapWaits
  <1>4. CASE Seed(h)
    <2> DEFINE n == seedDynamicGroupState(h, choice[h])
    <2>1. publishDynamicGroup(h, n, TRUE) /\ pc = "seed" /\ choice[h] # 0
      BY <1>4 DEF Seed
    <2>2. n \in Memory /\ AccountBase(n) \subseteq Rated(n.rates)
      BY <1>0, <2>1, SeededMemory
    <2> HIDE DEF n
    <2> QED
      BY <2>1, <2>2, <1>2 DEF Known
  <1>5. CASE Retry(h)
    BY <1>1, <1>2, <1>5 DEF Retry
  <1>6. CASE consumeDynamicGroup(h)
    <2> DEFINE n == updateDynamicMemory(h)
               event == NewRows(h) # {} \/ relevantAccountRatesChanged(m, n)
    <2>1. publishDynamicGroup(h, n, event) /\ pc = "consume"
      BY <1>6 DEF consumeDynamicGroup
    <2>2. n \in Memory /\ AccountBase(n) \subseteq Rated(n.rates)
      BY <1>0, <2>1, UpdatedMemory
    <2> HIDE DEF n, m, event
    <2> QED
      BY <2>1, <2>2, <1>2 DEF Known
  <1> QED
    BY <1>3, <1>4, <1>5, <1>6

\* An answer is that to the one PUT; its group is through.
LEMMA AnswersKeepGrounds ==
  ASSUME Inv, Grounds, UpdateSucceeds \/ UpdateFails
  PROVE  Grounds'
  <1>0. /\ call # NoCall /\ call' = NoCall
        /\ UNCHANGED <<env, log, on, acct, oldest, disk, up, pc, view, through, todo, ready,
                       choice, costs, events>>
        /\ Applied \/ UNCHANGED <<rate, writes>>
        /\ mem' = mem \/ mem' = [mem EXCEPT !.dynamic[call.group] = clearDynamicPending(@)]
    BY DEF UpdateSucceeds, UpdateFails, gateway
  <1> DEFINE k == call.group
  <1>1. /\ k \in Groups /\ mem \in State /\ rate \in [Groups -> Rates]
        /\ todo \subseteq Groups /\ ready \subseteq Groups
        /\ mem.dynamic[k] \in Memory
    BY <1>0, HorizonFacts DEF Inv, TypeOK
  <1> HIDE DEF k
  <1>2. ASSUME NEW g \in Groups
        PROVE  /\ mem'.dynamic[g].init = mem.dynamic[g].init
               /\ mem'.dynamic[g].seen = mem.dynamic[g].seen
               /\ mem'.dynamic[g].rates = mem.dynamic[g].rates
    <2>1. mem'.dynamic[g] \in {mem.dynamic[g], clearDynamicPending(mem.dynamic[g])}
      BY <1>0, <1>1 DEF State, k
    <2>2. mem.dynamic[g] \in Memory
      BY HorizonFacts
    <2> QED
      BY <2>1, <2>2 DEF clearDynamicPending, Memory
  <1>3. Priced'
    BY <1>0 DEF Grounds, Priced
  <1>4. Stages'
    <2>1. pc # "initial"
      BY <1>0 DEF Inv, Calls
    <2>2. pc = "single" => \A g \in todo : view.rate[g] = rate'[g]
      <3>1. ASSUME pc = "single", NEW g \in todo PROVE view.rate[g] = rate'[g]
        <4>1. g # k
          BY <3>1, <1>0 DEF Grounds, Answers, k
        <4>2. rate'[g] = rate[g]
          BY <4>1, <1>0, <1>1, <3>1 DEF Applied, k
        <4> QED
          BY <4>2, <3>1 DEF Grounds, Stages
      <3> QED
        BY <3>1
    <2>3. ASSUME NEW g \in Groups, Fit(g, mem.dynamic[g]) PROVE Fit(g, mem.dynamic[g])'
      BY <2>3, <1>0, <1>2 DEF Fit, Rated, Bound
    <2>4. \A g : Enough(g, Bound(g), through)' = Enough(g, Bound(g), through)
      BY <1>0 DEF Enough, Answered, Bound
    <2>5. pc \in {"bootstrap", "seed"} => \A g \in todo : ~mem'.dynamic[g].init
      BY <1>1, <1>2 DEF Grounds, Stages
    <2>6. pc \in {"retry", "consume"} => \A g \in todo : Fit(g, mem.dynamic[g])'
      BY <1>1, <2>3 DEF Grounds, Stages
    <2>7. pc \in {"bootstrap", "seed", "retry"} => \A g \in ready : Fit(g, mem.dynamic[g])'
      BY <1>1, <2>3 DEF Grounds, Stages
    <2>8. /\ pc = "retry" => todo \cap ready = {}
          /\ pc = "seed" => \A g \in todo : choice[g] # 0 <=> Enough(g, Bound(g), through)'
      BY <2>4 DEF Grounds, Stages
    <2> QED
      BY <1>0, <2>1, <2>2, <2>5, <2>6, <2>7, <2>8 DEF Stages
  <1>5. \A g \in Groups : Known(mem.dynamic[g])' /\ Known(disk.dynamic[g])'
    <2>1. \A g \in Groups : Known(mem'.dynamic[g])
      BY <1>2 DEF Grounds, Known, AccountBase
    <2> QED
      BY <2>1, <1>0, KnownSaved
  <1>6. writes' \in [Groups -> [one : Nat, many : Nat]]
    <2>1. writes \in [Groups -> [one : Nat, many : Nat]]
      BY DEF Grounds
    <2>2. ASSUME NEW w \in [one : Nat, many : Nat], writes' = [writes EXCEPT ![k] = w]
          PROVE  writes' \in [Groups -> [one : Nat, many : Nat]]
      BY <2>1, <2>2, <1>1
    <2>3. CASE writes' = [writes EXCEPT ![k].one = @ + 1]
      BY <2>1, <2>2, <2>3, <1>1
    <2>4. CASE writes' = [writes EXCEPT ![k].many = @ + 1]
      BY <2>1, <2>2, <2>4, <1>1
    <2> QED
      BY <2>1, <2>3, <2>4, <1>0 DEF Applied, k
  <1> QED
    BY <1>0, <1>3, <1>4, <1>5, <1>6, NoAnswers DEF Grounds

\* Every step keeps the grounds.
LEMMA StepKeepsGrounds ==
  ASSUME Inv, Calm, Grounds, [Next]_vars
  PROVE  Grounds'
  <1>1. CASE WaitForKey \/ SetKey \/ Tick \/ UNCHANGED vars
    BY <1>1, NothingHappens, NothingKeepsGrounds
  <1>2. CASE List
    BY <1>2, ListKeepsGrounds
  <1>3. CASE ListFails \/ UsageFails \/ SaveState \/ SaveFails \/ Start \/ Crash
    BY <1>3, EndsKeepGrounds
  <1>4. CASE Initialize
    BY <1>4, InitializeKeepsGrounds
  <1>5. CASE prepareDynamicStates \/ loadDynamicBootstrap
    BY <1>5, PrepareKeepsGrounds, LoadKeepsGrounds
  <1>6. CASE BeginRetry \/ ListGroupUsageSince
    BY <1>6, BetweenKeepsGrounds
  <1>7. CASE UpdateSucceeds \/ UpdateFails
    BY <1>7, AnswersKeepGrounds
  <1>8. ASSUME NEW h \in Groups, syncSingleAccountGroup(h) PROVE Grounds'
    BY <1>8, SingleKeepsGrounds
  <1>9. ASSUME NEW h \in Groups,
               BootstrapWaits(h) \/ Seed(h) \/ Retry(h) \/ consumeDynamicGroup(h)
        PROVE  Grounds'
    BY <1>9, GroupTurnKeepsGrounds
  <1>10. ASSUME NEW a \in Accounts,
                ChangeAccountRate(a) \/ Switch(a) \/ (\E h \in Groups : Request(h, a))
         PROVE  Grounds'
    BY <1>10, AroundKeepsGrounds
  <1> QED
    BY <1>1, <1>2, <1>3, <1>4, <1>5, <1>6, <1>7, <1>8, <1>9, <1>10 DEF Next, Cycle, Around
-----------------------------------------------------------------------------
(* Rates at rest, from the start on.                                        *)

\* At the start nothing happened, and nothing is owed.
LEMMA RestInit ==
  ASSUME Init
  PROVE  RestInv
  <1>1. /\ env \in Environments /\ log = <<>> /\ on = Accounts /\ pc = "idle" /\ call = NoCall
        /\ acct = [a \in Accounts |-> env.start] /\ rate = [g \in Groups |-> env.start]
        /\ oldest = 1 /\ disk = newState /\ mem = newState
        /\ writes = [g \in Groups |-> [one |-> 0, many |-> 0]] /\ events = [g \in Groups |-> 0]
    BY DEF Init
  <1>2. env.start # Invalid /\ \A g \in Groups : env.bound[g] \subseteq Accounts
    <2>1. env \in Environment
      BY <1>1, ConstantFacts
    <2> QED
      BY <2>1, ConstantFacts DEF Environment, Invalid
  <1>3. ASSUME NEW g \in Groups
        PROVE  /\ ~mem.dynamic[g].init /\ ~disk.dynamic[g].init
               /\ mem.dynamic[g].pend = 0 /\ disk.dynamic[g].pend = 0
    BY <1>1, FreshMemory DEF newDynamicGroupState
  <1>4. Grounds
    <2>1. Priced /\ Stages /\ Answers
      BY <1>1, <1>2 DEF Priced, Stages, Answers, Sending
    <2> QED
      BY <1>1, <1>3, <2>1 DEF Grounds, Known
  <1>5. ASSUME NEW g \in Groups PROVE ManyInv(g) /\ OneInv(g)
    <2>1. /\ Now(g) = env.bound[g] /\ Now(g) \subseteq Accounts
          /\ ~Alone(g) /\ ~Active(g) /\ ~Sending(g)
      BY <1>1, <1>2, <1>5 DEF Now, Alone, Active, Sending
    <2>2. ~Startable(g)
      <3>1. Answered(g, Now(g), Len(log)) = {}
        BY <1>1 DEF Answered
      <3> QED
        BY <3>1, FS_EmptySet, ConstantFacts DEF Startable, Enough
    <2>3. ASSUME Several(env.bound[g])
          PROVE  Rest(g, mem.dynamic[g]) = 0 /\ Rest(g, disk.dynamic[g]) = 0
      BY <2>1, <2>2, <2>3, <1>3 DEF Rest, Targets, Owed, Apart, Bit
    <2>4. ManyInv(g)
      BY <2>1, <2>3, <1>1 DEF ManyInv, FileDebt, MemoryDebt
    <2>5. ~Behind(g)
      BY <2>1, <1>1 DEF Behind
    <2> QED
      BY <2>1, <2>4, <2>5, <1>1 DEF OneInv, Lag, Bit
  <1> QED
    BY <1>4, <1>5 DEF RestInv

\* The environment is chosen once.
LEMMA EnvironmentStays ==
  ASSUME [Next]_vars
  PROVE  env' = env
  <1>1. CASE Cycle
    BY <1>1 DEF Cycle, WaitForKey, List, ListFails, Initialize, prepareDynamicStates,
       loadDynamicBootstrap, UsageFails, BeginRetry, ListGroupUsageSince, UpdateSucceeds,
       UpdateFails, SaveState, SaveFails, syncSingleAccountGroup, BootstrapWaits, Seed, Retry,
       consumeDynamicGroup, Going
  <1>2. CASE Crash \/ Start
    BY <1>2 DEF Crash, Start
  <1>3. CASE Around
    BY <1>3 DEF Around, Tick, SetKey, ChangeAccountRate, Switch, Request, Untouched
  <1>4. CASE UNCHANGED vars
    BY <1>4 DEF vars
  <1> QED
    BY <1>1, <1>2, <1>3, <1>4 DEF Next

\* Rates are frozen without a reason, for any groups, accounts and bounds, in the
\* environments where no account loses its rate and no request is logged late.
THEOREM RatesRest == Spec => [](Calm => NoRestlessRates)
  <1>1. Init => RestInv
    BY RestInit
  <1>2. Inv /\ RestInv /\ [Next]_vars => RestInv'
    <2> SUFFICES ASSUME Inv, RestInv, [Next]_vars, Calm'
                 PROVE  (Grounds /\ \A g \in Groups : ManyInv(g) /\ OneInv(g))'
      BY DEF RestInv
    <2>1. Calm
      BY EnvironmentStays DEF Calm
    <2>2. Grounds /\ \A g \in Groups : ManyInv(g) /\ OneInv(g)
      BY <2>1 DEF RestInv
    <2>3. Grounds'
      BY <2>1, <2>2, StepKeepsGrounds
    <2>4. \A g \in Groups : ManyInv(g)' /\ OneInv(g)'
      BY <2>1, <2>2, StepKeepsDebts
    <2> QED
      BY <2>3, <2>4
  <1>3. RestInv => (Calm => NoRestlessRates)
    <2> SUFFICES ASSUME RestInv, Calm, NEW g \in Groups
                 PROVE  writes[g].one <= events[g] /\ writes[g].many <= events[g]
      BY DEF NoRestlessRates
    <2>1. ManyInv(g) /\ OneInv(g) /\ Grounds
      BY DEF RestInv
    <2>2. writes[g].one \in Nat /\ writes[g].many \in Nat /\ events[g] \in Nat
      BY <2>1 DEF Grounds
    <2> QED
      BY <2>1, <2>2, DebtsAreNumbers DEF ManyInv, OneInv
  <1> QED
    BY InvHolds, <1>1, <1>2, <1>3, PTL DEF Spec
=============================================================================
