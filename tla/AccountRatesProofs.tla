-------------------------- MODULE AccountRatesProofs --------------------------
(* Proofs about the account worker, for any accounts, prices and environments: *)
(* its checks never share an account; rules are of one template; and a rate    *)
(* that is written for an account with a balance of its own is explained by    *)
(* what the cycle saw.                                                         *)
EXTENDS AccountRates, FiniteSetTheorems, TLAPS

-----------------------------------------------------------------------------
(* Part 1.  Checks.                                                          *)

Admitted == Running \cup Done
Busy == {"admit", "collect"}

\* Checks are of the listed channels, the admitted ones are of different accounts
\* and are counted, and no check is under way outside admission and collection.
ChecksInv ==
  /\ env \in Environments
  /\ DOMAIN chk = Channels /\ chk = [i \in Channels |-> chk[i]]
  /\ \A i \in Channels : "step" \in DOMAIN chk[i]
  /\ checked \in Nat /\ Cardinality(Admitted) <= checked
  /\ \A i, j \in Admitted : i # j => AccountOf(i) # AccountOf(j)
  /\ ChecksDontShare

\* The channels of a cycle are finitely many, and so are the checks.
LEMMA ChannelsFinite ==
  ASSUME env \in Environments
  PROVE  /\ IsFiniteSet(Channels)
         /\ IsFiniteSet(Running) /\ IsFiniteSet(Done) /\ IsFiniteSet(Admitted)
<1>1. env.channels \in Seq(Accounts)
  BY EnvironmentAssumption
<1>2. Channels = 1..Len(env.channels) /\ Len(env.channels) \in Nat
  BY <1>1 DEF Channels
<1>3. IsFiniteSet(Channels)
  BY <1>2, FS_Interval
<1>4. Running \subseteq Channels /\ Done \subseteq Channels /\ Admitted \subseteq Channels
  BY DEF Running, Done, Admitted
<1> QED
  BY <1>3, <1>4, FS_Subset

-----------------------------------------------------------------------------
(* What a step can do to the checks.                                         *)

\* No check moves, and the cycle does not leave admission and collection.
NoCheckMoves ==
  /\ UNCHANGED <<env, chk, checked>>
  /\ pc' = pc \/ pc \notin Busy \/ pc' \in Busy

\* The cycle is over: nothing is left of its checks.
AllEnd ==
  /\ UNCHANGED env
  /\ chk' = [i \in Channels |-> NoCheck] /\ checked' = 0

\* A check under way goes on, or is done.
OneMoves(i, c) ==
  /\ UNCHANGED <<env, checked, pc>>
  /\ chk' = [chk EXCEPT ![i] = c]
  /\ i \in Running /\ "step" \in DOMAIN c /\ c.step # "none"

LEMMA NoMoveKeepsInv ==
  ASSUME ChecksInv, NoCheckMoves
  PROVE  ChecksInv'
<1>1. Channels' = Channels /\ Running' = Running /\ Done' = Done /\ Admitted' = Admitted
  BY DEF NoCheckMoves, Channels, Running, Done, Admitted
<1>2. \A i : AccountOf(i)' = AccountOf(i)
  BY DEF NoCheckMoves, AccountOf
<1>3. ChecksDontShare'
  BY <1>1, <1>2 DEF ChecksInv, NoCheckMoves, ChecksDontShare, Busy
<1> QED
  BY <1>1, <1>2, <1>3 DEF ChecksInv, NoCheckMoves

LEMMA EndKeepsInv ==
  ASSUME ChecksInv, AllEnd
  PROVE  ChecksInv'
<1>1. Channels' = Channels /\ env' \in Environments
  BY DEF ChecksInv, AllEnd, Channels
<1>2. Running' = {} /\ Done' = {} /\ Admitted' = {}
  BY <1>1 DEF AllEnd, Running, Done, Admitted, NoCheck
<1>3. Cardinality({}) = 0
  BY FS_EmptySet
<1>4. MaxConcurrentChecks \in Nat
  BY AccountAssumption
<1>5. ChecksDontShare'
  BY <1>2, <1>3, <1>4 DEF ChecksDontShare
<1>6. Cardinality(Admitted)' <= checked'
  BY <1>2, <1>3 DEF AllEnd
<1>8. \A i, j \in Admitted' : i # j => AccountOf(i)' # AccountOf(j)'
  BY <1>2
<1>7. /\ chk' = [i \in Channels' |-> chk'[i]] /\ DOMAIN chk' = Channels'
      /\ \A i \in Channels' : "step" \in DOMAIN chk'[i]
  BY <1>1 DEF AllEnd, NoCheck
<1> QED
  BY <1>1, <1>5, <1>6, <1>7, <1>8 DEF ChecksInv, AllEnd

LEMMA MoveKeepsInv ==
  ASSUME ChecksInv, NEW i, NEW c, OneMoves(i, c)
  PROVE  ChecksInv'
<1>1. Channels' = Channels /\ env' \in Environments /\ i \in Channels
  BY DEF ChecksInv, OneMoves, Channels, Running
<1>2. /\ DOMAIN chk' = Channels /\ chk' = [j \in Channels |-> chk'[j]]
      /\ chk'[i] = c /\ \A j \in Channels \ {i} : chk'[j] = chk[j]
  BY <1>1 DEF ChecksInv, OneMoves
<1>3. Running' \subseteq Running /\ Admitted' = Admitted
  BY <1>1, <1>2 DEF OneMoves, Running, Done, Admitted
<1>4. Cardinality(Running') <= Cardinality(Running)
  BY <1>3, ChannelsFinite, FS_Subset DEF ChecksInv
<1>5. Cardinality(Running) \in Nat /\ Cardinality(Running') \in Nat
  BY <1>3, ChannelsFinite, FS_Subset, FS_CardinalityType DEF ChecksInv
<1>6. ChecksDontShare'
  <2>1. \A j, k \in Running' : j # k => AccountOf(j)' # AccountOf(k)'
    BY <1>3 DEF ChecksInv, ChecksDontShare, OneMoves, AccountOf
  <2>2. Cardinality(Running') <= MaxConcurrentChecks
    BY <1>4, <1>5, AccountAssumption DEF ChecksInv, ChecksDontShare
  <2>3. pc' \notin {"admit", "collect"} => Running' = {}
    BY <1>3 DEF ChecksInv, ChecksDontShare, OneMoves
  <2> QED
    BY <2>1, <2>2, <2>3 DEF ChecksDontShare
<1>7. \A j \in Channels' : "step" \in DOMAIN chk'[j]
  BY <1>1, <1>2 DEF ChecksInv, OneMoves
<1>8. checked' \in Nat /\ Cardinality(Admitted)' <= checked'
  BY <1>3 DEF ChecksInv, OneMoves
<1>9. \A j, k \in Admitted' : j # k => AccountOf(j)' # AccountOf(k)'
  BY <1>3 DEF ChecksInv, OneMoves, AccountOf
<1> QED
  BY <1>1, <1>2, <1>6, <1>7, <1>8, <1>9 DEF ChecksInv
-----------------------------------------------------------------------------
(* Admission and collection.                                                 *)

\* An account with a check gets no second one, and a check waits for a place.
LEMMA AdmitKeepsInv ==
  ASSUME ChecksInv, NEW i \in Channels, Admit(i)
  PROVE  ChecksInv'
<1> DEFINE c == [NoCheck EXCEPT !.step = "billing"]
<1>1. /\ UNCHANGED <<env, pc>> /\ pc = "admit" /\ checked' = checked + 1
      /\ chk' = [chk EXCEPT ![i] = c]
      /\ AccountOf(i) \notin SeenAccounts
      /\ Cardinality(Running) < MaxConcurrentChecks
  BY DEF Admit, Check, Turn
<1>2. Channels' = Channels /\ env' \in Environments
  BY <1>1 DEF ChecksInv, Channels
<1>3. DOMAIN c = {"step", "failed", "table"} /\ c.step = "billing"
  BY DEF NoCheck
<1>4. /\ DOMAIN chk' = Channels /\ chk' = [j \in Channels |-> chk'[j]]
      /\ \A j \in Channels : chk'[j] = IF j = i THEN c ELSE chk[j]
  BY <1>1 DEF ChecksInv
<1>5. Running' \subseteq Running \cup {i} /\ Admitted' \subseteq Admitted \cup {i}
  BY <1>2, <1>4 DEF Running, Done, Admitted
<1>6. i \notin Running
  BY <1>1 DEF SeenAccounts
<1>7. /\ IsFiniteSet(Running) /\ IsFiniteSet(Admitted)
      /\ Cardinality(Running) \in Nat /\ Cardinality(Admitted) \in Nat
  BY ChannelsFinite, FS_CardinalityType DEF ChecksInv
<1>8. /\ IsFiniteSet(Running \cup {i}) /\ IsFiniteSet(Admitted \cup {i})
      /\ Cardinality(Running \cup {i}) <= Cardinality(Running) + 1
      /\ Cardinality(Admitted \cup {i}) <= Cardinality(Admitted) + 1
  <2>1. ASSUME NEW S, IsFiniteSet(S), Cardinality(S) \in Nat
        PROVE  IsFiniteSet(S \cup {i}) /\ Cardinality(S \cup {i}) <= Cardinality(S) + 1
    BY <2>1, FS_AddElement
  <2> QED
    BY <1>7, <2>1
<1>9. /\ Cardinality(Running') <= Cardinality(Running \cup {i})
      /\ Cardinality(Admitted') <= Cardinality(Admitted \cup {i})
      /\ IsFiniteSet(Running') /\ IsFiniteSet(Admitted')
  BY <1>5, <1>8, FS_Subset
<1>10. /\ Cardinality(Running') \in Nat /\ Cardinality(Admitted') \in Nat
       /\ Cardinality(Running \cup {i}) \in Nat /\ Cardinality(Admitted \cup {i}) \in Nat
  BY <1>8, <1>9, FS_CardinalityType
<1>14. ASSUME NEW j \in Admitted', NEW k \in Admitted', j # k
       PROVE  AccountOf(j)' # AccountOf(k)'
  <2>1. AccountOf(j)' = AccountOf(j) /\ AccountOf(k)' = AccountOf(k)
    BY <1>1 DEF AccountOf
  <2>2. \A l \in Admitted : AccountOf(l) # AccountOf(i)
    BY <1>1 DEF SeenAccounts, Admitted
  <2> QED
    BY <1>14, <2>1, <2>2, <1>5 DEF ChecksInv
<1>11. ChecksDontShare'
  <2>1. \A j, k \in Running' : j # k => AccountOf(j)' # AccountOf(k)'
    BY <1>14 DEF Admitted
  <2>2. Cardinality(Running') <= MaxConcurrentChecks
    BY <1>1, <1>7, <1>8, <1>9, <1>10, AccountAssumption
  <2> QED
    BY <2>1, <2>2, <1>1 DEF ChecksDontShare
<1>12. checked' \in Nat /\ Cardinality(Admitted)' <= checked'
  BY <1>1, <1>7, <1>8, <1>9, <1>10 DEF ChecksInv
<1>13. \A j \in Channels' : "step" \in DOMAIN chk'[j]
  BY <1>2, <1>3, <1>4 DEF ChecksInv
<1> QED
  BY <1>2, <1>4, <1>11, <1>12, <1>13, <1>14 DEF ChecksInv

\* Whoever has a result of every check that was counted waits for no other one.
LEMMA CollectKeepsInv ==
  ASSUME ChecksInv, collectCheckResults
  PROVE  ChecksInv'
<1>1. UNCHANGED <<env, chk, checked>> /\ Cardinality(Done) = checked
  BY DEF collectCheckResults, cycle
<1>2. IsFiniteSet(Done) /\ IsFiniteSet(Admitted) /\ Done \subseteq Admitted
  BY ChannelsFinite DEF ChecksInv, Admitted
<1>3. Done = Admitted
  <2>1. Cardinality(Done) \in Nat /\ Cardinality(Admitted) \in Nat
    BY <1>2, FS_CardinalityType
  <2>2. Cardinality(Done) <= Cardinality(Admitted)
    BY <1>2, FS_Subset
  <2>3. Cardinality(Done) = Cardinality(Admitted)
    BY <1>1, <2>1, <2>2 DEF ChecksInv
  <2> QED
    BY <1>2, <2>3, FS_Subset
<1>4. Running = {}
  BY <1>3 DEF Running, Done, Admitted
<1>5. /\ Running' = Running /\ Done' = Done /\ Admitted' = Admitted
      /\ Channels' = Channels
  BY <1>1 DEF Running, Done, Admitted, Channels
<1>6. ChecksDontShare'
  BY <1>1, <1>4, <1>5 DEF ChecksInv, ChecksDontShare
<1> QED
  BY <1>1, <1>5, <1>6 DEF ChecksInv, AccountOf
-----------------------------------------------------------------------------
(* Every step is one of these.                                               *)

\* Before the checks are admitted, and around the process.
LEMMA OutsideSteps ==
  ASSUME \/ List \/ ListFails
         \/ \E a \in Sharing :
              ProbeAnswers(a) \/ ProbeFindsNothing(a) \/ ProbeFails(a) \/ ApplyShared(a)
         \/ resetImageCreaterGroup \/ SharedFails \/ Reconcile
         \/ \E i \in Channels : admitAccountHost(i) \/ admitUniqueAccount(i)
         \/ AdmitEnds
         \/ Start \/ Terminate
  PROVE  NoCheckMoves
<1> USE DEF NoCheckMoves, Busy, cycle
<1>1. CASE List
  BY <1>1 DEF List
<1>2. CASE ListFails
  BY <1>2 DEF ListFails
<1>3. CASE \E a \in Sharing : ProbeAnswers(a) \/ ProbeFindsNothing(a) \/ ProbeFails(a)
  BY <1>3 DEF ProbeAnswers, ProbeFindsNothing, ProbeFails, ProbedOn, NoWrite
<1>4. CASE resetImageCreaterGroup
  BY <1>4 DEF resetImageCreaterGroup, NoWrite, ProbeEnds
<1>5. CASE SharedFails
  BY <1>5 DEF SharedFails, Unproved, NoWrite, ProbeEnds
<1>6. CASE Reconcile
  BY <1>6 DEF Reconcile, Unproved, NoWrite, ProbeEnds
<1>7. CASE \E a \in Sharing : ApplyShared(a)
  BY <1>7 DEF ApplyShared, Quietly
<1>8. CASE (\E i \in Channels : admitAccountHost(i) \/ admitUniqueAccount(i)) \/ AdmitEnds
  BY <1>8 DEF admitAccountHost, admitUniqueAccount, PassedOver, AdmitEnds
<1>9. CASE Start \/ Terminate
  BY <1>9 DEF Start, Terminate
<1> QED
  BY <1>1, <1>2, <1>3, <1>4, <1>5, <1>6, <1>7, <1>8, <1>9

LEMMA AroundSteps ==
  ASSUME Around
  PROVE  NoCheckMoves
BY DEF Around, NoCheckMoves, cycle

LEMMA EndSteps ==
  ASSUME Save \/ SaveFails \/ Exit \/ Crash
  PROVE  AllEnd
BY DEF Save, SaveFails, Exit, Crash, Dies, CycleEnds, AllEnd

\* Each answer, and each that fails to come, moves the check it was for.
LEMMA CheckSteps ==
  ASSUME ChecksInv, NEW i \in Channels,
         \/ BillingAnswers(i) \/ BillingMissed(i)
         \/ PricingAnswers(i) \/ PricingMissed(i)
         \/ LogAnswers(i) \/ LogFails(i)
         \/ UsageAnswers(i) \/ UsageMissed(i) \/ UsageInvalid(i)
         \/ applyCandidate(i)
  PROVE  \E c : OneMoves(i, c)
<1> DEFINE to(step) == [NoCheck EXCEPT !.step = step]
<1>1. /\ "step" \in DOMAIN chk[i]
      /\ chk[i].step \notin {"none", "done"} => i \in Running
  BY DEF ChecksInv, Running
<1>2. OnCheck => UNCHANGED <<env, checked, pc>>
  BY DEF OnCheck, Quietly
<1>3. \A s : "step" \in DOMAIN to(s) /\ to(s).step = s
  BY DEF NoCheck
<1>4. ASSUME OnCheck, chk[i].step \notin {"none", "done"},
             \/ Check(i, to("apply")) \/ Check(i, to("usage")) \/ Check(i, to("done"))
      PROVE  \E c : OneMoves(i, c)
  BY <1>1, <1>2, <1>3, <1>4 DEF OneMoves, Check
<1>5. CASE BillingAnswers(i)
  <2>1. OnCheck /\ chk[i].step = "billing"
    BY <1>5 DEF BillingAnswers, Answers
  <2>2. PICK failed : \/ Check(i, to("apply"))
                      \/ Check(i, [chk[i] EXCEPT !.step = "pricing", !.failed = failed])
    BY <1>5 DEF BillingAnswers, Direct
  <2> QED
    BY <2>1, <2>2, <1>1, <1>2, <1>4 DEF OneMoves, Check
<1>6. CASE BillingMissed(i)
  <2>1. OnCheck /\ chk[i].step = "billing" /\ Check(i, [chk[i] EXCEPT !.step = "pricing"])
    BY <1>6 DEF BillingMissed, Missed
  <2> DEFINE d == [chk[i] EXCEPT !.step = "pricing"]
  <2>2. "step" \in DOMAIN d /\ d.step = "pricing"
    BY <1>1
  <2>3. OneMoves(i, d)
    BY <2>1, <2>2, <1>1, <1>2 DEF OneMoves, Check
  <2> QED
    BY <2>3
<1>7. CASE PricingAnswers(i)
  <2>1. OnCheck /\ chk[i].step = "pricing"
    BY <1>7 DEF PricingAnswers, Answers
  <2>2. PICK table : Check(i, [chk[i] EXCEPT !.step = "log", !.table = table])
    BY <1>7 DEF PricingAnswers
  <2> DEFINE d == [chk[i] EXCEPT !.step = "log", !.table = table]
  <2>3. "step" \in DOMAIN d /\ d.step = "log"
    BY <1>1
  <2>4. OneMoves(i, d)
    BY <2>1, <2>2, <2>3, <1>1, <1>2 DEF OneMoves, Check
  <2> QED
    BY <2>4
<1>8. CASE PricingMissed(i)
  BY <1>4, <1>8 DEF PricingMissed, Missed, ToUsage
<1>9. CASE LogAnswers(i)
  BY <1>4, <1>9 DEF LogAnswers, Direct, ToUsage
<1>10. CASE LogFails(i)
  BY <1>4, <1>10 DEF LogFails, ToUsage
<1>11. CASE UsageAnswers(i)
  BY <1>4, <1>11 DEF UsageAnswers, Answers
<1>12. CASE UsageMissed(i)
  BY <1>4, <1>12 DEF UsageMissed, Missed
<1>13. CASE UsageInvalid(i)
  BY <1>4, <1>13 DEF UsageInvalid
<1>14. CASE applyCandidate(i)
  BY <1>4, <1>14 DEF applyCandidate
<1> QED
  BY <1>5, <1>6, <1>7, <1>8, <1>9, <1>10, <1>11, <1>12, <1>13, <1>14
-----------------------------------------------------------------------------
LEMMA ChecksStart == Init => ChecksInv
<1> SUFFICES ASSUME Init PROVE ChecksInv
  OBVIOUS
<1>1. chk = [i \in Channels |-> NoCheck] /\ checked = 0 /\ env \in Environments
  BY DEF Init
<1>2. Running = {} /\ Done = {} /\ Admitted = {}
  BY <1>1 DEF Running, Done, Admitted, NoCheck
<1>3. Cardinality({}) = 0
  BY FS_EmptySet
<1>4. ChecksDontShare
  BY <1>2, <1>3, AccountAssumption DEF ChecksDontShare
<1> QED
  BY <1>1, <1>2, <1>3, <1>4 DEF ChecksInv, NoCheck

LEMMA ChecksStep == ChecksInv /\ [Next]_vars => ChecksInv'
<1> SUFFICES ASSUME ChecksInv, [Next]_vars PROVE ChecksInv'
  OBVIOUS
<1>1. CASE UNCHANGED vars
  <2>1. NoCheckMoves
    BY <1>1 DEF vars, cycle, NoCheckMoves
  <2> QED
    BY <2>1, NoMoveKeepsInv
<1>2. CASE Process
  <2>1. ASSUME NEW i \in Channels,
               \/ BillingAnswers(i) \/ BillingMissed(i)
               \/ PricingAnswers(i) \/ PricingMissed(i)
               \/ LogAnswers(i) \/ LogFails(i)
               \/ UsageAnswers(i) \/ UsageMissed(i) \/ UsageInvalid(i)
               \/ applyCandidate(i)
        PROVE  ChecksInv'
    BY <2>1, CheckSteps, MoveKeepsInv
  <2>2. ASSUME NEW i \in Channels, admitAccountHost(i) \/ admitUniqueAccount(i) \/ Admit(i)
        PROVE  ChecksInv'
    BY <2>2, OutsideSteps, NoMoveKeepsInv, AdmitKeepsInv
  <2>3. ASSUME NEW a \in Sharing,
               ProbeAnswers(a) \/ ProbeFindsNothing(a) \/ ProbeFails(a) \/ ApplyShared(a)
        PROVE  ChecksInv'
    BY <2>3, OutsideSteps, NoMoveKeepsInv
  <2>4. CASE \/ List \/ ListFails \/ resetImageCreaterGroup \/ SharedFails \/ Reconcile
             \/ AdmitEnds \/ collectCheckResults \/ Save \/ SaveFails \/ Exit
    BY <2>4, OutsideSteps, EndSteps, NoMoveKeepsInv, EndKeepsInv, CollectKeepsInv
  <2> QED
    BY <1>2, <2>1, <2>2, <2>3, <2>4 DEF Process
<1>3. CASE Crash \/ Start \/ Terminate
  BY <1>3, OutsideSteps, EndSteps, NoMoveKeepsInv, EndKeepsInv
<1>4. ASSUME NEW a \in Listed,
             Request(a) \/ NewPrice(a) \/ NewGroup(a) \/ NewOffers(a) \/ NewCredentials(a)
      PROVE  ChecksInv'
  <2>1. Around
    BY <1>4 DEF Request, NewPrice, NewGroup, NewOffers, NewCredentials
  <2> QED
    BY <2>1, AroundSteps, NoMoveKeepsInv
<1>5. CASE OtherRequest \/ Recharge \/ NextDay \/ UpstreamMidnight \/ ProxyChanges
  <2>1. Around
    BY <1>5 DEF OtherRequest, Recharge, NextDay, UpstreamMidnight, ProxyChanges
  <2> QED
    BY <2>1, AroundSteps, NoMoveKeepsInv
<1> QED
  BY <1>1, <1>2, <1>3, <1>4, <1>5 DEF Next

\* Checks that run at once are of different accounts, are never more than
\* allowed, and have all ended before the state is saved, for any channels,
\* answers, faults and bounds: an account that was admitted is not admitted
\* again, and collection counts every check that was started
\* (channel_runner.go:112, 186).
THEOREM ChecksAreApart == Spec => []ChecksDontShare
<1>1. ChecksInv => ChecksDontShare
  BY DEF ChecksInv
<1> QED
  BY <1>1, ChecksStart, ChecksStep, PTL DEF Spec

-----------------------------------------------------------------------------
(* Part 2.  Rules and what they rest on.                                     *)

\* Prices that were seen: none, or those from the lowest to the highest.
Pricing == {e \in [lo : Prices, hi : Prices] : e.lo <= e.hi} \cup {NoProof}
Upstream ==
  [epoch : Nat, offers : SUBSET Interfaces, price : [Keys -> Prices], group : Keys,
   cost : Nat, actual : Nat, log : {NoLog} \cup [group : Keys, ratio : Prices], seen : Pricing]

\* That many requests, at prices that were seen.
Within(n, sum, e) == n * e.lo <= sum /\ sum <= n * e.hi

\* What every rule is.
RuleOK(r, u, id, d) ==
  /\ r \in Rule /\ OfOneTemplate(r) /\ r.day <= d /\ r.id <= id /\ r.epoch <= u.epoch

\* What a rule has of counters that did not start again since is true: since the
\* baseline that many requests came, and the candidate is a price they paid.
TrueTo(r, u, id) ==
  r.id = id /\ r.has /\ r.epoch = u.epoch =>
    /\ r.cost <= u.cost /\ r.actual <= u.actual
    /\ Within(u.cost - r.cost, u.actual - r.actual, u.seen)
    /\ r.tmpl = "usage" /\ r.cand # 0 /\ ~r.blind => r.cand \in u.seen.lo .. u.seen.hi

\* The rules of an account are such; what comes of a balance that several accounts
\* have in common is no price of one of them.
Fits(r, u, id, d, own) == RuleOK(r, u, id, d) /\ (own => TrueTo(r, u, id))

\* What a rule has to write is one of the prices e, or nobody can tell.
Backed(r, e) == r.cand # 0 => r.blind \/ r.cand \in e.lo .. e.hi

-----------------------------------------------------------------------------
(* Arithmetic.                                                               *)

LEMMA Scale ==
  ASSUME NEW n \in Nat, NEW x \in Int, NEW y \in Int, x <= y
  PROVE  n * x <= n * y
  OBVIOUS

LEMMA OneMore ==
  ASSUME NEW n \in Nat, NEW sum \in Nat, NEW p \in Nat, NEW lo \in Nat, NEW hi \in Nat,
         n * lo <= sum, sum <= n * hi, lo <= p, p <= hi
  PROVE  (n + 1) * lo <= sum + p /\ sum + p <= (n + 1) * hi
  OBVIOUS

LEMMA Quotient ==
  ASSUME NEW n \in Nat \ {0}, NEW sum \in Int, NEW lo \in Int, NEW hi \in Int,
         n * lo <= sum, sum <= n * hi
  PROVE  sum \div n \in lo .. hi
  OBVIOUS

LEMMA PricingFacts ==
  ASSUME NEW e \in Pricing
  PROVE  /\ e.lo \in Nat /\ e.hi \in Nat /\ e # Anything
         /\ DOMAIN e = {"lo", "hi"} /\ e = [lo |-> e.lo, hi |-> e.hi]
         /\ e # NoProof => e.lo \in Prices /\ e.hi \in Prices /\ e.lo <= e.hi
  <1>1. Prices \subseteq Nat
    BY AccountAssumption
  <1>2. CASE e = NoProof
    BY <1>2 DEF NoProof, Anything
  <1>3. CASE e \in [lo : Prices, hi : Prices] /\ e.lo <= e.hi
    <2>1. e.lo \in Nat /\ e.hi \in Nat
      BY <1>1, <1>3
    <2>2. ~(2 <= 0)
      OBVIOUS
    <2>3. e # Anything
      BY <1>3, <2>2 DEF Anything
    <2> QED
      BY <1>3, <2>1, <2>3
  <1> QED
    BY <1>2, <1>3 DEF Pricing

LEMMA WithKeeps ==
  ASSUME NEW e \in Pricing, NEW p \in Prices
  PROVE  /\ With(e, p) \in Pricing /\ With(e, p) # NoProof
         /\ p \in With(e, p).lo .. With(e, p).hi
         /\ e # NoProof => With(e, p).lo <= e.lo /\ e.hi <= With(e, p).hi
  BY PricingFacts, AccountAssumption DEF Pricing, NoProof, With, Lower, Higher

\* A request more, at a price that counts as seen.
LEMMA WithinGrows ==
  ASSUME NEW n \in Nat, NEW sum \in Nat, NEW e \in Pricing, Within(n, sum, e), NEW p \in Prices
  PROVE  /\ Within(n, sum, With(e, p))
         /\ Within(n + 1, sum + p, With(e, p))
  <1> DEFINE f == With(e, p)
  <1>1. /\ f.lo \in Nat /\ f.hi \in Nat /\ p \in Nat /\ f.lo <= p /\ p <= f.hi
        /\ e.lo \in Nat /\ e.hi \in Nat
        /\ e # NoProof => f.lo <= e.lo /\ e.hi <= f.hi
    BY PricingFacts, WithKeeps, AccountAssumption
  <1>2. Within(n, sum, f)
    <2>1. CASE e = NoProof
      <3>1. n = 0 /\ sum = 0
        BY <1>1, <2>1 DEF Within, NoProof
      <3> HIDE DEF f
      <3> QED
        BY <1>1, <3>1 DEF Within
    <2>2. CASE e # NoProof
      <3> HIDE DEF f
      <3>1. n * f.lo <= n * e.lo /\ n * e.hi <= n * f.hi
        BY <1>1, <2>2, Scale
      <3>2. n * f.lo \in Int /\ n * e.lo \in Int /\ n * e.hi \in Int /\ n * f.hi \in Int
        BY <1>1
      <3> QED
        BY <3>1, <3>2, <1>1 DEF Within
    <2> QED
      BY <2>1, <2>2
  <1>3. Within(n + 1, sum + p, f)
    <2> HIDE DEF f
    <2> QED
      BY <1>1, <1>2, OneMore DEF Within
  <1> QED
    BY <1>2, <1>3

-----------------------------------------------------------------------------
(* Rules.                                                                    *)

\* A rule with the baseline of another one, or with none, and no candidate of usage.
Follows(x, r) ==
  /\ x \in Rule /\ OfOneTemplate(x) /\ x.id = r.id /\ (x.cand = 0 \/ x.tmpl # "usage")
  /\ \/ /\ x.has = r.has /\ x.day = r.day /\ x.cost = r.cost /\ x.actual = r.actual
        /\ x.epoch = r.epoch
     \/ ~x.has /\ x.day = 0 /\ x.epoch = 0

LEMMA FollowsFits ==
  ASSUME NEW u, NEW id, NEW d \in Nat, NEW own, NEW r, Fits(r, u, id, d, own),
         u.epoch \in Nat, NEW x, Follows(x, r)
  PROVE  Fits(x, u, id, d, own)
  <1>1. RuleOK(x, u, id, d)
    BY DEF Fits, RuleOK, Follows
  <1>2. own => TrueTo(x, u, id)
    BY DEF Fits, TrueTo, Follows
  <1> QED
    BY <1>1, <1>2 DEF Fits

LEMMA NewRules ==
  ASSUME NEW id \in Nat \ {0}, NEW d \in Nat, NEW own, NEW u, u.epoch \in Nat
  PROVE  Fits(newRule(id), u, id, d, own) /\ Fits(NoRule, u, id, d, own)
  <1> DEFINE rule(n) == [id |-> n, tmpl |-> "none", key |-> 0, has |-> FALSE, day |-> 0, cost |-> 0,
                         actual |-> 0, epoch |-> 0, cand |-> 0, blind |-> FALSE]
             n0 == -1
  <1>1. ASSUME NEW n \in Int, n <= id
        PROVE  Fits(rule(n), u, id, d, own)
    <2> DEFINE r == rule(n)
    <2>1. r \in Rule /\ r.id = n /\ r.cand = 0 /\ ~r.has /\ r.key = 0 /\ r.day = 0 /\ r.epoch = 0
      BY DEF Rule, Templates
    <2> HIDE DEF r
    <2>2. RuleOK(r, u, id, d)
      BY <1>1, <2>1 DEF RuleOK, OfOneTemplate
    <2>3. TrueTo(r, u, id)
      BY <2>1 DEF TrueTo
    <2>4. Fits(r, u, id, d, own)
      BY <2>2, <2>3 DEF Fits
    <2> QED
      BY <2>4 DEF r
  <1>2. newRule(id) = rule(id)
    BY DEF newRule
  <1>3. NoRule = rule(n0)
    <2> DEFINE m == n0
    <2>1. NoRule = [newRule(0) EXCEPT !.id = m]
      BY DEF NoRule
    <2> HIDE DEF m
    <2>2. NoRule = rule(m)
      BY <2>1 DEF newRule
    <2> QED
      BY <2>2 DEF m
  <1>4. n0 \in Int /\ n0 <= id /\ id \in Int /\ id <= id
    OBVIOUS
  <1> HIDE DEF rule, n0
  <1>5. Fits(rule(n0), u, id, d, own)
    BY <1>1, <1>4
  <1>6. Fits(rule(id), u, id, d, own)
    BY <1>1, <1>4
  <1> QED
    BY <1>2, <1>3, <1>5, <1>6

\* What the resets leave of a rule.
LEMMA CandidateReset ==
  ASSUME NEW r \in Rule, NEW x, x = resetCandidate(r)
  PROVE  /\ x \in Rule /\ x.cand = 0 /\ ~x.blind
         /\ x.id = r.id /\ x.tmpl = r.tmpl /\ x.key = r.key /\ x.has = r.has /\ x.day = r.day
         /\ x.cost = r.cost /\ x.actual = r.actual /\ x.epoch = r.epoch
  <1>1. x = [r EXCEPT !.cand = 0, !.blind = FALSE]
    BY DEF resetCandidate
  <1>2. x \in Rule
    <2> DEFINE y == [r EXCEPT !.cand = 0]
    <2>1. y \in Rule
      BY DEF Rule
    <2>2. x = [y EXCEPT !.blind = FALSE]
      BY <1>1
    <2> HIDE DEF y
    <2>3. [y EXCEPT !.blind = FALSE] \in Rule
      BY <2>1 DEF Rule
    <2> QED
      BY <2>2, <2>3
  <1>3. x.has = r.has
    BY <1>1 DEF Rule
  <1>5. x.cand = 0 /\ ~x.blind
    BY <1>1 DEF Rule
  <1>4. /\ x.id = r.id /\ x.tmpl = r.tmpl /\ x.key = r.key
        /\ x.day = r.day /\ x.cost = r.cost /\ x.actual = r.actual /\ x.epoch = r.epoch
    BY <1>1 DEF Rule
  <1> QED
    BY <1>2, <1>3, <1>4, <1>5

LEMMA KeyReset ==
  ASSUME NEW r \in Rule, NEW x, x = resetPriceKey(r)
  PROVE  /\ x \in Rule /\ x.cand = 0 /\ ~x.blind
         /\ x.id = r.id /\ x.tmpl = r.tmpl /\ x.key = 0 /\ x.has = r.has /\ x.day = r.day
         /\ x.cost = r.cost /\ x.actual = r.actual /\ x.epoch = r.epoch
  <1> DEFINE y == [r EXCEPT !.key = 0]
  <1>1. y \in Rule
    BY DEF Rule
  <1>2. /\ y.id = r.id /\ y.tmpl = r.tmpl /\ y.key = 0 /\ y.has = r.has /\ y.day = r.day
        /\ y.cost = r.cost /\ y.actual = r.actual /\ y.epoch = r.epoch
    BY DEF Rule
  <1>3. x = resetCandidate(y)
    BY DEF resetPriceKey
  <1> HIDE DEF y
  <1> QED
    BY <1>1, <1>2, <1>3, CandidateReset

LEMMA BaselineReset ==
  ASSUME NEW r \in Rule, NEW x, x = resetUsage(r)
  PROVE  /\ x \in Rule /\ x.cand = 0 /\ ~x.blind
         /\ x.id = r.id /\ x.tmpl = r.tmpl /\ x.key = r.key /\ ~x.has /\ x.day = 0 /\ x.epoch = 0
  <1> DEFINE y == [r EXCEPT !.has = FALSE, !.day = 0, !.cost = 0, !.actual = 0, !.epoch = 0]
  <1>1. y \in Rule
    BY ZenonT(30) DEF Rule
  <1>2. y.id = r.id /\ y.tmpl = r.tmpl /\ y.key = r.key /\ y.day = 0 /\ y.epoch = 0
    BY DEF Rule
  <1>4. y.has = FALSE
    BY DEF Rule
  <1>3. x = resetCandidate(y)
    BY DEF resetUsage
  <1> HIDE DEF y
  <1> QED
    BY <1>1, <1>2, <1>3, <1>4, CandidateReset

\* Resets keep what is true.
LEMMA Resets ==
  ASSUME NEW r \in Rule, OfOneTemplate(r),
         NEW x, \/ x = resetCandidate(r) \/ x = resetPriceKey(r) \/ x = resetUsage(r)
                \/ x = resetTemplate(r) \/ x = [resetPriceKey(r) EXCEPT !.tmpl = "balance"]
  PROVE  Follows(x, r) /\ x.cand = 0 /\ x.id = r.id
  <1>1. r \in Rule /\ OfOneTemplate(r)
    OBVIOUS
  <1>2. /\ x \in Rule /\ x.id = r.id /\ x.cand = 0 /\ OfOneTemplate(x)
        /\ \/ /\ x.has = r.has /\ x.day = r.day /\ x.cost = r.cost /\ x.actual = r.actual
              /\ x.epoch = r.epoch
           \/ ~x.has /\ x.day = 0 /\ x.epoch = 0
    <2>1. CASE x = resetCandidate(r)
      BY <1>1, <2>1, CandidateReset DEF OfOneTemplate
    <2>2. CASE x = resetPriceKey(r)
      BY <1>1, <2>2, KeyReset DEF OfOneTemplate
    <2>3. CASE x = resetUsage(r)
      BY <1>1, <2>3, BaselineReset DEF OfOneTemplate
    <2>4. CASE x = resetTemplate(r)
      <3> DEFINE y == resetUsage(r)
      <3>1. y \in Rule /\ ~y.has /\ y.day = 0 /\ y.id = r.id /\ y.cand = 0 /\ y.epoch = 0
        BY <1>1, BaselineReset
      <3>2. x = [y EXCEPT !.tmpl = "none", !.key = 0]
        BY <2>4 DEF resetTemplate
      <3> HIDE DEF y
      <3>3. x \in Rule
        BY <3>1, <3>2 DEF Rule, Templates
      <3>4. /\ ~x.has /\ x.day = 0 /\ x.id = r.id /\ x.cand = 0 /\ x.epoch = 0 /\ x.key = 0
        BY <3>1, <3>2 DEF Rule
      <3> QED
        BY <3>3, <3>4 DEF OfOneTemplate
    <2>5. CASE x = [resetPriceKey(r) EXCEPT !.tmpl = "balance"]
      <3> DEFINE y == resetPriceKey(r)
      <3>1. /\ y \in Rule /\ y.cand = 0 /\ y.id = r.id /\ y.key = 0 /\ y.has = r.has
            /\ y.day = r.day /\ y.cost = r.cost /\ y.actual = r.actual /\ y.epoch = r.epoch
        BY <1>1, KeyReset
      <3>2. x = [y EXCEPT !.tmpl = "balance"]
        BY <2>5
      <3> HIDE DEF y
      <3>3. x \in Rule
        BY <3>1, <3>2 DEF Rule, Templates
      <3>4. /\ x.cand = 0 /\ x.id = r.id /\ x.key = 0 /\ x.has = r.has /\ x.day = r.day
            /\ x.cost = r.cost /\ x.actual = r.actual /\ x.epoch = r.epoch
        BY <3>1, <3>2 DEF Rule
      <3> QED
        BY <3>3, <3>4, <1>1 DEF OfOneTemplate
    <2> QED
      BY <2>1, <2>2, <2>3, <2>4, <2>5
  <1> QED
    BY <1>2 DEF Follows

\* So does a candidate of a direct template.
LEMMA Observed ==
  ASSUME NEW r \in Rule, NEW p \in Int, NEW x, x = observeRate(r, p)
  PROVE  /\ x \in Rule /\ x.cand = p
         /\ x.id = r.id /\ x.tmpl = r.tmpl /\ x.key = r.key /\ x.has = r.has /\ x.day = r.day
         /\ x.cost = r.cost /\ x.actual = r.actual /\ x.epoch = r.epoch
  <1> DEFINE y == [r EXCEPT !.cand = p]
  <1>1. y \in Rule /\ y.cand = p
    BY DEF Rule
  <1>2. y.has = r.has
    BY DEF Rule
  <1>3. /\ y.id = r.id /\ y.tmpl = r.tmpl /\ y.key = r.key /\ y.day = r.day
        /\ y.cost = r.cost /\ y.actual = r.actual /\ y.epoch = r.epoch
    BY DEF Rule
  <1>4. x = [y EXCEPT !.blind = FALSE]
    BY DEF observeRate
  <1> HIDE DEF y
  <1>5. x \in Rule
    <2>1. [y EXCEPT !.blind = FALSE] \in Rule
      BY <1>1 DEF Rule
    <2> QED
      BY <1>4, <2>1
  <1>6. x.has = y.has
    BY <1>1, <1>4 DEF Rule
  <1>7. /\ x.id = y.id /\ x.tmpl = y.tmpl /\ x.key = y.key /\ x.day = y.day /\ x.cand = y.cand
        /\ x.cost = y.cost /\ x.actual = y.actual /\ x.epoch = y.epoch
    BY <1>1, <1>4 DEF Rule
  <1> QED
    BY <1>1, <1>2, <1>3, <1>5, <1>6, <1>7

LEMMA Tagged ==
  ASSUME NEW r \in Rule, NEW t \in {"billing", "newapi"}, NEW k \in Nat,
         NEW x, x = [r EXCEPT !.tmpl = t] \/ x = [r EXCEPT !.key = k]
  PROVE  /\ x \in Rule
         /\ x.tmpl = IF x = [r EXCEPT !.tmpl = t] THEN t ELSE r.tmpl
         /\ x.key = IF x = [r EXCEPT !.tmpl = t] THEN r.key ELSE k
         /\ x.id = r.id /\ x.has = r.has /\ x.day = r.day /\ x.cand = r.cand
         /\ x.cost = r.cost /\ x.actual = r.actual /\ x.epoch = r.epoch
  <1>1. x \in Rule
    BY DEF Rule, Templates
  <1>2. x.has = r.has
    BY DEF Rule
  <1>3. /\ x.tmpl = IF x = [r EXCEPT !.tmpl = t] THEN t ELSE r.tmpl
        /\ x.key = IF x = [r EXCEPT !.tmpl = t] THEN r.key ELSE k
    BY DEF Rule
  <1>4. /\ x.id = r.id /\ x.day = r.day /\ x.cand = r.cand
        /\ x.cost = r.cost /\ x.actual = r.actual /\ x.epoch = r.epoch
    BY DEF Rule
  <1> QED
    BY <1>1, <1>2, <1>3, <1>4

\* The counters of today were read: what follows from them is true, and what
\* is written then is a price that was paid since they started, or nobody can tell.
LEMMA UsedRule ==
  ASSUME NEW u \in Upstream, NEW own, own => Within(u.cost, u.actual, u.seen),
         NEW id \in Nat \ {0}, NEW d \in Nat, NEW now0 \in 1..d,
         NEW r, Fits(r, u, id, d, own), r.id = id
  PROVE  LET x == Used(r, now0, [cost |-> u.cost, actual |-> u.actual, epoch |-> u.epoch])
         IN  Fits(x, u, id, d, own) /\ x.id = id /\ (own => Backed(x, u.seen))
  <1> DEFINE today == [cost |-> u.cost, actual |-> u.actual, epoch |-> u.epoch]
             c == CopyFor(r, "usage")
             kept == setBaseline(c, now0, today)
             fresh == resetCandidate(kept)
             total == cumulativeUsageRate(today)
             cost == u.cost - c.cost
             actual == u.actual - c.actual
             o == observeUsage(c, now0, today)
             x == [o EXCEPT !.tmpl = "usage", !.key = 0]
             lo == u.seen.lo
             hi == u.seen.hi
             K(p, b) == [kept EXCEPT !.cand = p, !.blind = b]
             Good == Fits(x, u, id, d, own) /\ x.id = id /\ (own => Backed(x, u.seen))
  <1>1. /\ u.cost \in Nat /\ u.actual \in Nat /\ u.epoch \in Nat /\ lo \in Nat /\ hi \in Nat
    BY PricingFacts DEF Upstream
  <1>2. /\ RuleOK(c, u, id, d) /\ (own => TrueTo(c, u, id)) /\ c.id = id
        /\ c.tmpl = "usage" \/ c.cand = 0
    <2>1. CASE r.tmpl = "usage"
      BY <2>1 DEF CopyFor, Fits
    <2>2. CASE r.tmpl # "usage"
      <3> DEFINE y == resetPriceKey(r)
      <3>1. Fits(y, u, id, d, own) /\ y.cand = 0 /\ y.id = r.id
        <4>1. r \in Rule /\ OfOneTemplate(r)
          BY DEF Fits, RuleOK
        <4>2. Follows(y, r) /\ y.cand = 0 /\ y.id = r.id
          BY <4>1, Resets
        <4> HIDE DEF y
        <4> QED
          BY <1>1, <4>2, FollowsFits
      <3>2. c = y
        BY <2>2 DEF CopyFor
      <3> HIDE DEF y, c
      <3> QED
        BY <3>1, <3>2 DEF Fits
    <2> QED
      BY <2>1, <2>2
  <1>3. /\ c \in Rule /\ c.cost \in Nat /\ c.actual \in Nat /\ c.epoch \in Nat /\ c.cand \in Int
        /\ c.has \in BOOLEAN /\ c.blind \in BOOLEAN /\ c.key \in Nat
    BY <1>2 DEF RuleOK, Rule
  <1> HIDE DEF c
  <1>4. /\ kept \in Rule /\ kept.has /\ kept.day = now0 /\ kept.cost = u.cost
        /\ kept.actual = u.actual /\ kept.epoch = u.epoch /\ kept.id = id /\ kept.cand = c.cand
        /\ kept.blind = (c.blind \/ Overtaken(c, now0, today))
    <2>1. kept = [c EXCEPT !.has = TRUE, !.day = now0, !.cost = u.cost, !.actual = u.actual,
                    !.epoch = u.epoch, !.blind = c.blind \/ Overtaken(c, now0, today)]
      BY <1>3 DEF setBaseline, Rule
    <2>2. now0 \in Nat /\ c.id = id
      BY <1>2
    <2> HIDE DEF kept
    <2> QED
      BY <1>1, <1>3, <2>1, <2>2 DEF Rule
  <1> HIDE DEF kept
  <1>6. total \in Int /\ (own /\ total > 0 => total \in lo .. hi)
    <2>1. CASE u.cost > 0 /\ u.actual > 0
      <3>1. own => u.actual \div u.cost \in lo .. hi
        BY <1>1, <2>1, Quotient DEF Within
      <3> QED
        BY <1>1, <2>1, <3>1 DEF cumulativeUsageRate
    <2>2. CASE ~(u.cost > 0 /\ u.actual > 0)
      BY <1>1, <2>2 DEF cumulativeUsageRate
    <2> QED
      BY <2>1, <2>2
  <1>7. /\ fresh = K(0, FALSE) /\ kept = K(c.cand, kept.blind)
        /\ \A p : observeRate(fresh, p) = K(p, FALSE) /\ observeRate(kept, p) = K(p, FALSE)
    BY <1>4 DEF resetCandidate, observeRate, Rule
  <1>8. /\ Cumulative(fresh, today, fresh) =
             IF total > 0 THEN observeRate(fresh, total) ELSE fresh
        /\ \A y : Cumulative(kept, today, y) = IF total > 0 THEN observeRate(kept, total) ELSE y
    BY DEF Cumulative
  <1>9. o = IF StartsOver(c, now0, today) THEN Cumulative(fresh, today, fresh)
            ELSE IF cost <= 0 THEN Cumulative(kept, today, kept)
            ELSE IF actual <= 0 THEN Cumulative(kept, today, fresh)
            ELSE IF actual \div cost <= 0 THEN fresh
            ELSE [observeRate(kept, actual \div cost) EXCEPT !.blind = Overtaken(c, now0, today)]
    BY DEF observeUsage, kept, fresh, cost, actual, total, today
  <1>10. Used(r, now0, today) = x
    BY DEF Used, c
  <1> SUFFICES Good
    BY <1>10
  <1> HIDE DEF o, x, K, fresh, total, today, cost, actual, lo, hi, Good
  \* Whatever candidate the new baseline gets.
  <1>5. ASSUME NEW p \in Int, NEW b \in BOOLEAN, own => p = 0 \/ b \/ p \in lo .. hi,
               o = K(p, b)
        PROVE  Good
    <2>1. /\ x \in Rule /\ x.has /\ x.day = now0 /\ x.cost = u.cost /\ x.actual = u.actual
          /\ x.epoch = u.epoch /\ x.id = id /\ x.cand = p /\ x.blind = b /\ x.key = 0
          /\ x.tmpl = "usage"
      <3>1. x = [kept EXCEPT !.cand = p, !.blind = b, !.tmpl = "usage", !.key = 0]
        BY <1>4, <1>5 DEF Rule, x, K
      <3> QED
        BY <1>4, <3>1 DEF Rule, Templates
    <2>2. RuleOK(x, u, id, d)
      BY <2>1, <1>1 DEF RuleOK, OfOneTemplate
    <2>3. own => Backed(x, u.seen)
      BY <2>1, <1>5 DEF Backed, lo, hi
    <2>4. Within(u.cost - u.cost, u.actual - u.actual, u.seen)
      BY <1>1 DEF Within, lo, hi
    <2>5. own => TrueTo(x, u, id)
      BY <2>1, <2>4, <1>1, <1>5 DEF TrueTo, lo, hi
    <2> QED
      BY <2>1, <2>2, <2>3, <2>5 DEF Good, Fits
  <1>16. ASSUME NEW p \in Int, own => p = 0 \/ p \in lo .. hi,
                o = K(p, FALSE)
         PROVE  Good
    <2>1. FALSE \in BOOLEAN
      OBVIOUS
    <2> QED
      BY <1>5, <1>16, <2>1
  <1>17. o = K(0, FALSE) => Good
    <2> DEFINE none == 0
    <2>1. none \in Int /\ none = 0
      OBVIOUS
    <2> HIDE DEF none
    <2> QED
      BY <1>16, <2>1
  <1>11. CASE StartsOver(c, now0, today)
    <2>1. CASE total > 0
      <3>1. o = K(total, FALSE)
        BY <1>7, <1>8, <1>9, <1>11, <2>1
      <3> QED
        BY <2>1, <3>1, <1>16, <1>6
    <2>2. CASE ~(total > 0)
      <3>1. o = K(0, FALSE)
        BY <1>7, <1>8, <1>9, <1>11, <2>2
      <3> QED
        BY <3>1, <1>17
    <2> QED
      BY <2>1, <2>2
  <1>12. ASSUME ~StartsOver(c, now0, today)
         PROVE  /\ c.has /\ c.cost <= u.cost /\ c.actual <= u.actual
                /\ Overtaken(c, now0, today) <=> c.epoch # u.epoch
    <2>1. c.has /\ c.day = now0 /\ ~(u.cost < c.cost) /\ ~(u.actual < c.actual)
      BY <1>12 DEF StartsOver, usageCounterRegressed, today
    <2> QED
      BY <1>1, <1>3, <2>1 DEF Overtaken, today
  <1>13. CASE ~StartsOver(c, now0, today) /\ cost <= 0
    <2>1. CASE total > 0
      <3>1. o = K(total, FALSE)
        BY <1>7, <1>8, <1>9, <1>13, <2>1
      <3> QED
        BY <2>1, <3>1, <1>16, <1>6
    <2>2. CASE ~(total > 0)
      <3>1. o = K(c.cand, kept.blind)
        BY <1>7, <1>8, <1>9, <1>13, <2>2
      <3>2. own => c.cand = 0 \/ kept.blind \/ c.cand \in lo .. hi
        BY <1>1, <1>2, <1>3, <1>4, <1>12, <1>13 DEF TrueTo, lo, hi, cost
      <3>3. kept.blind \in BOOLEAN
        BY <1>4 DEF Rule
      <3> QED
        BY <3>1, <3>2, <3>3, <1>3, <1>5
    <2> QED
      BY <2>1, <2>2
  <1>14. CASE ~StartsOver(c, now0, today) /\ ~(cost <= 0) /\ actual <= 0
    <2>1. CASE total > 0
      <3>1. o = K(total, FALSE)
        BY <1>7, <1>8, <1>9, <1>14, <2>1
      <3> QED
        BY <2>1, <3>1, <1>16, <1>6
    <2>2. CASE ~(total > 0)
      <3>1. o = K(0, FALSE)
        BY <1>7, <1>8, <1>9, <1>14, <2>2
      <3> QED
        BY <3>1, <1>17
    <2> QED
      BY <2>1, <2>2
  <1>15. CASE ~StartsOver(c, now0, today) /\ ~(cost <= 0) /\ ~(actual <= 0)
    <2> DEFINE q == actual \div cost
    <2>1. cost \in Nat \ {0} /\ actual \in Nat
      BY <1>1, <1>3, <1>12, <1>15 DEF cost, actual
    <2>2. q \in Int
      BY <2>1
    <2>3. own /\ c.epoch = u.epoch => q \in lo .. hi
      <3>1. CASE own /\ c.epoch = u.epoch
        <4>1. Within(cost, actual, u.seen)
          BY <1>2, <1>12, <1>15, <3>1 DEF TrueTo, cost, actual
        <4> QED
          <5>1. cost * lo <= actual /\ actual <= cost * hi
            BY <4>1 DEF Within, lo, hi
          <5> QED
            BY <2>1, <5>1, <1>1, Quotient
      <3> QED
        BY <3>1
    <2> HIDE DEF q
    <2>4. CASE q <= 0
      <3>1. o = fresh
        BY <1>9, <1>15, <2>4 DEF q
      <3> QED
        BY <3>1, <1>17, <1>7
    <2>5. CASE ~(q <= 0)
      <3>1. o = [observeRate(kept, q) EXCEPT !.blind = Overtaken(c, now0, today)]
        BY <1>9, <1>15, <2>5 DEF q
      <3>2. o = K(q, Overtaken(c, now0, today))
        <4>1. \A y \in Rule, b \in BOOLEAN :
                [[y EXCEPT !.cand = q, !.blind = FALSE] EXCEPT !.blind = b]
                  = [y EXCEPT !.cand = q, !.blind = b]
          BY DEF Rule
        <4>2. Overtaken(c, now0, today) \in BOOLEAN
          BY DEF Overtaken
        <4> QED
          BY <3>1, <4>1, <4>2, <1>4, <1>7 DEF K
      <3>3. Overtaken(c, now0, today) \in BOOLEAN
        BY DEF Overtaken
      <3>4. own => q = 0 \/ Overtaken(c, now0, today) \/ q \in lo .. hi
        BY <2>3, <1>12, <1>15
      <3> QED
        BY <3>2, <3>3, <3>4, <2>2, <1>5
    <2> QED
      BY <2>4, <2>5
  <1> QED
    BY <1>11, <1>13, <1>14, <1>15

LEMMA FollowsOn ==
  ASSUME NEW x, NEW c, NEW r, Follows(x, c), Follows(c, r)
  PROVE  Follows(x, r)
  BY DEF Follows

\* A template starts from a rule of its own.
LEMMA Copies ==
  ASSUME NEW r \in Rule, OfOneTemplate(r), NEW t \in {"billing", "newapi"},
         NEW c, c = CopyFor(r, t)
  PROVE  Follows(c, r) /\ (t = "billing" => c.key = 0)
  <1>1. CASE r.tmpl = t
    BY <1>1 DEF CopyFor, Follows, OfOneTemplate
  <1>2. CASE r.tmpl # t
    <2>1. c = resetPriceKey(r)
      BY <1>2 DEF CopyFor
    <2> QED
      BY <2>1, KeyReset, Resets
  <1> QED
    BY <1>1, <1>2

Same(o, c) ==
  /\ o \in Rule /\ o.id = c.id /\ o.has = c.has /\ o.day = c.day
  /\ o.cost = c.cost /\ o.actual = c.actual /\ o.epoch = c.epoch

LEMMA Tagging ==
  ASSUME NEW c, OfOneTemplate(c), NEW o, Same(o, c), NEW t \in {"billing", "newapi"},
         t = "billing" => o.key = 0, NEW x, x = [o EXCEPT !.tmpl = t]
  PROVE  Follows(x, c) /\ x.cand = o.cand
  <1>1. /\ x \in Rule /\ x.tmpl = t /\ x.key = o.key
        /\ x.id = o.id /\ x.has = o.has /\ x.day = o.day /\ x.cand = o.cand
        /\ x.cost = o.cost /\ x.actual = o.actual /\ x.epoch = o.epoch
    <2>1. o \in Rule /\ 0 \in Nat
      BY DEF Same
    <2> QED
      BY <2>1, Tagged
  <1> QED
    BY <1>1 DEF Same, Follows, OfOneTemplate

\* What a direct template makes of a rule, whatever the answer.
LEMMA DirectRules ==
  ASSUME NEW r \in Rule, OfOneTemplate(r), NEW t \in {"billing", "newapi"},
         NEW c, c = CopyFor(r, t),
         NEW p \in Nat, NEW g \in Nat, NEW table, g \in DOMAIN table => table[g] \in Nat,
         NEW o, \/ t = "billing" /\ o = Billed(c, p)
                \/ t = "newapi" /\ \/ o = Priced(c, table, g) \/ o = Logged(c, g, p)
                                   \/ o = MatchedBadly(c) \/ o = PricedWithoutLog(c, table),
         NEW x, x = [o.rule EXCEPT !.tmpl = t]
  PROVE  /\ Follows(x, r) /\ x.cand = o.rule.cand
         /\ o = Billed(c, p) /\ o.fine => x.cand = p
         /\ o = Logged(c, g, p) /\ o.fine => x.cand = p
         /\ o = Priced(c, table, g) /\ o.fine => g \in DOMAIN table /\ x.cand = table[g]
  <1>1. Follows(c, r) /\ c \in Rule /\ OfOneTemplate(c) /\ (t = "billing" => c.key = 0)
    BY Copies DEF Follows
  <1> HIDE DEF Rule
  <1>2. \A q \in Nat : Same(observeRate(c, q), c) /\ observeRate(c, q).key = c.key
                     /\ observeRate(c, q).cand = q
    BY <1>1, Observed DEF Same
  <1>3. /\ Same(resetCandidate(c), c) /\ resetCandidate(c).key = c.key
        /\ Same(resetPriceKey(c), c) /\ resetPriceKey(c).key = 0
        /\ Same(resetCandidate(resetPriceKey(c)), c) /\ resetCandidate(resetPriceKey(c)).key = 0
    BY <1>1, CandidateReset, KeyReset DEF Same
  <1>4. Same([c EXCEPT !.key = g], c)
    BY <1>1, Tagged DEF Same
  <1>5. /\ Same(resetCandidate([c EXCEPT !.key = g]), c)
        /\ \A q \in Nat : /\ Same(observeRate([c EXCEPT !.key = g], q), c)
                         /\ observeRate([c EXCEPT !.key = g], q).cand = q
    <2> DEFINE y == [c EXCEPT !.key = g]
    <2>1. y \in Rule /\ Same(y, c)
      BY <1>4 DEF Same
    <2> HIDE DEF y
    <2>2. Same(resetCandidate(y), c)
      BY <2>1, CandidateReset DEF Same
    <2>3. ASSUME NEW q \in Nat
          PROVE  Same(observeRate(y, q), c) /\ observeRate(y, q).cand = q
      BY <2>1, Observed DEF Same
    <2> QED
      BY <2>2, <2>3 DEF y
  <1>6. \A y : /\ Matched(y).rule = y
               /\ MatchedBadly(y).rule = resetCandidate(y) /\ ~MatchedBadly(y).fine
    BY DEF Matched, MatchedBadly
  <1>7. Same(o.rule, c) /\ (t = "billing" => o.rule.key = 0)
    <2>1. CASE t = "billing" /\ o = Billed(c, p)
      BY <2>1, <1>1, <1>2, <1>3, <1>6 DEF Billed
    <2>2. CASE t = "newapi" /\ o = Priced(c, table, g)
      BY <2>2, <1>1, <1>2, <1>3, <1>5, <1>6 DEF Priced
    <2>3. CASE t = "newapi" /\ o = Logged(c, g, p)
      BY <2>3, <1>1, <1>3, <1>5, <1>6 DEF Logged
    <2>4. CASE t = "newapi" /\ (o = MatchedBadly(c) \/ o = PricedWithoutLog(c, table))
      BY <2>4, <1>1, <1>3, <1>6 DEF PricedWithoutLog
    <2> QED
      BY <2>1, <2>2, <2>3, <2>4
  <1>8. Follows(x, c) /\ x.cand = o.rule.cand
    BY <1>1, <1>7, Tagging
  <1>9. o = Billed(c, p) /\ o.fine => o.rule.cand = p
    BY <1>2, <1>6 DEF Billed
  <1>10. o = Logged(c, g, p) /\ o.fine => o.rule.cand = p
    BY <1>5, <1>6 DEF Logged
  <1>11. o = Priced(c, table, g) /\ o.fine => g \in DOMAIN table /\ o.rule.cand = table[g]
    BY <1>5, <1>6 DEF Priced
  <1> QED
    BY <1>1, <1>8, <1>9, <1>10, <1>11, FollowsOn

\* Usage is asked with the rule of its own, or with no candidate.
LEMMA FailedRule ==
  ASSUME NEW r \in Rule, OfOneTemplate(r), NEW f \in Rule, OfOneTemplate(f),
         f = NoRule \/ Follows(f, r)
  PROVE  LET x == DirectFailed(r, f)
         IN  x = r \/ Follows(x, r)
  <1>1. CASE r.tmpl = "usage"
    BY <1>1 DEF DirectFailed
  <1>2. CASE r.tmpl # "usage" /\ f = NoRule
    BY <1>2, Resets DEF DirectFailed
  <1>3. CASE r.tmpl # "usage" /\ f # NoRule
    <2>1. Follows(resetCandidate(f), f)
      BY Resets
    <2> QED
      BY <1>3, <2>1, FollowsOn DEF DirectFailed
  <1> QED
    BY <1>1, <1>2, <1>3

-----------------------------------------------------------------------------
(* What happens upstream.                                                    *)

LEMMA MovesFit ==
  ASSUME NEW u \in Upstream, NEW v \in Upstream, NEW id \in Nat, NEW id2 \in Nat, NEW d \in Nat,
         NEW d2 \in Nat, NEW own, id <= id2, d <= d2, u.epoch <= v.epoch,
         own => \/ id2 # id \/ v.epoch # u.epoch
                \/ v.cost = u.cost /\ v.actual = u.actual /\ v.seen = u.seen
                \/ \E p \in Prices : /\ v.cost = u.cost + 1 /\ v.actual = u.actual + p
                                     /\ v.seen = With(u.seen, p),
         NEW r, Fits(r, u, id, d, own)
  PROVE  Fits(r, v, id2, d2, own)
  <1>1. RuleOK(r, v, id2, d2)
    <2>1. /\ r \in Rule /\ OfOneTemplate(r) /\ r.day <= d /\ r.id <= id /\ r.epoch <= u.epoch
      BY DEF Fits, RuleOK
    <2>2. r.day \in Nat /\ r.id \in Int /\ r.epoch \in Nat /\ u.epoch \in Nat /\ v.epoch \in Nat
      BY <2>1 DEF Rule, Upstream
    <2> QED
      BY <2>1, <2>2 DEF RuleOK
  <1>2. ASSUME own, r.id = id2, r.has, r.epoch = v.epoch
        PROVE  /\ r.cost <= v.cost /\ r.actual <= v.actual
               /\ Within(v.cost - r.cost, v.actual - r.actual, v.seen)
               /\ r.tmpl = "usage" /\ r.cand # 0 /\ ~r.blind => r.cand \in v.seen.lo .. v.seen.hi
    <2>1. /\ r \in Rule /\ r.id <= id /\ r.epoch <= u.epoch /\ TrueTo(r, u, id)
      BY <1>2 DEF Fits, RuleOK
    <2>2. /\ r.id \in Int /\ r.epoch \in Nat /\ r.cost \in Nat /\ r.actual \in Nat /\ r.cand \in Int
      BY <2>1 DEF Rule
    <2>3. /\ u.epoch \in Nat /\ v.epoch \in Nat /\ u.cost \in Nat /\ u.actual \in Nat
          /\ u.seen \in Pricing
      BY DEF Upstream
    <2>4. id2 = id /\ v.epoch = u.epoch /\ r.id = id /\ r.epoch = u.epoch
      BY <1>2, <2>1, <2>2, <2>3
    <2>5. /\ r.cost <= u.cost /\ r.actual <= u.actual
          /\ Within(u.cost - r.cost, u.actual - r.actual, u.seen)
          /\ r.tmpl = "usage" /\ r.cand # 0 /\ ~r.blind => r.cand \in u.seen.lo .. u.seen.hi
      BY <1>2, <2>1, <2>4 DEF TrueTo
    <2>6. CASE v.cost = u.cost /\ v.actual = u.actual /\ v.seen = u.seen
      BY <2>5, <2>6
    <2>7. ASSUME NEW p \in Prices, v.cost = u.cost + 1, v.actual = u.actual + p,
                 v.seen = With(u.seen, p)
          PROVE  /\ r.cost <= v.cost /\ r.actual <= v.actual
                 /\ Within(v.cost - r.cost, v.actual - r.actual, v.seen)
                 /\ r.tmpl = "usage" /\ r.cand # 0 /\ ~r.blind => r.cand \in v.seen.lo .. v.seen.hi
      <3>1. p \in Nat
        BY AccountAssumption
      <3> DEFINE n == u.cost - r.cost
                 sum == u.actual - r.actual
      <3>2. n \in Nat /\ sum \in Nat /\ Within(n, sum, u.seen)
        BY <2>2, <2>3, <2>5
      <3> HIDE DEF n, sum
      <3>3. Within(n + 1, sum + p, v.seen)
        BY <3>2, <2>3, <2>7, WithinGrows
      <3>4. v.cost - r.cost = n + 1 /\ v.actual - r.actual = sum + p
        BY <2>2, <2>3, <2>7, <3>1 DEF n, sum
      <3>5. r.tmpl = "usage" /\ r.cand # 0 /\ ~r.blind => r.cand \in v.seen.lo .. v.seen.hi
        <4>1. CASE u.seen = NoProof
          BY <4>1, <2>2, <2>5 DEF NoProof
        <4>2. CASE u.seen # NoProof
          <5>1. /\ v.seen.lo <= u.seen.lo /\ u.seen.hi <= v.seen.hi
                /\ v.seen \in Pricing
            BY <4>2, <2>3, <2>7, WithKeeps
          <5>2. v.seen.lo \in Nat /\ v.seen.hi \in Nat /\ u.seen.lo \in Nat /\ u.seen.hi \in Nat
            BY <5>1, <2>3, PricingFacts
          <5> QED
            BY <5>1, <5>2, <2>2, <2>5
        <4> QED
          BY <4>1, <4>2
      <3> QED
        BY <3>1, <3>3, <3>4, <3>5, <2>2, <2>3, <2>5, <2>7
    <2> QED
      BY <1>2, <2>4, <2>6, <2>7
  <1> QED
    BY <1>1, <1>2 DEF Fits, TrueTo

-----------------------------------------------------------------------------
(* The invariant.                                                            *)

Tables == {<<>>} \cup [Keys \ Unlisted -> Prices]
Asking == {"billing", "pricing", "log", "usage"}
Checks == [step : Asking \cup {"none", "apply", "done"}, failed : Rule, table : Tables]
Balance == [bal : Int, cost : Int, reqs : Int]
Rounds == [todo : SUBSET Accounts, seen : SUBSET Balance, missing : BOOLEAN, err : BOOLEAN]
Evidence == Pricing \cup {Anything}

\* What would be written is what the cycle saw.
Ready(r, e) == r.cand # 0 => e = Anything \/ r.cand \in e.lo .. e.hi

\* A check and the rule of its account: the rule is of the credentials that are
\* asked with, a failed template left the baseline alone, and a candidate is
\* applied with its evidence.
CheckFits(c, r, id, e, own) ==
  /\ c.failed = NoRule \/ (c.step \in {"pricing", "log"} /\ Follows(c.failed, r))
  /\ c.step \in Asking => r.id = id /\ e # Anything
  /\ c.step = "apply" /\ own => Ready(r, e)

Own(a) == a \in Accounts \ env.shared
Fit(r, a) == Fits(r, up[a], ident[a], day, Own(a))

WorldOK ==
  /\ up \in [Accounts -> Upstream] /\ ident \in [Accounts -> Nat \ {0}]
  /\ day \in Nat \ {0} /\ rows \in Seq(Accounts) /\ shared \in Balance
  /\ \A a \in Accounts : Own(a) => Within(up[a].cost, up[a].actual, up[a].seen)

CycleOK ==
  /\ pc \in {"idle", "probe", "apply", "admit", "collect", "save"}
  /\ now \in 0..day /\ (pc # "idle" => alive /\ now # 0)
  /\ probe \in Rounds /\ acct \in [Accounts -> Int]

FileOK(f) ==
  f \in State /\ f.host.mark <= Len(rows) /\ \A a \in Accounts : Fit(f.rules[a], a)
FilesOK == FileOK(mem) /\ FileOK(disk) /\ mem.version = 6

ChecksOK ==
  /\ chk \in [Channels -> Checks] /\ proof \in [Accounts -> Evidence]
  /\ \A i \in Channels :
       LET a == AccountOf(i) IN CheckFits(chk[i], mem.rules[a], ident[a], proof[a], Own(a))
  /\ \A a \in Accounts : proof[a] = Anything => a \in SeenAccounts

RatesInv == ChecksInv /\ WorldOK /\ CycleOK /\ FilesOK /\ ChecksOK

LEMMA ChannelAccounts ==
  ASSUME ChecksInv, NEW i \in Channels
  PROVE  AccountOf(i) \in Accounts
  <1>1. env.channels \in Seq(Accounts)
    BY EnvironmentAssumption DEF ChecksInv
  <1> QED
    BY <1>1 DEF Channels, AccountOf

LEMMA SharingAccounts ==
  ASSUME ChecksInv
  PROVE  Sharing \subseteq Accounts /\ \A a \in Sharing : ~Own(a)
  <1>1. \A i \in Automatic : i \in Channels
    BY DEF Automatic
  <1> QED
    BY <1>1, ChannelAccounts DEF Sharing, Own

LEMMA ListedAccounts ==
  ASSUME ChecksInv
  PROVE  Listed \subseteq Accounts
  BY ChannelAccounts DEF Listed

\* A channel without a check under way asks nothing of a rule.
LEMMA RestFits ==
  ASSUME NEW c, c.failed = NoRule, c.step \in {"none", "done"}, NEW r, NEW id, NEW e, NEW own
  PROVE  CheckFits(c, r, id, e, own)
  BY DEF CheckFits, Asking

LEMMA Resting ==
  ASSUME ChecksOK, Running = {}, NEW i \in Channels, NEW r, NEW id, NEW e, NEW own
  PROVE  CheckFits(chk[i], r, id, e, own)
  <1>1. chk[i].step \in {"none", "done"}
    BY DEF Running
  <1>2. chk[i].failed = NoRule
    BY <1>1 DEF ChecksOK, CheckFits
  <1> QED
    BY <1>1, <1>2, RestFits

\* The accounts of checks that were started.
LEMMA SeenKept ==
  ASSUME UNCHANGED <<env, chk>>
  PROVE  SeenAccounts' = SeenAccounts /\ Channels' = Channels /\ Running' = Running
  BY DEF SeenAccounts, AccountOf, Running, Done, Channels

LEMMA NoRuleIs ==
  NoRule \in Rule /\ OfOneTemplate(NoRule) /\ ~NoRule.has /\ NoRule.epoch = 0 /\ NoRule.id <= 1
  <1> DEFINE n == -1
  <1>1. n \in Int
    OBVIOUS
  <1>6. n <= 1
    OBVIOUS
  <1>7. NoRule = [newRule(0) EXCEPT !.id = n]
    BY DEF NoRule
  <1> HIDE DEF n
  <1>2. NoRule = [id |-> n, tmpl |-> "none", key |-> 0, has |-> FALSE, day |-> 0, cost |-> 0,
                  actual |-> 0, epoch |-> 0, cand |-> 0, blind |-> FALSE]
    BY <1>7 DEF newRule
  <1>3. NoRule \in Rule
    BY <1>1, <1>2 DEF Rule, Templates
  <1>4. ~NoRule.has
    BY <1>2
  <1>5. NoRule.key = 0 /\ NoRule.day = 0 /\ NoRule.epoch = 0 /\ NoRule.id = n
    BY <1>2
  <1> QED
    BY <1>3, <1>4, <1>5, <1>6 DEF OfOneTemplate

LEMMA NoCheckIs ==
  /\ NoCheck \in Checks /\ NoCheck.step = "none" /\ NoCheck.failed = NoRule
  /\ \A s \in Asking \cup {"none", "apply", "done"} :
       LET c == [NoCheck EXCEPT !.step = s]
       IN  c \in Checks /\ c.step = s /\ c.failed = NoRule
  <1>1. NoRule \in Rule
    BY NoRuleIs
  <1> HIDE DEF NoRule
  <1>2. NoCheck = [step |-> "none", failed |-> NoRule, table |-> <<>>]
    BY DEF NoCheck
  <1> QED
    BY <1>1, <1>2 DEF Checks, Tables, Asking

LEMMA NoProofIs == NoProof \in Evidence /\ NoProof # Anything /\ NoProof \in Pricing
  <1>1. NoProof.lo # Anything.lo
    BY DEF NoProof, Anything
  <1> QED
    BY <1>1 DEF Evidence, Pricing

-----------------------------------------------------------------------------
(* What happens around the process.                                          *)

\* What the upstream of an own account tells changes by its requests, or starts
\* anew.
Moves(u, v, own) ==
  /\ u.epoch <= v.epoch
  /\ own => /\ Within(v.cost, v.actual, v.seen)
            /\ \/ v.epoch # u.epoch
               \/ v.cost = u.cost /\ v.actual = u.actual /\ v.seen = u.seen
               \/ \E p \in Prices : /\ v.cost = u.cost + 1 /\ v.actual = u.actual + p
                                    /\ v.seen = With(u.seen, p)

WorldMoves ==
  /\ Around
  /\ up' \in [Accounts -> Upstream] /\ ident' \in [Accounts -> Nat \ {0}]
  /\ day' \in Nat \ {0} /\ day <= day'
  /\ rows' \in Seq(Accounts) /\ Len(rows) <= Len(rows') /\ shared' \in Balance
  /\ \/ ident' = ident /\ \A a \in Accounts : Moves(up[a], up'[a], Own(a))
     \/ /\ Running = {}
        /\ \E b \in Accounts :
             /\ ident' = [ident EXCEPT ![b] = @ + 1]
             /\ up'[b].epoch = up[b].epoch
             /\ Own(b) => Within(up'[b].cost, up'[b].actual, up'[b].seen)
             /\ \A a \in Accounts \ {b} : up'[a] = up[a]

LEMMA WorldKeepsInv ==
  ASSUME RatesInv, WorldMoves, ChecksInv'
  PROVE  RatesInv'
  <1>1. /\ UNCHANGED <<env, acct, disk, mem, alive, stop, pc, now, probe, chk, proof>>
        /\ \A a : Own(a)' = Own(a) /\ AccountOf(a)' = AccountOf(a)
    BY DEF WorldMoves, Around, cycle, Own, AccountOf
  <1>2. ASSUME NEW a \in Accounts
        PROVE  /\ up[a] \in Upstream /\ up'[a] \in Upstream
               /\ ident[a] \in Nat /\ ident'[a] \in Nat /\ ident[a] <= ident'[a]
               /\ up[a].epoch <= up'[a].epoch
               /\ Own(a) => Within(up'[a].cost, up'[a].actual, up'[a].seen)
               /\ Own(a) => \/ ident'[a] # ident[a] \/ up'[a].epoch # up[a].epoch
                            \/ /\ up'[a].cost = up[a].cost /\ up'[a].actual = up[a].actual
                               /\ up'[a].seen = up[a].seen
                            \/ \E p \in Prices : /\ up'[a].cost = up[a].cost + 1
                                                 /\ up'[a].actual = up[a].actual + p
                                                 /\ up'[a].seen = With(up[a].seen, p)
    <2>1. /\ up[a] \in Upstream /\ up'[a] \in Upstream
          /\ ident[a] \in Nat /\ ident'[a] \in Nat
          /\ Own(a) => Within(up[a].cost, up[a].actual, up[a].seen)
      BY DEF RatesInv, WorldOK, WorldMoves
    <2>2. CASE ident' = ident /\ \A b \in Accounts : Moves(up[b], up'[b], Own(b))
      <3>1. ident'[a] = ident[a] /\ Moves(up[a], up'[a], Own(a))
        BY <2>2
      <3> QED
        BY <2>1, <3>1 DEF Moves
    <2>3. ASSUME NEW b \in Accounts,
                 /\ ident' = [ident EXCEPT ![b] = @ + 1]
                 /\ up'[b].epoch = up[b].epoch
                 /\ Own(b) => Within(up'[b].cost, up'[b].actual, up'[b].seen)
                 /\ \A c \in Accounts \ {b} : up'[c] = up[c]
          PROVE  /\ ident[a] <= ident'[a] /\ up[a].epoch <= up'[a].epoch
                 /\ Own(a) => Within(up'[a].cost, up'[a].actual, up'[a].seen)
                 /\ ident'[a] # ident[a] \/ up'[a] = up[a]
      <3>1. ident \in [Accounts -> Nat \ {0}]
        BY DEF RatesInv, WorldOK
      <3>2. CASE a = b
        <4>1. ident'[a] = ident[a] + 1
          BY <2>3, <3>1, <3>2
        <4>2. up[a].epoch \in Nat
          BY <2>1 DEF Upstream
        <4> QED
          BY <2>1, <2>3, <3>2, <4>1, <4>2
      <3>3. CASE a # b
        <4>1. ident'[a] = ident[a] /\ up'[a] = up[a]
          BY <2>3, <3>1, <3>3
        <4>2. up[a].epoch \in Nat
          BY <2>1 DEF Upstream
        <4> QED
          BY <2>1, <4>1, <4>2
      <3> QED
        BY <3>2, <3>3
    <2> QED
      BY <2>1, <2>2, <2>3 DEF WorldMoves
  <1>3. day \in Nat /\ day' \in Nat /\ day <= day' /\ Len(rows) \in Nat /\ Len(rows') \in Nat
        /\ Len(rows) <= Len(rows')
    BY DEF RatesInv, WorldOK, WorldMoves
  <1>4. WorldOK'
    BY <1>1, <1>2 DEF WorldMoves, WorldOK
  <1>5. CycleOK'
    BY <1>1, <1>3 DEF RatesInv, CycleOK
  <1>6. ASSUME NEW a \in Accounts, NEW r, Fit(r, a)
        PROVE  Fit(r, a)'
    <2>1. Fits(r, up'[a], ident'[a], day', Own(a))
      <3> DEFINE own == Own(a)
      <3>1. Fits(r, up[a], ident[a], day, own)
        BY <1>6 DEF Fit
      <3>2. own => \/ ident'[a] # ident[a] \/ up'[a].epoch # up[a].epoch
                   \/ /\ up'[a].cost = up[a].cost /\ up'[a].actual = up[a].actual
                      /\ up'[a].seen = up[a].seen
                   \/ \E p \in Prices : /\ up'[a].cost = up[a].cost + 1
                                        /\ up'[a].actual = up[a].actual + p
                                        /\ up'[a].seen = With(up[a].seen, p)
        BY <1>2
      <3> HIDE DEF own
      <3>3. Fits(r, up'[a], ident'[a], day', own)
        BY <1>2, <1>3, <3>1, <3>2, MovesFit
      <3> QED
        BY <3>3 DEF own
    <2> QED
      BY <2>1, <1>1 DEF Fit
  <1>7. FilesOK'
    <2>1. ASSUME NEW f, FileOK(f)
          PROVE  FileOK(f)'
      <3>1. f.host.mark \in Nat
        BY <2>1 DEF FileOK, State, Host
      <3> QED
        BY <2>1, <3>1, <1>3, <1>6 DEF FileOK
    <2> QED
      BY <1>1, <2>1 DEF RatesInv, FilesOK
  <1>8. ChecksOK'
    <2>1. SeenAccounts' = SeenAccounts /\ Channels' = Channels /\ Running' = Running
      BY <1>1, SeenKept
    <2>2. ASSUME NEW i \in Channels
          PROVE  LET a == AccountOf(i)
                 IN  CheckFits(chk[i], mem.rules[a], ident'[a], proof[a], Own(a))
      <3>1. CASE Running = {}
        BY <3>1, Resting DEF RatesInv
      <3>2. CASE ident' = ident
        BY <3>2 DEF RatesInv, ChecksOK
      <3> QED
        BY <3>1, <3>2 DEF WorldMoves
    <2> QED
      BY <2>1, <2>2, <1>1 DEF RatesInv, ChecksOK
  <1> QED
    BY <1>4, <1>5, <1>7, <1>8 DEF RatesInv

\* A key that was used once more, and one whose counters start anew.
LEMMA CountedIs ==
  ASSUME NEW a, up[a] \in Upstream, NEW price \in Prices, up[a].group \in Keys
  PROVE  LET v == Counted(a, price)
         IN  /\ v \in Upstream /\ v.epoch = up[a].epoch /\ v.cost = up[a].cost + 1
             /\ v.actual = up[a].actual + price /\ v.seen = With(up[a].seen, price)
  <1> DEFINE u == up[a]
             c == u.cost + 1
             t == u.actual + price
             s == With(u.seen, price)
             l == [group |-> u.group, ratio |-> price]
             x == [u EXCEPT !.log = l]
             y == [x EXCEPT !.cost = c, !.actual = t]
  <1>1. Counted(a, price) = [u EXCEPT !.cost = c, !.actual = t, !.seen = s, !.log = l]
    BY DEF Counted
  <1>2. c \in Nat /\ t \in Nat /\ s \in Pricing /\ l \in [group : Keys, ratio : Prices]
    BY AccountAssumption, WithKeeps DEF Upstream
  <1>3. u \in Upstream
    OBVIOUS
  <1> HIDE DEF u, c, t, s, l
  <1>4. x \in Upstream /\ x.epoch = u.epoch
    BY <1>2, <1>3 DEF Upstream
  <1>5. Counted(a, price) = [y EXCEPT !.seen = s]
    BY <1>1, <1>3 DEF Upstream
  <1> HIDE DEF x
  <1>6. y \in Upstream /\ y.epoch = u.epoch /\ y.cost = c /\ y.actual = t
    BY <1>2, <1>4 DEF Upstream
  <1> HIDE DEF y
  <1>7. LET v == Counted(a, price)
        IN  v \in Upstream /\ v.epoch = u.epoch /\ v.cost = c /\ v.actual = t /\ v.seen = s
    BY <1>2, <1>5, <1>6 DEF Upstream
  <1> QED
    BY <1>7 DEF u, c, t, s

LEMMA AnewIs ==
  ASSUME NEW a \in Accounts, up[a] \in Upstream
  PROVE  LET v == Anew(a)
         IN  /\ v \in Upstream /\ v.epoch = up[a].epoch /\ v.cost = 0 /\ v.actual = 0
             /\ Own(a) => v.seen = NoProof
  <1> DEFINE u == up[a]
             s == IF a \in env.shared THEN u.seen ELSE NoProof
             none == 0
             y == [u EXCEPT !.cost = none, !.actual = none]
  <1>1. Anew(a) = [u EXCEPT !.cost = none, !.actual = none, !.seen = s]
    BY DEF Anew
  <1>2. s \in Pricing /\ none \in Nat /\ (Own(a) => s = NoProof)
    BY NoProofIs DEF Upstream, Own
  <1>3. u \in Upstream
    OBVIOUS
  <1> HIDE DEF u, s, none
  <1>4. Anew(a) = [y EXCEPT !.seen = s]
    BY <1>1
  <1>5. y \in Upstream /\ y.epoch = u.epoch /\ y.cost = none /\ y.actual = none
    BY <1>2, <1>3 DEF Upstream
  <1> HIDE DEF y
  <1>6. LET v == Anew(a)
        IN  v \in Upstream /\ v.epoch = u.epoch /\ v.cost = none /\ v.actual = none /\ v.seen = s
    BY <1>2, <1>4, <1>5 DEF Upstream
  <1> QED
    BY <1>2, <1>6 DEF u, none

\* The upstream of one account changes.
LEMMA OneUpstream ==
  ASSUME RatesInv, NEW a \in Accounts, NEW v \in Upstream,
         Around, up' = [up EXCEPT ![a] = v], UNCHANGED <<ident, day>>,
         Moves(up[a], v, Own(a)),
         rows' \in Seq(Accounts), Len(rows) <= Len(rows'), shared' \in Balance
  PROVE  WorldMoves
  <1>1. /\ up \in [Accounts -> Upstream] /\ ident \in [Accounts -> Nat \ {0}] /\ day \in Nat \ {0}
        /\ \A b \in Accounts : Own(b) => Within(up[b].cost, up[b].actual, up[b].seen)
    BY DEF RatesInv, WorldOK
  <1>2. up' \in [Accounts -> Upstream] /\ \A b \in Accounts : up'[b] = IF b = a THEN v ELSE up[b]
    BY <1>1
  <1>3. ASSUME NEW b \in Accounts
        PROVE  Moves(up[b], up'[b], Own(b))
    <2>1. CASE b = a
      BY <1>2, <2>1
    <2>2. CASE b # a
      <3>1. up[b].epoch \in Nat
        BY <1>1 DEF Upstream
      <3> QED
        BY <1>1, <1>2, <2>2, <3>1 DEF Moves
    <2> QED
      BY <2>1, <2>2
  <1> QED
    BY <1>1, <1>2, <1>3 DEF WorldMoves

\* No upstream changes.
LEMMA NoUpstream ==
  ASSUME RatesInv, Around, UNCHANGED <<up, ident, rows>>,
         day' \in Nat \ {0}, day <= day', shared' \in Balance
  PROVE  WorldMoves
  <1>1. /\ up \in [Accounts -> Upstream] /\ ident \in [Accounts -> Nat \ {0}]
        /\ rows \in Seq(Accounts)
        /\ \A b \in Accounts : Own(b) => Within(up[b].cost, up[b].actual, up[b].seen)
    BY DEF RatesInv, WorldOK
  <1>2. ASSUME NEW b \in Accounts
        PROVE  Moves(up[b], up'[b], Own(b))
    <2>1. up[b].epoch \in Nat
      BY <1>1 DEF Upstream
    <2> QED
      BY <1>1, <2>1 DEF Moves
  <1> QED
    BY <1>1, <1>2 DEF WorldMoves

LEMMA RequestMoves ==
  ASSUME RatesInv, NEW a \in Listed, Request(a)
  PROVE  WorldMoves
  <1> DEFINE u == up[a]
             price == u.price[u.group]
             v == Counted(a, price)
  <1>1. a \in Accounts
    BY ListedAccounts DEF RatesInv
  <1>2. u \in Upstream /\ rows \in Seq(Accounts) /\ shared \in Balance
    BY <1>1 DEF RatesInv, WorldOK
  <1>3. /\ u.group \in Keys /\ price \in Prices /\ u.cost \in Nat /\ u.actual \in Nat
        /\ u.seen \in Pricing /\ u.epoch \in Nat
    BY <1>2 DEF Upstream
  <1>4. price \in Nat
    BY <1>3, AccountAssumption
  <1>5. /\ Around /\ UNCHANGED <<ident, day>> /\ up' = [up EXCEPT ![a] = v]
        /\ \/ /\ rows' = Append(rows, a)
              /\ shared' = [bal |-> shared.bal - price, cost |-> shared.cost + price,
                            reqs |-> shared.reqs + 1]
           \/ UNCHANGED <<rows, shared>>
    BY DEF Request
  <1>6. /\ v \in Upstream /\ v.epoch = u.epoch /\ v.cost = u.cost + 1
        /\ v.actual = u.actual + price /\ v.seen = With(u.seen, price)
    BY <1>2, <1>3, CountedIs
  <1> HIDE DEF v, price
  <1>7. Moves(u, v, Own(a))
    <2>1. ASSUME Own(a)
          PROVE  Within(u.cost + 1, u.actual + price, With(u.seen, price))
      <3>1. Within(u.cost, u.actual, u.seen)
        BY <1>1, <2>1 DEF RatesInv, WorldOK
      <3> HIDE DEF u
      <3> QED
        BY <1>3, <3>1, WithinGrows
    <2> QED
      BY <1>3, <1>6, <2>1 DEF Moves
  <1>8. rows' \in Seq(Accounts) /\ Len(rows) <= Len(rows')
    BY <1>1, <1>2, <1>5
  <1>9. shared' \in Balance
    BY <1>2, <1>4, <1>5 DEF Balance
  <1> QED
    BY <1>1, <1>5, <1>6, <1>7, <1>8, <1>9, OneUpstream

\* Prices, groups and what is offered are no counters.
LEMMA TermsMove ==
  ASSUME RatesInv, NEW a \in Listed, NewPrice(a) \/ NewGroup(a) \/ NewOffers(a)
  PROVE  WorldMoves
  <1> DEFINE u == up[a]
  <1>1. a \in Accounts
    BY ListedAccounts DEF RatesInv
  <1>2. /\ up \in [Accounts -> Upstream] /\ u \in Upstream /\ rows \in Seq(Accounts)
        /\ shared \in Balance /\ (Own(a) => Within(u.cost, u.actual, u.seen))
    BY <1>1 DEF RatesInv, WorldOK
  <1>3. Around /\ UNCHANGED <<ident, day, rows, shared>>
    BY DEF NewPrice, NewGroup, NewOffers
  <1>4. \E v : /\ up' = [up EXCEPT ![a] = v] /\ v \in Upstream
               /\ v.epoch = u.epoch /\ v.cost = u.cost /\ v.actual = u.actual /\ v.seen = u.seen
    <2>1. ASSUME NewPrice(a)
          PROVE  \E v : /\ up' = [up EXCEPT ![a] = v] /\ v \in Upstream
                        /\ v.epoch = u.epoch /\ v.cost = u.cost /\ v.actual = u.actual
                        /\ v.seen = u.seen
      <3>1. PICK k \in Keys, price \in Prices : up' = [up EXCEPT ![a].price[k] = price]
        BY <2>1 DEF NewPrice
      <3> DEFINE prices == [u.price EXCEPT ![k] = price]
                 v == [u EXCEPT !.price = prices]
      <3>2. prices \in [Keys -> Prices]
        BY <1>2 DEF Upstream
      <3>3. up' = [up EXCEPT ![a] = v]
        BY <1>1, <1>2, <3>1
      <3> HIDE DEF u, prices
      <3>4. /\ v \in Upstream
            /\ v.epoch = u.epoch /\ v.cost = u.cost /\ v.actual = u.actual /\ v.seen = u.seen
        BY <1>2, <3>2 DEF Upstream
      <3> QED
        BY <3>3, <3>4
    <2>2. ASSUME NewGroup(a)
          PROVE  \E v : /\ up' = [up EXCEPT ![a] = v] /\ v \in Upstream
                        /\ v.epoch = u.epoch /\ v.cost = u.cost /\ v.actual = u.actual
                        /\ v.seen = u.seen
      <3>1. PICK k \in Keys : up' = [up EXCEPT ![a].group = k]
        BY <2>2 DEF NewGroup
      <3> DEFINE v == [u EXCEPT !.group = k]
      <3>2. up' = [up EXCEPT ![a] = v]
        BY <1>1, <1>2, <3>1
      <3> HIDE DEF u
      <3>3. /\ v \in Upstream
            /\ v.epoch = u.epoch /\ v.cost = u.cost /\ v.actual = u.actual /\ v.seen = u.seen
        BY <1>2 DEF Upstream
      <3> QED
        BY <3>2, <3>3
    <2>3. ASSUME NewOffers(a)
          PROVE  \E v : /\ up' = [up EXCEPT ![a] = v] /\ v \in Upstream
                        /\ v.epoch = u.epoch /\ v.cost = u.cost /\ v.actual = u.actual
                        /\ v.seen = u.seen
      <3>1. PICK offers \in env.offers : up' = [up EXCEPT ![a].offers = offers]
        BY <2>3 DEF NewOffers
      <3> DEFINE v == [u EXCEPT !.offers = offers]
      <3>2. offers \in SUBSET Interfaces
        BY EnvironmentAssumption DEF RatesInv, ChecksInv
      <3>3. up' = [up EXCEPT ![a] = v]
        BY <1>1, <1>2, <3>1
      <3> HIDE DEF u
      <3>4. /\ v \in Upstream
            /\ v.epoch = u.epoch /\ v.cost = u.cost /\ v.actual = u.actual /\ v.seen = u.seen
        BY <1>2, <3>2 DEF Upstream
      <3> QED
        BY <3>3, <3>4
    <2> QED
      BY <2>1, <2>2, <2>3
  <1>5. PICK v : /\ up' = [up EXCEPT ![a] = v] /\ v \in Upstream
                 /\ v.epoch = u.epoch /\ v.cost = u.cost /\ v.actual = u.actual /\ v.seen = u.seen
    BY <1>4
  <1>6. Moves(u, v, Own(a))
    <2>1. u.epoch \in Nat
      BY <1>2 DEF Upstream
    <2> QED
      BY <1>2, <1>5, <2>1 DEF Moves
  <1>7. Len(rows) <= Len(rows')
    BY <1>2, <1>3
  <1> QED
    BY <1>1, <1>2, <1>3, <1>5, <1>6, <1>7, OneUpstream DEF u

\* Counters that start anew have seen no price.
LEMMA NothingSeen == Within(0, 0, NoProof)
  BY DEF Within, NoProof

LEMMA MidnightMoves ==
  ASSUME RatesInv, UpstreamMidnight
  PROVE  WorldMoves
  <1> DEFINE Reborn(a) == [Anew(a) EXCEPT !.epoch = @ + 1]
  <1>1. /\ up \in [Accounts -> Upstream] /\ ident \in [Accounts -> Nat \ {0}] /\ day \in Nat \ {0}
        /\ rows \in Seq(Accounts) /\ shared \in Balance
    BY DEF RatesInv, WorldOK
  <1>2. /\ Around /\ UNCHANGED <<ident, day, rows>>
        /\ up' = [a \in Accounts |-> Reborn(a)] /\ shared' = [shared EXCEPT !.cost = 0, !.reqs = 0]
    BY DEF UpstreamMidnight
  <1>3. ASSUME NEW a \in Accounts
        PROVE  /\ Reborn(a) \in Upstream /\ Reborn(a).epoch = up[a].epoch + 1
               /\ Reborn(a).cost = 0 /\ Reborn(a).actual = 0
               /\ Own(a) => Reborn(a).seen = NoProof
    <2> DEFINE v == Anew(a)
    <2>1. /\ v \in Upstream /\ v.epoch = up[a].epoch /\ v.cost = 0 /\ v.actual = 0
          /\ Own(a) => v.seen = NoProof
      BY <1>1, AnewIs
    <2> HIDE DEF v
    <2>2. Reborn(a) = [v EXCEPT !.epoch = @ + 1]
      BY DEF v
    <2> HIDE DEF Reborn
    <2> QED
      BY <2>1, <2>2 DEF Upstream
  <1> HIDE DEF Reborn
  <1>4. up' \in [Accounts -> Upstream] /\ \A a \in Accounts : up'[a] = Reborn(a)
    BY <1>2, <1>3
  <1>5. ASSUME NEW a \in Accounts
        PROVE  Moves(up[a], up'[a], Own(a))
    <2>1. up[a].epoch \in Nat
      BY <1>1 DEF Upstream
    <2> QED
      BY <1>3, <1>4, <2>1, NothingSeen DEF Moves
  <1>6. shared' \in Balance
    <2> DEFINE none == 0
    <2>1. none \in Int /\ shared' = [shared EXCEPT !.cost = none, !.reqs = none]
      BY <1>2
    <2> HIDE DEF none
    <2> QED
      BY <1>1, <2>1 DEF Balance
  <1> QED
    BY <1>1, <1>2, <1>4, <1>5, <1>6 DEF WorldMoves

\* Other credentials, between cycles.
LEMMA CredentialsMove ==
  ASSUME RatesInv, NEW a \in Listed, NewCredentials(a)
  PROVE  WorldMoves
  <1> DEFINE w == Anew(a)
             v == [w EXCEPT !.log = NoLog]
  <1>1. a \in Accounts
    BY ListedAccounts DEF RatesInv
  <1>2. /\ up \in [Accounts -> Upstream] /\ up[a] \in Upstream
        /\ ident \in [Accounts -> Nat \ {0}]
        /\ rows \in Seq(Accounts) /\ shared \in Balance /\ day \in Nat \ {0}
    BY <1>1 DEF RatesInv, WorldOK
  <1>3. /\ Around /\ UNCHANGED <<day, rows, shared>> /\ pc = "idle"
        /\ ident' = [ident EXCEPT ![a] = @ + 1] /\ up' = [up EXCEPT ![a] = v]
    BY DEF NewCredentials
  <1>4. /\ w \in Upstream /\ w.epoch = up[a].epoch /\ w.cost = 0 /\ w.actual = 0
        /\ Own(a) => w.seen = NoProof
    BY <1>1, <1>2, AnewIs
  <1> HIDE DEF w
  <1>5. /\ v \in Upstream /\ v.epoch = up[a].epoch /\ v.cost = 0 /\ v.actual = 0
        /\ v.seen = w.seen
    BY <1>4 DEF Upstream
  <1> HIDE DEF v
  <1>6. /\ up' \in [Accounts -> Upstream] /\ up'[a] = v
        /\ \A b \in Accounts \ {a} : up'[b] = up[b]
    BY <1>1, <1>2, <1>3, <1>5
  <1>7. ident' \in [Accounts -> Nat \ {0}]
    BY <1>1, <1>2, <1>3
  <1>8. Running = {}
    BY <1>3 DEF RatesInv, ChecksInv, ChecksDontShare
  <1>9. Own(a) => Within(v.cost, v.actual, v.seen)
    BY <1>4, <1>5, NothingSeen
  <1>10. /\ Around /\ day' \in Nat \ {0} /\ day <= day'
         /\ rows' \in Seq(Accounts) /\ Len(rows) <= Len(rows') /\ shared' \in Balance
    BY <1>2, <1>3
  <1> QED
    BY <1>1, <1>3, <1>5, <1>6, <1>7, <1>8, <1>9, <1>10 DEF WorldMoves

LEMMA OthersMove ==
  ASSUME RatesInv, OtherRequest \/ Recharge \/ NextDay \/ ProxyChanges
  PROVE  WorldMoves
  <1>1. day \in Nat \ {0} /\ shared \in Balance
    BY DEF RatesInv, WorldOK
  <1>2. Around /\ UNCHANGED <<up, ident, rows>>
    BY DEF OtherRequest, Recharge, NextDay, ProxyChanges
  <1>3. shared' \in Balance /\ day' \in Nat \ {0} /\ day <= day'
    <2>1. Prices \subseteq Nat
      BY AccountAssumption
    <2>2. CASE OtherRequest
      BY <1>1, <2>1, <2>2 DEF OtherRequest, Balance
    <2>3. CASE Recharge
      BY <1>1, <2>1, <2>3 DEF Recharge, Balance
    <2>4. CASE NextDay \/ ProxyChanges
      BY <1>1, <2>4 DEF NextDay, ProxyChanges
    <2> QED
      BY <2>2, <2>3, <2>4
  <1> QED
    BY <1>2, <1>3, NoUpstream

-----------------------------------------------------------------------------
(* What the process does.                                                    *)

LEMMA Inside ==
  ASSUME UNCHANGED <<env, outside>>
  PROVE  /\ \A a : Own(a)' = Own(a) /\ AccountOf(a)' = AccountOf(a)
         /\ Channels' = Channels /\ (WorldOK => WorldOK')
         /\ \A r, a : Fit(r, a) => Fit(r, a)'
         /\ \A f : FileOK(f) => FileOK(f)'
  <1>1. UNCHANGED <<env, up, shared, rows, ident, day, down>>
    BY DEF outside
  <1>2. \A a : Own(a)' = Own(a) /\ AccountOf(a)' = AccountOf(a)
    BY <1>1 DEF Own, AccountOf
  <1>3. \A r, a : Fit(r, a) => Fit(r, a)'
    BY <1>1, <1>2 DEF Fit
  <1>4. \A f : FileOK(f) => FileOK(f)'
    BY <1>1, <1>3 DEF FileOK
  <1>5. WorldOK => WorldOK'
    BY <1>1, <1>2 DEF WorldOK
  <1> QED
    BY <1>1, <1>2, <1>3, <1>4, <1>5 DEF Channels

LEMMA NoProbeIs ==
  NoProbe \in Rounds /\ \A S \in SUBSET Accounts : [NoProbe EXCEPT !.todo = S] \in Rounds
  BY DEF NoProbe, Rounds

\* No rule moves, or no check is under way.
LEMMA RulesKeepInv ==
  ASSUME RatesInv, ChecksInv', CycleOK', UNCHANGED <<env, outside, disk, chk, proof>>,
         FileOK(mem'), mem'.version = 6, mem' = mem \/ Running = {}
  PROVE  RatesInv'
  <1>1. /\ \A a : Own(a)' = Own(a) /\ AccountOf(a)' = AccountOf(a)
        /\ Channels' = Channels /\ WorldOK' /\ \A f : FileOK(f) => FileOK(f)'
    BY Inside DEF RatesInv
  <1>2. FilesOK'
    <2>1. FileOK(disk)
      BY DEF RatesInv, FilesOK
    <2> QED
      BY <1>1, <2>1 DEF FilesOK
  <1>3. ident' = ident
    BY DEF outside
  <1>4. ASSUME NEW i \in Channels
        PROVE  LET a == AccountOf(i)
               IN  CheckFits(chk[i], mem'.rules[a], ident[a], proof[a], Own(a))
    BY Resting DEF RatesInv, ChecksOK
  <1>5. SeenAccounts' = SeenAccounts
    BY SeenKept
  <1>6. ChecksOK'
    BY <1>1, <1>3, <1>4, <1>5 DEF RatesInv, ChecksOK
  <1> QED
    BY <1>1, <1>2, <1>6 DEF RatesInv

\* The cycle is over: nothing is left of what it saw.
LEMMA OverKeepsInv ==
  ASSUME RatesInv, ChecksInv', CycleEnds, UNCHANGED <<env, outside, acct>>,
         FileOK(mem'), mem'.version = 6, FileOK(disk')
  PROVE  RatesInv'
  <1>1. /\ \A a : Own(a)' = Own(a) /\ AccountOf(a)' = AccountOf(a)
        /\ Channels' = Channels /\ WorldOK' /\ \A f : FileOK(f) => FileOK(f)'
    BY Inside DEF RatesInv
  <1>2. FilesOK'
    BY <1>1 DEF FilesOK
  <1>3. /\ chk' = [i \in Channels |-> NoCheck] /\ proof' = [a \in Accounts |-> NoProof]
        /\ pc' = "idle" /\ now' = 0 /\ probe' = NoProbe
    BY DEF CycleEnds
  <1>4. CycleOK'
    <2>1. day' \in Nat
      BY <1>1 DEF WorldOK
    <2>2. 0 \in 0..day'
      BY <2>1
    <2>3. probe' \in Rounds
      BY <1>3, NoProbeIs
    <2> QED
      BY <1>3, <2>2, <2>3 DEF RatesInv, CycleOK
  <1>5. ChecksOK'
    <2>1. ASSUME NEW i \in Channels
          PROVE  LET a == AccountOf(i)
                 IN  CheckFits(chk'[i], mem'.rules[a], ident'[a], proof'[a], Own(a))
      BY <1>3, NoCheckIs, RestFits
    <2>2. chk' \in [Channels -> Checks] /\ proof' \in [Accounts -> Evidence]
      BY <1>3, NoCheckIs, NoProofIs
    <2>3. \A a \in Accounts : proof'[a] # Anything
      BY <1>3, NoProofIs
    <2> QED
      BY <1>1, <2>1, <2>2, <2>3 DEF ChecksOK
  <1> QED
    BY <1>1, <1>2, <1>4, <1>5 DEF RatesInv

-----------------------------------------------------------------------------
(* The rules.                                                                *)

LEMMA FitFacts ==
  ASSUME RatesInv, NEW a \in Accounts
  PROVE  /\ Fit(mem.rules[a], a) /\ mem.rules[a] \in Rule /\ OfOneTemplate(mem.rules[a])
         /\ \A r : Fit(r, a) => r \in Rule /\ OfOneTemplate(r)
         /\ \A r, x : Fit(r, a) /\ Follows(x, r) => Fit(x, a)
         /\ \A r : r = newRule(ident[a]) \/ r = NoRule => Fit(r, a)
         /\ newRule(ident[a]).id = ident[a]
         /\ ident[a] \in Nat \ {0} /\ up[a] \in Upstream /\ day \in Nat
  <1>1. ident[a] \in Nat \ {0} /\ up[a] \in Upstream /\ day \in Nat
    BY DEF RatesInv, WorldOK
  <1>2. up[a].epoch \in Nat
    BY <1>1 DEF Upstream
  <1>3. Fit(mem.rules[a], a)
    BY DEF RatesInv, FilesOK, FileOK
  <1>4. \A r : Fit(r, a) => r \in Rule /\ OfOneTemplate(r)
    BY DEF Fit, Fits, RuleOK
  <1>5. \A r, x : Fit(r, a) /\ Follows(x, r) => Fit(x, a)
    BY <1>1, <1>2, FollowsFits DEF Fit
  <1>6. \A r : r = newRule(ident[a]) \/ r = NoRule => Fit(r, a)
    <2> DEFINE own == Own(a)
               u == up[a]
               id == ident[a]
    <2>1. u.epoch \in Nat /\ id \in Nat \ {0} /\ day \in Nat
      BY <1>1, <1>2
    <2> HIDE DEF own, u, id
    <2>2. Fits(newRule(id), u, id, day, own) /\ Fits(NoRule, u, id, day, own)
      BY <2>1, NewRules
    <2> QED
      BY <2>2 DEF own, u, id, Fit
  <1>7. newRule(ident[a]).id = ident[a]
    BY DEF newRule
  <1> QED
    BY <1>1, <1>3, <1>4, <1>5, <1>6, <1>7

\* The rule of the credentials an account has now.
LEMMA RuleFor ==
  ASSUME RatesInv, NEW a \in Accounts
  PROVE  Fit(ruleStateFor(a), a) /\ ruleStateFor(a).id = ident[a]
  BY FitFacts DEF ruleStateFor

LEMMA PreparedFits ==
  ASSUME RatesInv, NEW a \in Accounts
  PROVE  Fit(Prepared(a), a) /\ Fit(resetCandidate(Prepared(a)), a)
  <1> DEFINE r == ruleStateFor(a)
             x == [resetPriceKey(r) EXCEPT !.tmpl = "balance"]
  <1>1. Fit(r, a) /\ r \in Rule /\ OfOneTemplate(r)
    BY RuleFor, FitFacts
  <1>2. Prepared(a) = r \/ Prepared(a) = x
    BY DEF Prepared
  <1> HIDE DEF r
  <1>3. Follows(x, r)
    BY <1>1, Resets
  <1> HIDE DEF x
  <1>4. Fit(Prepared(a), a)
    BY <1>1, <1>2, <1>3, FitFacts
  <1>5. Follows(resetCandidate(Prepared(a)), Prepared(a))
    BY <1>4, FitFacts, Resets
  <1> QED
    BY <1>4, <1>5, FitFacts

\* What is charged to an account of the shared balance.
LEMMA ChargedFits ==
  ASSUME NEW a, ~Own(a), NEW r, Fit(r, a), NEW p \in Int
  PROVE  Fit([r EXCEPT !.cand = p], a)
  <1> DEFINE x == [r EXCEPT !.cand = p]
  <1>1. RuleOK(r, up[a], ident[a], day)
    BY DEF Fit, Fits
  <1>2. r \in Rule
    BY <1>1 DEF RuleOK
  <1>3. x \in Rule
    BY <1>2 DEF Rule
  <1>4. x.has = r.has
    BY <1>2 DEF Rule
  <1>5. /\ x.id = r.id /\ x.day = r.day /\ x.epoch = r.epoch /\ x.key = r.key /\ x.tmpl = r.tmpl
    BY <1>2 DEF Rule
  <1> HIDE DEF x
  <1>6. RuleOK(x, up[a], ident[a], day)
    BY <1>1, <1>3, <1>4, <1>5 DEF RuleOK, OfOneTemplate
  <1>7. Fit(x, a)
    BY <1>6 DEF Fit, Fits
  <1> QED
    BY <1>7 DEF x

\* A file of rules that fit.
Filing(m, R, H) ==
  \/ m = [mem EXCEPT !.rules = R, !.host = H]
  \/ m = [mem EXCEPT !.host = H, !.rules = R]
  \/ m = [rules |-> R, host |-> H, version |-> 6]

LEMMA Filed ==
  ASSUME RatesInv, NEW R, R \in [Accounts -> Rule], \A a \in Accounts : Fit(R[a], a),
         NEW H, H \in Host, H.mark <= Len(rows),
         NEW m, Filing(m, R, H)
  PROVE  FileOK(m) /\ m.version = 6
  <1>1. mem \in State /\ mem.version = 6
    BY DEF RatesInv, FilesOK, FileOK
  <1>2. m \in State /\ m.rules = R /\ m.host = H /\ m.version = 6
    <2>1. CASE m = [rules |-> R, host |-> H, version |-> 6]
      <3> DEFINE v == 6
      <3>1. m = [rules |-> R, host |-> H, version |-> v] /\ v \in Nat
        BY <2>1
      <3> HIDE DEF v
      <3>2. m \in State /\ m.rules = R /\ m.host = H /\ m.version = v
        BY <3>1 DEF State
      <3> QED
        BY <3>2 DEF v
    <2>2. CASE \/ m = [mem EXCEPT !.rules = R, !.host = H]
               \/ m = [mem EXCEPT !.host = H, !.rules = R]
      <3> DEFINE y == [mem EXCEPT !.rules = R]
                 z == [mem EXCEPT !.host = H]
      <3>1. /\ y \in State /\ y.rules = R /\ y.version = 6
            /\ z \in State /\ z.host = H /\ z.version = 6
        BY <1>1 DEF State
      <3>2. m = [y EXCEPT !.host = H] \/ m = [z EXCEPT !.rules = R]
        BY <2>2
      <3> HIDE DEF y, z
      <3> QED
        BY <3>1, <3>2 DEF State
    <2> QED
      BY <2>1, <2>2 DEF Filing
  <1> QED
    BY <1>2 DEF FileOK

LEMMA HostIs ==
  ASSUME RatesInv
  PROVE  /\ mem.host \in Host /\ mem.host.mark <= Len(rows)
         /\ NoHost \in Host /\ NoHost.mark <= Len(rows) /\ Len(rows) \in Nat
  <1>1. mem.host \in Host /\ mem.host.mark <= Len(rows)
    BY DEF RatesInv, FilesOK, FileOK, State
  <1>2. Len(rows) \in Nat
    BY DEF RatesInv, WorldOK
  <1>3. NoHost \in Host /\ NoHost.mark = 0
    BY DEF NoHost, Host
  <1> QED
    BY <1>1, <1>2, <1>3

\* The rule of one account changes.
OneRule(a, r) ==
  /\ mem'.rules \in [Accounts -> Rule] /\ mem'.rules[a] = r
  /\ \A b \in Accounts \ {a} : mem'.rules[b] = mem.rules[b]

LEMMA RuleSet ==
  ASSUME RatesInv, NEW a \in Accounts, NEW r, Fit(r, a),
         SetRule(a, r) \/ (UNCHANGED mem /\ r = mem.rules[a])
  PROVE  OneRule(a, r) /\ FileOK(mem') /\ mem'.version = 6
  <1>1. mem \in State /\ mem.version = 6 /\ FileOK(mem) /\ mem.rules \in [Accounts -> Rule]
    BY DEF RatesInv, FilesOK, FileOK, State
  <1>2. r \in Rule
    BY FitFacts
  <1>3. CASE SetRule(a, r)
    <2> DEFINE R == [mem.rules EXCEPT ![a] = r]
    <2>1. mem' = [mem EXCEPT !.rules = R, !.host = mem.host]
      <3>1. mem' = [mem EXCEPT !.rules = R]
        BY <1>3 DEF SetRule
      <3> HIDE DEF R
      <3> QED
        BY <1>1, <3>1 DEF State
    <2>2. R \in [Accounts -> Rule] /\ R[a] = r /\ \A b \in Accounts \ {a} : R[b] = mem.rules[b]
      BY <1>1, <1>2
    <2> HIDE DEF R
    <2>3. \A b \in Accounts : Fit(R[b], b)
      BY <2>2, FitFacts
    <2>4. FileOK(mem') /\ mem'.version = 6
      <3> DEFINE H == mem.host
                 m == mem'
      <3>1. H \in Host /\ H.mark <= Len(rows) /\ Filing(m, R, H)
        BY <2>1, HostIs DEF Filing
      <3> HIDE DEF H, m
      <3>2. FileOK(m) /\ m.version = 6
        BY <2>2, <2>3, <3>1, Filed
      <3> QED
        BY <3>2 DEF m
    <2>5. mem'.rules = R
      BY <1>1, <2>1 DEF State
    <2> QED
      BY <2>2, <2>4, <2>5 DEF OneRule
  <1>4. CASE UNCHANGED mem /\ r = mem.rules[a]
    BY <1>1, <1>4 DEF OneRule
  <1> QED
    BY <1>3, <1>4

-----------------------------------------------------------------------------
(* Steps of the cycle.                                                       *)

\* What a step leaves of the cycle.
LEMMA CycleKept ==
  ASSUME RatesInv, UNCHANGED day, acct' \in [Accounts -> Int], probe' \in Rounds,
         alive' = alive, now' = now,
         pc' = pc \/ (pc # "idle" /\ pc' \in {"idle", "probe", "apply", "admit", "collect", "save"})
  PROVE  CycleOK'
  BY DEF RatesInv, CycleOK

LEMMA PlainSteps ==
  ASSUME RatesInv, ChecksInv',
         \/ List \/ ListFails \/ AdmitEnds
         \/ \E i \in Channels : admitAccountHost(i) \/ admitUniqueAccount(i)
         \/ collectCheckResults \/ Terminate
  PROVE  RatesInv' /\ acct' = acct
  <1>1. /\ FileOK(mem) /\ mem.version = 6 /\ acct \in [Accounts -> Int] /\ probe \in Rounds
        /\ day \in Nat \ {0} /\ now \in 0..day
    BY DEF RatesInv, FilesOK, CycleOK, WorldOK
  <1>2. UNCHANGED <<env, outside, disk, mem, chk, proof, acct, day>>
    BY
    DEF List, ListFails, admitAccountHost, admitUniqueAccount, PassedOver, AdmitEnds,
        collectCheckResults, Terminate, cycle, outside
  <1>3. CycleOK'
    <2>1. CASE List
      <3>1. probe' \in Rounds
        BY <2>1, NoProbeIs, SharingAccounts DEF List, RatesInv
      <3>2. now' = day /\ alive' /\ pc' \in {"admit", "probe"}
        BY <2>1 DEF List
      <3>3. day \in 0..day
        BY <1>1
      <3> QED
        BY <1>1, <1>2, <3>1, <3>2, <3>3 DEF CycleOK
    <2>2. CASE \/ ListFails \/ AdmitEnds \/ collectCheckResults \/ Terminate
               \/ \E i \in Channels : admitAccountHost(i) \/ admitUniqueAccount(i)
      BY <1>1, <1>2, <2>2, CycleKept
      DEF ListFails, admitAccountHost, admitUniqueAccount, PassedOver, Turn, AdmitEnds,
          collectCheckResults, Terminate, cycle
    <2> QED
      BY <2>1, <2>2
  <1> QED
    BY <1>1, <1>2, <1>3, RulesKeepInv

LEMMA ProbeSteps ==
  ASSUME RatesInv, ChecksInv', NEW a \in Sharing,
         ProbeAnswers(a) \/ ProbeFindsNothing(a) \/ ProbeFails(a)
  PROVE  RatesInv' /\ acct' = acct
  <1>1. /\ FileOK(mem) /\ mem.version = 6 /\ acct \in [Accounts -> Int] /\ probe \in Rounds
        /\ shared \in Balance
    BY DEF RatesInv, FilesOK, CycleOK, WorldOK
  <1>2. PICK p \in Rounds : ProbedOn(a, p)
    <2>1. /\ [probe EXCEPT !.seen = @ \cup {shared}] \in Rounds
          /\ [probe EXCEPT !.missing = TRUE] \in Rounds
          /\ [probe EXCEPT !.err = TRUE] \in Rounds
      BY <1>1 DEF Rounds
    <2> QED
      BY <2>1 DEF ProbeAnswers, ProbeFindsNothing, ProbeFails
  <1>3. probe' \in Rounds
    BY <1>2 DEF ProbedOn, Rounds
  <1>4. UNCHANGED <<env, outside, disk, mem, chk, proof, acct, day, alive, now, pc>>
    BY <1>2 DEF ProbedOn, NoWrite, outside
  <1>5. CycleOK'
    BY <1>1, <1>3, <1>4, CycleKept
  <1> QED
    BY <1>1, <1>4, <1>5, RulesKeepInv

\* The round is over, with whatever rules that fit.
LEMMA RoundEnds ==
  ASSUME RatesInv, ChecksInv', ProbeEnds, UNCHANGED <<chk, proof>>, NoWrite,
         pc' \in {"admit", "apply"}, probe' \in Rounds,
         NEW R, R \in [Accounts -> Rule], \A a \in Accounts : Fit(R[a], a),
         NEW H \in Host, H.mark <= Len(rows), Filing(mem', R, H)
  PROVE  RatesInv' /\ acct' = acct
  <1> DEFINE m == mem'
  <1>1. FileOK(m) /\ m.version = 6
    <2>1. Filing(m, R, H)
      OBVIOUS
    <2> HIDE DEF m
    <2> QED
      BY <2>1, Filed
  <1>2. UNCHANGED <<env, outside, disk, chk, proof, acct, day, alive, now>> /\ pc = "probe"
    BY DEF NoWrite, outside, ProbeEnds
  <1>3. Running = {}
    BY <1>2 DEF RatesInv, ChecksInv, ChecksDontShare
  <1>4. CycleOK'
    BY <1>2, CycleKept DEF RatesInv, CycleOK
  <1> QED
    BY <1>1, <1>2, <1>3, <1>4, RulesKeepInv

LEMMA ResetGroupStep ==
  ASSUME RatesInv, ChecksInv', resetImageCreaterGroup
  PROVE  RatesInv' /\ acct' = acct
  <1> DEFINE R == [a \in Accounts |-> IF a \in Sharing /\ mem.rules[a].tmpl = "balance"
                                      THEN resetTemplate(mem.rules[a]) ELSE mem.rules[a]]
  <1>1. /\ ProbeEnds /\ UNCHANGED <<chk, proof>> /\ NoWrite /\ pc' = "admit" /\ probe' = NoProbe
        /\ mem' = [mem EXCEPT !.host = NoHost, !.rules = R]
    BY DEF resetImageCreaterGroup
  <1>2. ASSUME NEW a \in Accounts
        PROVE  Fit(R[a], a) /\ R[a] \in Rule
    <2> DEFINE r == mem.rules[a]
               x == resetTemplate(r)
    <2>1. Fit(r, a) /\ r \in Rule /\ OfOneTemplate(r)
      BY FitFacts
    <2>2. Follows(x, r)
      <3> HIDE DEF r
      <3> QED
        BY <2>1, Resets
    <2>3. R[a] = r \/ R[a] = x
      OBVIOUS
    <2> HIDE DEF r, x, R
    <2> QED
      BY <2>1, <2>2, <2>3, FitFacts
  <1>3. R \in [Accounts -> Rule]
    BY <1>2
  <1> HIDE DEF R
  <1>4. Filing(mem', R, NoHost)
    BY <1>1 DEF Filing
  <1>5. probe' \in Rounds /\ NoHost \in Host /\ NoHost.mark <= Len(rows)
    BY <1>1, NoProbeIs, HostIs
  <1> QED
    BY <1>1, <1>2, <1>3, <1>4, <1>5, RoundEnds

LEMMA UnprovedStep ==
  ASSUME RatesInv, ChecksInv', ProbeEnds, NEW H \in Host, H.mark <= Len(rows), Unproved(H)
  PROVE  RatesInv' /\ acct' = acct
  <1> DEFINE R == resetImageCreaterCandidates
  <1>1. /\ UNCHANGED <<chk, proof>> /\ NoWrite /\ pc' = "admit" /\ probe' = NoProbe
        /\ mem' = [mem EXCEPT !.rules = R, !.host = H]
    BY DEF Unproved
  <1>2. ASSUME NEW a \in Accounts
        PROVE  Fit(R[a], a) /\ R[a] \in Rule
    <2>1. R[a] = mem.rules[a] \/ R[a] = resetCandidate(Prepared(a))
      BY DEF resetImageCreaterCandidates
    <2> HIDE DEF R
    <2> QED
      BY <2>1, PreparedFits, FitFacts
  <1>3. R \in [Accounts -> Rule]
    <2>1. R = [a \in Accounts |-> R[a]]
      BY DEF resetImageCreaterCandidates
    <2> HIDE DEF R
    <2> QED
      BY <1>2, <2>1
  <1> HIDE DEF R
  <1>4. Filing(mem', R, H)
    BY <1>1 DEF Filing
  <1>5. probe' \in Rounds
    BY <1>1, NoProbeIs
  <1> QED
    BY <1>1, <1>2, <1>3, <1>4, <1>5, RoundEnds

LEMMA SharedFailsStep ==
  ASSUME RatesInv, ChecksInv', SharedFails
  PROVE  RatesInv' /\ acct' = acct
  <1>1. ProbeEnds /\ (Unproved(NoHost) \/ Unproved(mem.host))
    BY DEF SharedFails
  <1> QED
    BY <1>1, HostIs, UnprovedStep

LEMMA ReconcileStep ==
  ASSUME RatesInv, ChecksInv', Reconcile
  PROVE  RatesInv' /\ acct' = acct
  <1> DEFINE seen == CHOOSE s \in probe.seen : TRUE
             id == [a \in Sharing |-> ident[a]]
             mark == Len(rows)
             base == setImageCreaterBaseline(id, seen, mark, now)
             local == Local(rows, mem.host, mark, Sharing)
             payers == Payers(rows, local)
             winner == CHOOSE a \in payers : TRUE
             rate == ProvenRate(mem.host, seen, local)
             charged == [AllPrepared EXCEPT ![winner].cand = rate]
  <1>1. /\ ProbeEnds /\ IsShared /\ ~probe.err
        /\ \/ Unproved(base)
           \/ /\ \/ mem' = [mem EXCEPT !.rules = AllPrepared, !.host = base]
                 \/ /\ Proves(rows, mem.host, seen, local)
                    /\ mem' = [mem EXCEPT !.rules = charged, !.host = base]
              /\ pc' = "apply" /\ probe' = [NoProbe EXCEPT !.todo = Sharing]
              /\ UNCHANGED <<chk, proof>> /\ NoWrite
    BY DEF Reconcile
  <1>2. seen \in Balance
    <2>1. probe.seen # {}
      BY <1>1 DEF IsShared
    <2>2. probe.seen \subseteq Balance
      BY DEF RatesInv, CycleOK, Rounds
    <2> QED
      BY <2>1, <2>2
  <1>3. /\ rows \in Seq(Accounts) /\ mark \in Nat /\ now \in Nat
        /\ ident \in [Accounts -> Nat \ {0}] /\ mem.host \in Host
        /\ Sharing \subseteq Accounts /\ \A a \in Sharing : ~Own(a)
    <2>1. day \in Nat /\ now \in 0..day
      BY DEF RatesInv, WorldOK, CycleOK
    <2> QED
      BY <2>1, SharingAccounts, HostIs DEF RatesInv, WorldOK
  <1>4. base \in Host /\ base.mark = mark
    <2>1. id \in [Sharing -> Int]
      BY <1>3
    <2> HIDE DEF id, seen, mark
    <2>2. base = [init |-> TRUE, id |-> id, day |-> now, bal |-> seen.bal, cost |-> seen.cost,
                  reqs |-> seen.reqs, mark |-> mark]
      BY DEF setImageCreaterBaseline
    <2>3. seen.bal \in Int /\ seen.cost \in Int /\ seen.reqs \in Int
      BY <1>2 DEF Balance
    <2>4. id \in {<<>>} \cup UNION {[S -> Int] : S \in SUBSET Accounts}
      BY <1>3, <2>1
    <2> HIDE DEF base
    <2>5. base \in Host
      <3> DEFINE Ids == {<<>>} \cup UNION {[S -> Int] : S \in SUBSET Accounts}
      <3> HIDE DEF Ids
      <3>1. id \in Ids
        BY <2>4 DEF Ids
      <3>2. base \in [init : BOOLEAN, id : Ids, day : Nat, bal : Int, cost : Int, reqs : Int,
                      mark : Nat]
        BY <1>3, <2>2, <2>3, <3>1
      <3> QED
        BY <3>2 DEF Host, Ids
    <2> QED
      BY <2>2, <2>5
  <1>5. ASSUME NEW a \in Accounts
        PROVE  Fit(AllPrepared[a], a) /\ AllPrepared[a] \in Rule
    <2>1. AllPrepared[a] = mem.rules[a] \/ AllPrepared[a] = Prepared(a)
      BY DEF AllPrepared
    <2> QED
      BY <2>1, PreparedFits, FitFacts
  <1>6. AllPrepared \in [Accounts -> Rule]
    <2>1. AllPrepared = [a \in Accounts |-> AllPrepared[a]]
      BY DEF AllPrepared
    <2> QED
      BY <1>5, <2>1
  <1>7. ASSUME Proves(rows, mem.host, seen, local)
        PROVE  /\ charged \in [Accounts -> Rule]
               /\ \A a \in Accounts : Fit(charged[a], a)
    <2>1. payers # {}
      <3>1. Cardinality(payers) = 1
        BY <1>7 DEF Proves
      <3> HIDE DEF payers
      <3> QED
        BY <3>1, FS_EmptySet
    <2>2. local # {} /\ payers \subseteq Sharing
      BY <2>1 DEF Payers, Local
    <2>3. winner \in Sharing
      BY <2>1, <2>2
    <2>4. Cardinality(local) \in Nat \ {0}
      <3> DEFINE first == mem.host.mark + 1
      <3>4. first \in Int /\ mark \in Int
        BY <1>3 DEF Host
      <3> HIDE DEF first, mark
      <3>1. IsFiniteSet(first..mark)
        BY <3>4, FS_Interval
      <3>2. local \subseteq first..mark
        BY DEF Local, first
      <3> HIDE DEF local
      <3>3. IsFiniteSet(local)
        BY <3>1, <3>2, FS_Subset
      <3> QED
        BY <2>2, <3>3, FS_CardinalityType, FS_EmptySet
    <2>5. rate \in Int
      <3>1. seen.cost \in Int /\ mem.host.cost \in Int
        BY <1>2, <1>3 DEF Balance, Host
      <3> HIDE DEF seen, local
      <3> QED
        BY <2>4, <3>1 DEF ProvenRate
    <2> HIDE DEF winner, rate, seen, local, payers
    <2> DEFINE x == [AllPrepared[winner] EXCEPT !.cand = rate]
    <2>6. winner \in Accounts /\ ~Own(winner)
      BY <2>3, <1>3
    <2>7. charged = [AllPrepared EXCEPT ![winner] = x]
      BY <1>6, <2>6
    <2>8. Fit(x, winner)
      <3> DEFINE r == AllPrepared[winner]
      <3>1. Fit(r, winner)
        BY <1>5, <2>6
      <3> HIDE DEF r
      <3>2. Fit([r EXCEPT !.cand = rate], winner)
        BY <2>5, <2>6, <3>1, ChargedFits
      <3> QED
        BY <3>2 DEF r
    <2>9. x \in Rule
      BY <2>6, <2>8, FitFacts
    <2> HIDE DEF x
    <2> QED
      BY <1>5, <1>6, <2>6, <2>7, <2>8, <2>9
  <1>8. base.mark <= Len(rows)
    BY <1>3, <1>4
  <1> HIDE DEF seen, id, mark, local, payers, winner, rate, base, charged
  <1>9. CASE Unproved(base)
    BY <1>1, <1>4, <1>8, <1>9, UnprovedStep
  <1>10. ASSUME NEW R, R \in [Accounts -> Rule], \A a \in Accounts : Fit(R[a], a),
                mem' = [mem EXCEPT !.rules = R, !.host = base],
                pc' = "apply", probe' = [NoProbe EXCEPT !.todo = Sharing],
                UNCHANGED <<chk, proof>>, NoWrite
         PROVE  RatesInv' /\ acct' = acct
    <2>1. Filing(mem', R, base)
      BY <1>10 DEF Filing
    <2>2. probe' \in Rounds
      BY <1>3, <1>10, NoProbeIs
    <2> QED
      BY <1>1, <1>4, <1>8, <1>10, <2>1, <2>2, RoundEnds
  <1>11. CASE /\ mem' = [mem EXCEPT !.rules = AllPrepared, !.host = base]
              /\ pc' = "apply" /\ probe' = [NoProbe EXCEPT !.todo = Sharing]
              /\ UNCHANGED <<chk, proof>> /\ NoWrite
    BY <1>5, <1>6, <1>10, <1>11
  <1>12. CASE /\ Proves(rows, mem.host, seen, local)
              /\ mem' = [mem EXCEPT !.rules = charged, !.host = base]
              /\ pc' = "apply" /\ probe' = [NoProbe EXCEPT !.todo = Sharing]
              /\ UNCHANGED <<chk, proof>> /\ NoWrite
    BY <1>7, <1>10, <1>12
  <1> QED
    BY <1>1, <1>9, <1>11, <1>12

-----------------------------------------------------------------------------
(* Rates that are written.                                                   *)

LEMMA DiscountIs ==
  ASSUME NEW a
  PROVE  rechargeDiscount(a) \in Nat \ {0}
  BY AccountAssumption DEF rechargeDiscount

LEMMA WriteIs ==
  ASSUME RatesInv, NEW a \in Accounts, Keep(a) \/ Put(a) \/ PutFails(a)
  PROVE  /\ acct' \in [Accounts -> Int]
         /\ \A b \in Accounts \ {a} : acct'[b] = acct[b]
         /\ acct'[a] # acct[a] => mem.rules[a].cand # 0 /\ acct'[a] = Final(a)
  <1>1. acct \in [Accounts -> Int] /\ mem.rules[a].cand \in Int
    BY FitFacts DEF RatesInv, CycleOK, Rule
  <1>2. Final(a) \in Int
    BY <1>1, DiscountIs DEF Final
  <1>3. acct' = acct \/ (mem.rules[a].cand # 0 /\ acct' = [acct EXCEPT ![a] = Final(a)])
    BY DEF Keep, Put, PutFails, Differs
  <1> QED
    BY <1>1, <1>2, <1>3

\* What an account without a shared balance gets is explained.
OwnTrue == \A a \in Accounts \ env.shared : acct'[a] # acct[a] => Explains(proof[a], a)

LEMMA ApplySharedStep ==
  ASSUME RatesInv, ChecksInv', NEW a \in Sharing, ApplyShared(a)
  PROVE  RatesInv' /\ OwnTrue
  <1> DEFINE r == IF mem' = mem THEN mem.rules[a] ELSE resetCandidate(mem.rules[a])
  <1>1. a \in Accounts /\ ~Own(a)
    BY SharingAccounts DEF RatesInv
  <1>2. /\ pc = "apply" /\ (Keep(a) \/ Put(a) \/ PutFails(a))
        /\ SetRule(a, resetCandidate(mem.rules[a])) \/ UNCHANGED mem
        /\ probe' = [probe EXCEPT !.todo = @ \ {a}] /\ pc' \in {"admit", pc}
        /\ UNCHANGED <<now, chk, proof>> /\ Quietly
    BY DEF ApplyShared
  <1>3. /\ Fit(resetCandidate(mem.rules[a]), a) /\ Fit(mem.rules[a], a)
    <2>1. Fit(mem.rules[a], a) /\ mem.rules[a] \in Rule /\ OfOneTemplate(mem.rules[a])
      BY <1>1, FitFacts
    <2>2. Follows(resetCandidate(mem.rules[a]), mem.rules[a])
      BY <2>1, Resets
    <2> QED
      BY <1>1, <2>1, <2>2, FitFacts
  <1>4. FileOK(mem') /\ mem'.version = 6
    <2> DEFINE x == resetCandidate(mem.rules[a])
               y == mem.rules[a]
               m == mem'
    <2>1. CASE SetRule(a, x)
      BY <1>1, <1>3, <2>1, RuleSet
    <2>2. CASE UNCHANGED mem
      BY <2>2 DEF RatesInv, FilesOK
    <2> QED
      BY <1>2, <2>1, <2>2
  <1>5. acct' \in [Accounts -> Int] /\ \A b \in Accounts \ {a} : acct'[b] = acct[b]
    BY <1>1, <1>2, WriteIs
  <1>6. UNCHANGED <<env, outside, disk, chk, proof, day, alive, now>>
    BY <1>2 DEF Quietly, outside
  <1>7. Running = {}
    BY <1>2 DEF RatesInv, ChecksInv, ChecksDontShare
  <1>8. CycleOK'
    <2>1. probe' \in Rounds
      BY <1>2 DEF RatesInv, CycleOK, Rounds
    <2> QED
      BY <1>2, <1>5, <1>6, <2>1, CycleKept
  <1>9. RatesInv'
    BY <1>4, <1>6, <1>7, <1>8, RulesKeepInv
  <1> QED
    BY <1>1, <1>5, <1>9 DEF OwnTrue, Own

-----------------------------------------------------------------------------
(* The end of a cycle, and of the process.                                   *)

LEMMA EndStep ==
  ASSUME RatesInv, ChecksInv', Save \/ SaveFails \/ Exit \/ Crash
  PROVE  RatesInv' /\ acct' = acct
  <1>1. FileOK(mem) /\ FileOK(disk) /\ mem.version = 6
    BY DEF RatesInv, FilesOK
  <1>2. FileOK(newState) /\ newState.version = 6
    <2> DEFINE R == [a \in Accounts |-> NoRule]
               m == newState
    <2>1. Filing(m, R, NoHost)
      BY DEF newState, Filing
    <2>2. ASSUME NEW a \in Accounts
          PROVE  R[a] \in Rule /\ Fit(R[a], a)
      <3>1. R[a] = NoRule
        OBVIOUS
      <3> HIDE DEF R
      <3> QED
        BY <3>1, FitFacts
    <2>3. R \in [Accounts -> Rule]
      BY <2>2
    <2> HIDE DEF R, m
    <2>4. FileOK(m) /\ m.version = 6
      BY <2>1, <2>2, <2>3, HostIs, Filed
    <2> QED
      BY <2>4 DEF m
  <1>3. /\ CycleEnds /\ UNCHANGED <<env, outside, acct>>
        /\ mem' = mem \/ mem' = newState
        /\ disk' = mem \/ disk' = disk
    BY DEF Save, SaveFails, Exit, Crash, Dies
  <1>4. FileOK(mem') /\ mem'.version = 6 /\ FileOK(disk')
    BY <1>1, <1>2, <1>3
  <1> QED
    BY <1>3, <1>4, OverKeepsInv

LEMMA StartStep ==
  ASSUME RatesInv, ChecksInv', Start
  PROVE  RatesInv' /\ acct' = acct
  <1> DEFINE R == [a \in Accounts |->
                     IF disk.version = 2 /\ disk.rules[a].tmpl = "newapi"
                     THEN resetPriceKey(disk.rules[a]) ELSE disk.rules[a]]
             H == IF disk.version < 6 THEN NoHost ELSE disk.host
             m == mem'
  <1>1. /\ ~alive /\ alive' = TRUE /\ mem' = Loaded(disk)
        /\ UNCHANGED <<env, outside, acct, disk, pc, now, probe, chk, proof, day>>
    BY DEF Start, cycle, outside
  <1>2. disk \in State /\ disk.host.mark <= Len(rows) /\ \A a \in Accounts : Fit(disk.rules[a], a)
    BY DEF RatesInv, FilesOK, FileOK
  <1>3. ASSUME NEW a \in Accounts
        PROVE  Fit(R[a], a) /\ R[a] \in Rule
    <2> DEFINE r == disk.rules[a]
               x == resetPriceKey(r)
    <2>1. Fit(r, a) /\ r \in Rule /\ OfOneTemplate(r)
      BY <1>2, FitFacts
    <2>2. R[a] = r \/ R[a] = x
      OBVIOUS
    <2> HIDE DEF r, R
    <2>3. Follows(x, r)
      BY <2>1, Resets
    <2> HIDE DEF x
    <2> QED
      BY <2>1, <2>2, <2>3, FitFacts
  <1>4. R \in [Accounts -> Rule]
    BY <1>3
  <1>5. H \in Host /\ H.mark <= Len(rows)
    BY <1>2, HostIs DEF State
  <1>6. Filing(m, R, H)
    BY <1>1 DEF Filing, Loaded
  <1> HIDE DEF R, H, m
  <1>7. FileOK(m) /\ m.version = 6
    BY <1>3, <1>4, <1>5, <1>6, Filed
  <1>8. pc = "idle"
    BY <1>1 DEF RatesInv, CycleOK
  <1>9. Running = {}
    BY <1>8 DEF RatesInv, ChecksInv, ChecksDontShare
  <1>10. CycleOK'
    BY <1>1, <1>8 DEF RatesInv, CycleOK
  <1> QED
    BY <1>1, <1>7, <1>9, <1>10, RulesKeepInv DEF m

-----------------------------------------------------------------------------
(* Checks.                                                                   *)

\* One check begins or moves, with the rule and the evidence of its account.
LEMMA CheckKeepsInv ==
  ASSUME RatesInv, ChecksInv', CycleOK', UNCHANGED <<env, outside, disk>>,
         NEW i \in Channels, \A j \in Admitted \ {i} : AccountOf(j) # AccountOf(i),
         NEW c \in Checks, c.step # "none", chk' = [chk EXCEPT ![i] = c],
         NEW r, OneRule(AccountOf(i), r), FileOK(mem'), mem'.version = 6,
         NEW e \in Evidence, proof' = [proof EXCEPT ![AccountOf(i)] = e],
         CheckFits(c, r, ident[AccountOf(i)], e, Own(AccountOf(i)))
  PROVE  RatesInv'
  <1> DEFINE a == AccountOf(i)
  <1>1. /\ \A b : Own(b)' = Own(b) /\ AccountOf(b)' = AccountOf(b)
        /\ Channels' = Channels /\ WorldOK' /\ \A f : FileOK(f) => FileOK(f)'
    BY Inside DEF RatesInv
  <1>2. a \in Accounts /\ ident' = ident
    BY ChannelAccounts DEF RatesInv, outside
  <1>3. FilesOK'
    <2>1. FileOK(disk)
      BY DEF RatesInv, FilesOK
    <2> QED
      BY <1>1, <2>1 DEF FilesOK
  <1>4. /\ chk \in [Channels -> Checks] /\ proof \in [Accounts -> Evidence]
        /\ \A j \in Channels : CheckFits(chk[j], mem.rules[AccountOf(j)], ident[AccountOf(j)],
                                         proof[AccountOf(j)], Own(AccountOf(j)))
        /\ \A b \in Accounts : proof[b] = Anything => b \in SeenAccounts
    BY DEF RatesInv, ChecksOK
  <1>5. /\ chk' \in [Channels -> Checks] /\ proof' \in [Accounts -> Evidence]
        /\ chk'[i] = c /\ \A j \in Channels \ {i} : chk'[j] = chk[j]
        /\ proof'[a] = e /\ \A b \in Accounts \ {a} : proof'[b] = proof[b]
        /\ mem'.rules[a] = r /\ \A b \in Accounts \ {a} : mem'.rules[b] = mem.rules[b]
    BY <1>2, <1>4 DEF OneRule
  <1>6. ASSUME NEW j \in Channels
        PROVE  CheckFits(chk'[j], mem'.rules[AccountOf(j)], ident[AccountOf(j)],
                         proof'[AccountOf(j)], Own(AccountOf(j)))
    <2>1. CASE j = i
      BY <1>5, <2>1
    <2>2. CASE j # i /\ AccountOf(j) = a
      <3>1. j \notin Admitted
        BY <2>2
      <3>2. chk[j].step = "none"
        BY <3>1 DEF Admitted, Running, Done
      <3>3. chk[j].failed = NoRule
        BY <1>4, <3>2 DEF CheckFits
      <3>4. chk'[j].step = "none" /\ chk'[j].failed = NoRule
        BY <1>5, <2>2, <3>2, <3>3
      <3> QED
        BY <3>4, RestFits
    <2>3. CASE j # i /\ AccountOf(j) # a
      <3>1. AccountOf(j) \in Accounts
        BY ChannelAccounts DEF RatesInv
      <3> QED
        BY <1>4, <1>5, <2>3, <3>1
    <2> QED
      BY <2>1, <2>2, <2>3
  <1>7. a \in SeenAccounts' /\ SeenAccounts \subseteq SeenAccounts'
    <2>1. i \in (Running \cup Done)'
      BY <1>1, <1>5 DEF Running, Done
    <2>2. Running \cup Done \subseteq (Running \cup Done)'
      BY <1>1, <1>5, <2>1 DEF Running, Done
    <2> QED
      BY <1>1, <2>1, <2>2 DEF SeenAccounts
  <1>8. \A b \in Accounts : proof'[b] = Anything => b \in SeenAccounts'
    BY <1>4, <1>5, <1>7
  <1>9. ChecksOK'
    BY <1>1, <1>2, <1>5, <1>6, <1>8 DEF ChecksOK
  <1> QED
    BY <1>1, <1>3, <1>9 DEF RatesInv

LEMMA AdmitStep ==
  ASSUME RatesInv, ChecksInv', NEW i \in Channels, Admit(i)
  PROVE  RatesInv' /\ acct' = acct
  <1> DEFINE a == AccountOf(i)
             c == [NoCheck EXCEPT !.step = "billing"]
             r == ruleStateFor(a)
             e == proof[a]
  <1>1. /\ a \notin SeenAccounts /\ SetRule(a, r) /\ chk' = [chk EXCEPT ![i] = c]
        /\ UNCHANGED <<env, outside, acct, disk, alive, pc, now, probe, proof, day>>
    BY DEF Admit, Check, outside
  <1>2. i \in Channels /\ a \in Accounts
    BY ChannelAccounts DEF RatesInv
  <1>3. proof \in [Accounts -> Evidence] /\ e \in Evidence /\ e # Anything
    BY <1>1, <1>2 DEF RatesInv, ChecksOK
  <1>4. c \in Checks /\ c.step = "billing" /\ c.failed = NoRule
    BY NoCheckIs DEF Asking
  <1>5. Fit(r, a) /\ r.id = ident[a]
    BY <1>2, RuleFor
  <1> HIDE DEF c, r
  <1>6. OneRule(a, r) /\ FileOK(mem') /\ mem'.version = 6
    BY <1>1, <1>2, <1>5, RuleSet
  <1>7. CheckFits(c, r, ident[a], e, Own(a))
    BY <1>3, <1>4, <1>5 DEF CheckFits
  <1>8. \A j \in Admitted \ {i} : AccountOf(j) # a
    BY <1>1 DEF SeenAccounts, Admitted
  <1>9. CycleOK'
    BY <1>1 DEF RatesInv, CycleOK
  <1>10. proof' = [proof EXCEPT ![a] = e]
    BY <1>1, <1>3
  <1>11. c.step # "none"
    BY <1>4
  <1>12. UNCHANGED <<env, outside, disk>> /\ chk' = [chk EXCEPT ![i] = c]
    BY <1>1
  <1> HIDE DEF e
  <1>13. RatesInv'
    BY <1>2, <1>3, <1>4, <1>6, <1>7, <1>8, <1>9, <1>10, <1>11, <1>12, CheckKeepsInv
  <1> QED
    BY <1>1, <1>13

\* A check of an account that is listed: its record, its rule, its evidence.
LEMMA CheckFacts ==
  ASSUME RatesInv, NEW i \in Channels, chk[i].step \in Asking \cup {"apply"}
  PROVE  LET a == AccountOf(i) IN
         /\ a \in Accounts /\ up[a] \in Upstream /\ proof[a] \in Evidence
         /\ proof \in [Accounts -> Evidence] /\ chk \in [Channels -> Checks]
         /\ chk[i] \in Checks
         /\ CheckFits(chk[i], mem.rules[a], ident[a], proof[a], Own(a))
         /\ \A j \in Admitted \ {i} : AccountOf(j) # a
         /\ chk[i].step \in Asking => proof[a] \in Pricing /\ mem.rules[a].id = ident[a]
         /\ now \in 1..day
  <1> DEFINE a == AccountOf(i)
  <1>1. a \in Accounts
    BY ChannelAccounts DEF RatesInv
  <1>2. /\ up[a] \in Upstream /\ proof[a] \in Evidence /\ proof \in [Accounts -> Evidence]
        /\ chk \in [Channels -> Checks] /\ chk[i] \in Checks
        /\ CheckFits(chk[i], mem.rules[a], ident[a], proof[a], Own(a))
    BY <1>1 DEF RatesInv, WorldOK, ChecksOK
  <1>3. i \in Running
    BY DEF Running, Asking
  <1>4. \A j \in Admitted \ {i} : AccountOf(j) # a
    BY <1>3 DEF RatesInv, ChecksInv, Admitted
  <1>5. chk[i].step \in Asking => proof[a] \in Pricing /\ mem.rules[a].id = ident[a]
    BY <1>2 DEF CheckFits, Evidence
  <1>6. now \in 1..day
    <2>1. pc # "idle"
      BY <1>3 DEF RatesInv, ChecksInv, ChecksDontShare
    <2> QED
      BY <2>1 DEF RatesInv, CycleOK, WorldOK
  <1> QED
    BY <1>1, <1>2, <1>4, <1>5, <1>6

\* A check moves: what has to be shown.
LEMMA CheckMoves ==
  ASSUME RatesInv, ChecksInv', NEW i \in Channels, chk[i].step \in Asking \cup {"apply"},
         OnCheck, acct' \in [Accounts -> Int],
         NEW c \in Checks, c.step # "none", Check(i, c),
         NEW r, Fit(r, AccountOf(i)),
         SetRule(AccountOf(i), r) \/ (UNCHANGED mem /\ r = mem.rules[AccountOf(i)]),
         NEW e \in Evidence,
         \/ proof' = [proof EXCEPT ![AccountOf(i)] = e]
         \/ UNCHANGED proof /\ e = proof[AccountOf(i)],
         CheckFits(c, r, ident[AccountOf(i)], e, Own(AccountOf(i)))
  PROVE  RatesInv'
  <1> DEFINE a == AccountOf(i)
  <1>1. /\ a \in Accounts /\ proof \in [Accounts -> Evidence]
        /\ \A j \in Admitted \ {i} : AccountOf(j) # a
    BY CheckFacts
  <1>2. OneRule(a, r) /\ FileOK(mem') /\ mem'.version = 6
    BY <1>1, RuleSet
  <1>3. /\ UNCHANGED <<env, outside, disk, pc, now, probe, alive, day>>
        /\ chk' = [chk EXCEPT ![i] = c]
    BY DEF OnCheck, Quietly, Check, outside
  <1>4. CycleOK'
    BY <1>3 DEF RatesInv, CycleOK
  <1>5. proof' = [proof EXCEPT ![a] = e]
    BY <1>1
  <1> QED
    BY <1>1, <1>2, <1>3, <1>4, <1>5, CheckKeepsInv

\* What was seen counts, and nothing that was seen before is lost.
LEMMA BothIs ==
  ASSUME NEW e \in Pricing, NEW f \in Pricing
  PROVE  /\ Both(e, f) \in Pricing
         /\ \A p \in f.lo .. f.hi : p \in Both(e, f).lo .. Both(e, f).hi
  <1>1. CASE f = NoProof
    <2>1. Both(e, f) = e
      BY <1>1 DEF Both
    <2>2. f.lo .. f.hi = {}
      BY <1>1 DEF NoProof
    <2> QED
      BY <2>1, <2>2
  <1>2. CASE f # NoProof
    <2> DEFINE g == With(e, f.lo)
               h == With(g, f.hi)
    <2>1. f # Anything /\ f.lo \in Prices /\ f.hi \in Prices /\ f.lo \in Nat /\ f.hi \in Nat
      BY <1>2, PricingFacts
    <2>2. g \in Pricing /\ g # NoProof /\ f.lo \in g.lo .. g.hi
      BY <2>1, WithKeeps
    <2>3. Both(e, f) = h
      BY <1>2, <2>1 DEF Both
    <2> HIDE DEF g
    <2>4. h \in Pricing /\ f.hi \in h.lo .. h.hi /\ h.lo <= g.lo /\ g.hi <= h.hi
      BY <2>1, <2>2, WithKeeps
    <2> HIDE DEF h
    <2>5. h.lo \in Nat /\ h.hi \in Nat /\ g.lo \in Nat /\ g.hi \in Nat
      BY <2>2, <2>4, PricingFacts
    <2>6. h.lo <= f.lo /\ f.hi <= h.hi
      BY <2>1, <2>2, <2>4, <2>5
    <2>7. \A p \in f.lo .. f.hi : p \in h.lo .. h.hi
      BY <2>1, <2>5, <2>6
    <2> QED
      BY <2>3, <2>4, <2>7
  <1> QED
    BY <1>1, <1>2

LEMMA SawPrice ==
  ASSUME NEW e \in Pricing, NEW p \in Prices
  PROVE  LET f == Both(e, With(NoProof, p))
         IN  f \in Pricing /\ f \in Evidence /\ f # Anything /\ p \in f.lo .. f.hi
  <1> DEFINE g == With(NoProof, p)
  <1>1. g \in Pricing /\ p \in g.lo .. g.hi
    BY NoProofIs, WithKeeps
  <1> HIDE DEF g
  <1>2. Both(e, g) \in Pricing /\ p \in Both(e, g).lo .. Both(e, g).hi
    BY <1>1, BothIs
  <1> QED
    BY <1>2, PricingFacts DEF Evidence, g

\* Where a check goes on.
LEMMA NextCheck ==
  ASSUME NEW s \in Asking \cup {"apply", "done"}
  PROVE  LET c == [NoCheck EXCEPT !.step = s]
         IN  /\ c \in Checks /\ c.step = s /\ c.step # "none" /\ c.failed = NoRule
             /\ \A r, id, e, own :
                  CheckFits(c, r, id, e, own) <=> /\ s \in Asking => r.id = id /\ e # Anything
                                                  /\ s = "apply" /\ own => Ready(r, e)
  <1> DEFINE c == [NoCheck EXCEPT !.step = s]
  <1>1. c \in Checks /\ c.step = s /\ c.failed = NoRule
    BY NoCheckIs
  <1>2. s # "none"
    BY DEF Asking
  <1> HIDE DEF c
  <1>3. \A r, id, e, own :
          CheckFits(c, r, id, e, own) <=> /\ s \in Asking => r.id = id /\ e # Anything
                                          /\ s = "apply" /\ own => Ready(r, e)
    BY <1>1 DEF CheckFits
  <1> QED
    BY <1>1, <1>2, <1>3 DEF c

\* A direct template gave a price, which was seen: it is applied.
LEMMA FoundPrice ==
  ASSUME RatesInv, ChecksInv', NEW i \in Channels, chk[i].step \in Asking,
         OnCheck, UNCHANGED acct, Check(i, [NoCheck EXCEPT !.step = "apply"]),
         NEW x, Follows(x, mem.rules[AccountOf(i)]), SetRule(AccountOf(i), x),
         x.cand \in Prices, Saw(AccountOf(i), With(NoProof, x.cand))
  PROVE  RatesInv'
  <1> DEFINE a == AccountOf(i)
             c == [NoCheck EXCEPT !.step = "apply"]
             e == Both(proof[a], With(NoProof, x.cand))
  <1>1. a \in Accounts /\ proof[a] \in Pricing
    BY CheckFacts
  <1>2. e \in Evidence /\ x.cand \in e.lo .. e.hi
    BY <1>1, SawPrice
  <1>3. proof' = [proof EXCEPT ![a] = e]
    BY DEF Saw
  <1> HIDE DEF e
  <1>4. Ready(x, e)
    BY <1>2 DEF Ready
  <1>5. Fit(x, a)
    BY <1>1, FitFacts
  <1>6. c \in Checks /\ c.step # "none" /\ CheckFits(c, x, ident[a], e, Own(a))
    <2> DEFINE own == Own(a)
               id == ident[a]
               s == "apply"
    <2>1. s \in Asking \cup {"apply", "done"} /\ s \notin Asking /\ c = [NoCheck EXCEPT !.step = s]
      BY DEF Asking
    <2> HIDE DEF own, id, s, c
    <2>2. c \in Checks /\ c.step # "none" /\ CheckFits(c, x, id, e, own)
      BY <1>4, <2>1, NextCheck
    <2> QED
      BY <2>2 DEF own, id
  <1>7. acct' \in [Accounts -> Int]
    BY DEF RatesInv, CycleOK
  <1> HIDE DEF c
  <1> QED
    BY <1>2, <1>3, <1>5, <1>6, <1>7, CheckMoves DEF c

\* A template that is through without a price: usage is asked.
LEMMA GoesToUsage ==
  ASSUME RatesInv, ChecksInv', NEW i \in Channels, chk[i].step \in Asking,
         OnCheck, UNCHANGED acct,
         NEW f, f = NoRule \/ Follows(f, mem.rules[AccountOf(i)]), ToUsage(i, f),
         NEW e \in Pricing,
         proof' = [proof EXCEPT ![AccountOf(i)] = e] \/ (UNCHANGED proof /\ e = proof[AccountOf(i)])
  PROVE  RatesInv'
  <1> DEFINE a == AccountOf(i)
             c == [NoCheck EXCEPT !.step = "usage"]
             r == mem.rules[a]
             x == DirectFailed(r, f)
  <1>1. a \in Accounts /\ r.id = ident[a]
    BY CheckFacts
  <1>2. SetRule(a, x) /\ Check(i, c)
    BY DEF ToUsage
  <1>3. Fit(r, a) /\ r \in Rule /\ OfOneTemplate(r)
    BY <1>1, FitFacts
  <1>4. f \in Rule /\ OfOneTemplate(f)
    <2>1. Fit(NoRule, a)
      BY <1>1, FitFacts
    <2>2. NoRule \in Rule /\ OfOneTemplate(NoRule)
      BY <1>1, <2>1, FitFacts
    <2> QED
      BY <2>2 DEF Follows
  <1>5. x = r \/ Follows(x, r)
    <2> HIDE DEF r
    <2> QED
      BY <1>3, <1>4, FailedRule DEF r
  <1> HIDE DEF x, r
  <1>6. Fit(x, a) /\ x.id = ident[a]
    BY <1>1, <1>3, <1>5, FitFacts DEF Follows
  <1>7. c \in Checks /\ c.step # "none" /\ CheckFits(c, x, ident[a], e, Own(a))
    <2> DEFINE own == Own(a)
               id == ident[a]
               s == "usage"
    <2>1. s \in Asking \cup {"apply", "done"} /\ s # "apply" /\ c = [NoCheck EXCEPT !.step = s]
      BY DEF Asking
    <2>2. x.id = id /\ e # Anything
      BY <1>6, PricingFacts
    <2> HIDE DEF own, id, s, c
    <2>3. c \in Checks /\ c.step # "none" /\ CheckFits(c, x, id, e, own)
      BY <2>1, <2>2, NextCheck
    <2> QED
      BY <2>3 DEF own, id
  <1>8. acct' \in [Accounts -> Int] /\ e \in Evidence
    BY DEF RatesInv, CycleOK, Evidence
  <1> HIDE DEF c
  <1> QED
    BY <1>2, <1>6, <1>7, <1>8, CheckMoves

\* A check that is still asked: its record moves, its rule does not.
LEMMA MovesOn ==
  ASSUME RatesInv, ChecksInv', NEW i \in Channels, chk[i].step \in Asking,
         OnCheck, UNCHANGED <<acct, mem>>,
         NEW c \in Checks, c.step \in {"pricing", "log"}, Check(i, c),
         c.failed = NoRule \/ Follows(c.failed, mem.rules[AccountOf(i)]),
         NEW e \in Pricing,
         proof' = [proof EXCEPT ![AccountOf(i)] = e] \/ (UNCHANGED proof /\ e = proof[AccountOf(i)])
  PROVE  RatesInv'
  <1> DEFINE a == AccountOf(i)
             r == mem.rules[a]
  <1>1. a \in Accounts /\ r.id = ident[a] /\ Fit(r, a)
    BY CheckFacts, FitFacts
  <1>2. e # Anything /\ e \in Evidence
    BY PricingFacts DEF Evidence
  <1>3. CheckFits(c, r, ident[a], e, Own(a))
    BY <1>1, <1>2 DEF CheckFits
  <1>4. c.step # "none" /\ acct' \in [Accounts -> Int]
    BY DEF RatesInv, CycleOK
  <1> QED
    BY <1>1, <1>2, <1>3, <1>4, CheckMoves

LEMMA DirectFacts ==
  ASSUME RatesInv, NEW i \in Channels, chk[i].step \in Asking
  PROVE  LET a == AccountOf(i) IN
         /\ a \in Accounts /\ mem.rules[a] \in Rule /\ OfOneTemplate(mem.rules[a])
         /\ up[a] \in Upstream /\ proof[a] \in Pricing /\ chk[i] \in Checks
         /\ up[a].group \in Keys /\ up[a].price \in [Keys -> Prices]
         /\ up[a].price[up[a].group] \in Prices
         /\ chk[i].failed = NoRule \/ Follows(chk[i].failed, mem.rules[a])
         /\ Prices \subseteq Nat /\ Keys \subseteq Nat /\ chk[i].table \in Tables
  <1> DEFINE a == AccountOf(i)
  <1>1. /\ a \in Accounts /\ up[a] \in Upstream /\ proof[a] \in Pricing /\ chk[i] \in Checks
        /\ chk[i].failed = NoRule \/ Follows(chk[i].failed, mem.rules[a])
    BY CheckFacts DEF CheckFits
  <1>2. mem.rules[a] \in Rule /\ OfOneTemplate(mem.rules[a])
    BY <1>1, FitFacts
  <1>3. up[a].group \in Keys /\ up[a].price \in [Keys -> Prices]
    BY <1>1 DEF Upstream
  <1>4. Prices \subseteq Nat /\ Keys \subseteq Nat
    BY AccountAssumption
  <1>5. chk[i].table \in Tables
    BY <1>1 DEF Checks
  <1> QED
    BY <1>1, <1>2, <1>3, <1>4, <1>5

LEMMA BillingStep ==
  ASSUME RatesInv, ChecksInv', NEW i \in Channels, BillingAnswers(i)
  PROVE  RatesInv' /\ acct' = acct
  <1> DEFINE a == AccountOf(i)
             r == mem.rules[a]
             price == up[a].price[up[a].group]
             outcome == Billed(CopyFor(r, "billing"), price)
             x == [outcome.rule EXCEPT !.tmpl = "billing"]
             d == [chk[i] EXCEPT !.step = "pricing", !.failed = x]
  <1>1. /\ chk[i].step = "billing" /\ OnCheck /\ UNCHANGED acct
        /\ IF outcome.fine THEN SetRule(a, x) /\ Check(i, [NoCheck EXCEPT !.step = "apply"])
           ELSE Check(i, d) /\ UNCHANGED mem
        /\ Saw(a, With(NoProof, price))
    BY DEF BillingAnswers, Answers, Direct
  <1>2. chk[i].step \in Asking
    BY <1>1 DEF Asking
  <1>3. /\ a \in Accounts /\ r \in Rule /\ OfOneTemplate(r) /\ price \in Prices /\ price \in Nat
        /\ proof[a] \in Pricing /\ chk[i] \in Checks
    BY <1>2, DirectFacts
  <1>4. Follows(x, r) /\ (outcome.fine => x.cand = price)
    <2> DEFINE c == CopyFor(r, "billing")
               t == "billing"
               none == 0
               table == <<>>
    <2>1. /\ c = CopyFor(r, t) /\ outcome = Billed(c, price) /\ x = [outcome.rule EXCEPT !.tmpl = t]
          /\ t = "billing" /\ t \in {"billing", "newapi"} /\ none \in Nat
          /\ none \in DOMAIN table => table[none] \in Nat
      OBVIOUS
    <2> HIDE DEF r, price, outcome, c, x, t, none, table
    <2> QED
      BY <1>3, <2>1, DirectRules
  <1>5. CASE outcome.fine
    <2>1. x.cand = price
      BY <1>4, <1>5
    <2>2. SetRule(a, x) /\ Check(i, [NoCheck EXCEPT !.step = "apply"])
      BY <1>1, <1>5
    <2> HIDE DEF x, price, outcome
    <2> QED
      BY <1>1, <1>2, <1>3, <1>4, <2>1, <2>2, FoundPrice
  <1>6. CASE ~outcome.fine
    <2>1. Check(i, d) /\ UNCHANGED mem
      BY <1>1, <1>6
    <2> HIDE DEF x, price, outcome
    <2>2. x \in Rule
      BY <1>4 DEF Follows
    <2>3. d \in Checks /\ d.step = "pricing" /\ d.failed = x
      BY <1>3, <2>2 DEF Checks, Asking
    <2> DEFINE e == Both(proof[a], With(NoProof, price))
    <2>4. e \in Pricing /\ proof' = [proof EXCEPT ![a] = e]
      BY <1>1, <1>3, SawPrice DEF Saw
    <2> HIDE DEF d, e
    <2>5. RatesInv'
      BY <1>1, <1>2, <1>4, <2>1, <2>3, <2>4, MovesOn
    <2> QED
      BY <1>1, <2>5
  <1> QED
    BY <1>5, <1>6, <1>1

LEMMA BillingMissedStep ==
  ASSUME RatesInv, ChecksInv', NEW i \in Channels, BillingMissed(i)
  PROVE  RatesInv' /\ acct' = acct
  <1> DEFINE d == [chk[i] EXCEPT !.step = "pricing"]
             e == proof[AccountOf(i)]
  <1>1. /\ chk[i].step = "billing" /\ OnCheck /\ UNCHANGED <<acct, mem, proof>> /\ Check(i, d)
    BY DEF BillingMissed, Missed
  <1>2. chk[i].step \in Asking
    BY <1>1 DEF Asking
  <1>3. /\ chk[i] \in Checks /\ e \in Pricing
        /\ chk[i].failed = NoRule \/ Follows(chk[i].failed, mem.rules[AccountOf(i)])
    BY <1>2, DirectFacts
  <1>4. d \in Checks /\ d.step = "pricing" /\ d.failed = chk[i].failed
    BY <1>3 DEF Checks, Asking
  <1> HIDE DEF d, e
  <1> QED
    BY <1>1, <1>2, <1>3, <1>4, MovesOn DEF e

LEMMA PricingStep ==
  ASSUME RatesInv, ChecksInv', NEW i \in Channels, PricingAnswers(i)
  PROVE  RatesInv' /\ acct' = acct
  <1> DEFINE a == AccountOf(i)
             e == proof[a]
  <1>1. /\ chk[i].step = "pricing" /\ OnCheck /\ UNCHANGED <<acct, mem, proof>>
        /\ \E t \in {<<>>, Table(a)} : Check(i, [chk[i] EXCEPT !.step = "log", !.table = t])
    BY DEF PricingAnswers, Answers
  <1>2. chk[i].step \in Asking
    BY <1>1 DEF Asking
  <1>3. /\ chk[i] \in Checks /\ e \in Pricing /\ up[a].price \in [Keys -> Prices]
        /\ chk[i].failed = NoRule \/ Follows(chk[i].failed, mem.rules[a])
    BY <1>2, DirectFacts
  <1>4. Table(a) \in Tables /\ <<>> \in Tables
    BY <1>3 DEF Table, Tables
  <1>5. PICK t \in Tables : Check(i, [chk[i] EXCEPT !.step = "log", !.table = t])
    BY <1>1, <1>4
  <1> DEFINE d == [chk[i] EXCEPT !.step = "log", !.table = t]
  <1>6. d \in Checks /\ d.step = "log" /\ d.failed = chk[i].failed
    <2> HIDE DEF Tables
    <2> QED
      BY <1>3 DEF Checks, Asking
  <1>7. Check(i, d)
    BY <1>5
  <1> HIDE DEF d, e
  <1> QED
    BY <1>1, <1>2, <1>3, <1>6, <1>7, MovesOn DEF e

LEMMA PricingMissedStep ==
  ASSUME RatesInv, ChecksInv', NEW i \in Channels, PricingMissed(i)
  PROVE  RatesInv' /\ acct' = acct
  <1> DEFINE e == proof[AccountOf(i)]
             f == chk[i].failed
  <1>1. /\ chk[i].step = "pricing" /\ OnCheck /\ UNCHANGED <<acct, proof>> /\ ToUsage(i, f)
    BY DEF PricingMissed, Missed
  <1>2. chk[i].step \in Asking
    BY <1>1 DEF Asking
  <1>3. e \in Pricing /\ (f = NoRule \/ Follows(f, mem.rules[AccountOf(i)]))
    BY <1>2, DirectFacts
  <1> HIDE DEF e, f
  <1> QED
    BY <1>1, <1>2, <1>3, GoesToUsage DEF e

\* The latest log, of a group in the table or with a ratio of its own.
LEMMA LogStep ==
  ASSUME RatesInv, ChecksInv', NEW i \in Channels, LogAnswers(i)
  PROVE  RatesInv' /\ acct' = acct
  <1> DEFINE a == AccountOf(i)
             r == mem.rules[a]
             c == CopyFor(r, "newapi")
             log == up[a].log
             table == chk[i].table
             outcome == IF table = <<>> THEN Logged(c, log.group, log.ratio)
                        ELSE Priced(c, table, log.group)
             x == [outcome.rule EXCEPT !.tmpl = "newapi"]
             price == IF log.group \in DOMAIN table THEN table[log.group] ELSE log.ratio
  <1>1. /\ chk[i].step = "log" /\ OnCheck /\ UNCHANGED acct /\ log # NoLog
        /\ IF outcome.fine THEN SetRule(a, x) /\ Check(i, [NoCheck EXCEPT !.step = "apply"])
           ELSE ToUsage(i, x)
        /\ Saw(a, With(NoProof, price))
    BY DEF LogAnswers, Direct
  <1>2. chk[i].step \in Asking
    BY <1>1 DEF Asking
  <1>3. /\ a \in Accounts /\ r \in Rule /\ OfOneTemplate(r) /\ up[a] \in Upstream
        /\ proof[a] \in Pricing /\ table \in Tables /\ Prices \subseteq Nat /\ Keys \subseteq Nat
    BY <1>2, DirectFacts
  <1>4. log.group \in Keys /\ log.ratio \in Prices
    BY <1>1, <1>3 DEF Upstream
  <1>5. \A k \in DOMAIN table : table[k] \in Prices
    BY <1>3 DEF Tables
  <1>6. price \in Prices
    BY <1>4, <1>5
  <1>7. Follows(x, r) /\ (outcome.fine => x.cand = price)
    <2> DEFINE t == "newapi"
               p == log.ratio
               g == log.group
    <2>1. /\ c = CopyFor(r, t)
          /\ outcome = IF table = <<>> THEN Logged(c, g, p) ELSE Priced(c, table, g)
          /\ x = [outcome.rule EXCEPT !.tmpl = t]
          /\ t = "newapi" /\ t \in {"billing", "newapi"} /\ p \in Nat /\ g \in Nat
          /\ g \in DOMAIN table => table[g] \in Nat
          /\ price = IF g \in DOMAIN table THEN table[g] ELSE p
      BY <1>3, <1>4, <1>5
    <2>2. table = <<>> => g \notin DOMAIN table
      OBVIOUS
    <2> HIDE DEF r, c, table, outcome, x, t, p, g, price
    <2>3. CASE table = <<>>
      <3>1. outcome = Logged(c, g, p) /\ price = p
        BY <2>1, <2>2, <2>3
      <3> QED
        BY <1>3, <2>1, <3>1, DirectRules
    <2>4. CASE table # <<>>
      <3>1. outcome = Priced(c, table, g)
        BY <2>1, <2>4
      <3>2. Follows(x, r) /\ (outcome.fine => g \in DOMAIN table /\ x.cand = table[g])
        BY <1>3, <2>1, <3>1, DirectRules
      <3> QED
        BY <2>1, <3>2
    <2> QED
      BY <2>3, <2>4
  <1> DEFINE e == Both(proof[a], With(NoProof, price))
  <1>8. e \in Pricing /\ proof' = [proof EXCEPT ![a] = e]
    BY <1>1, <1>3, <1>6, SawPrice DEF Saw
  <1> HIDE DEF outcome, x, price, e
  <1>9. CASE outcome.fine
    <2>1. x.cand = price /\ SetRule(a, x) /\ Check(i, [NoCheck EXCEPT !.step = "apply"])
      BY <1>1, <1>7, <1>9
    <2> QED
      BY <1>1, <1>2, <1>3, <1>6, <1>7, <2>1, FoundPrice
  <1>10. CASE ~outcome.fine
    <2>1. ToUsage(i, x)
      BY <1>1, <1>10
    <2> QED
      BY <1>1, <1>2, <1>7, <1>8, <2>1, GoesToUsage
  <1> QED
    BY <1>1, <1>9, <1>10

LEMMA LogFailsStep ==
  ASSUME RatesInv, ChecksInv', NEW i \in Channels, LogFails(i)
  PROVE  RatesInv' /\ acct' = acct
  <1> DEFINE a == AccountOf(i)
             r == mem.rules[a]
             c == CopyFor(r, "newapi")
             table == chk[i].table
             outcome == IF table = <<>> THEN MatchedBadly(c) ELSE PricedWithoutLog(c, table)
             x == [outcome.rule EXCEPT !.tmpl = "newapi"]
             e == proof[a]
  <1>1. chk[i].step = "log" /\ OnCheck /\ UNCHANGED <<acct, proof>> /\ ToUsage(i, x)
    BY DEF LogFails
  <1>2. chk[i].step \in Asking
    BY <1>1 DEF Asking
  <1>3. r \in Rule /\ OfOneTemplate(r) /\ e \in Pricing
    BY <1>2, DirectFacts
  <1>4. Follows(x, r)
    <2> DEFINE t == "newapi"
               none == 0
    <2>1. /\ c = CopyFor(r, t)
          /\ outcome = MatchedBadly(c) \/ outcome = PricedWithoutLog(c, table)
          /\ x = [outcome.rule EXCEPT !.tmpl = t]
          /\ t = "newapi" /\ t \in {"billing", "newapi"} /\ none \in Nat
      OBVIOUS
    <2>2. none \in DOMAIN table => table[none] \in Nat
      <3>1. DOMAIN table \subseteq Keys
        BY <1>2, DirectFacts DEF Tables
      <3>2. none \notin Keys
        BY AccountAssumption
      <3> QED
        BY <3>1, <3>2
    <2> HIDE DEF r, c, table, outcome, x, t, none
    <2> QED
      BY <1>3, <2>1, <2>2, DirectRules
  <1> HIDE DEF x, e
  <1> QED
    BY <1>1, <1>2, <1>3, <1>4, GoesToUsage DEF e

\* What the counters tell is what was paid since they started, or nobody can tell.
LEMMA UsageStep ==
  ASSUME RatesInv, ChecksInv', NEW i \in Channels, UsageAnswers(i)
  PROVE  RatesInv' /\ acct' = acct
  <1> DEFINE a == AccountOf(i)
             r == mem.rules[a]
             u == up[a]
             x == Used(r, now, Today(a))
             f == IF x.blind THEN Anything ELSE u.seen
             e == Both(proof[a], f)
             c == [NoCheck EXCEPT !.step = "apply"]
  <1>1. /\ chk[i].step = "usage" /\ OnCheck /\ UNCHANGED acct
        /\ SetRule(a, x) /\ Check(i, c) /\ proof' = [proof EXCEPT ![a] = e]
    BY DEF UsageAnswers, Answers, Saw
  <1>2. chk[i].step \in Asking
    BY <1>1 DEF Asking
  <1>3. /\ a \in Accounts /\ u \in Upstream /\ proof[a] \in Pricing /\ r.id = ident[a]
        /\ now \in 1..day
    BY <1>2, CheckFacts
  <1>4. /\ Fit(r, a) /\ ident[a] \in Nat \ {0} /\ day \in Nat
        /\ Own(a) => Within(u.cost, u.actual, u.seen)
    BY <1>3, FitFacts DEF RatesInv, WorldOK
  <1>5. Fit(x, a) /\ (Own(a) => Backed(x, u.seen))
    <2> DEFINE own == Own(a)
               id == ident[a]
    <2>1. /\ Fits(r, u, id, day, own) /\ (own => Within(u.cost, u.actual, u.seen))
          /\ id \in Nat \ {0} /\ r.id = id
          /\ x = Used(r, now, [cost |-> u.cost, actual |-> u.actual, epoch |-> u.epoch])
      BY <1>3, <1>4 DEF Fit, Today
    <2> HIDE DEF own, id, u, r, x
    <2>2. Fits(x, u, id, day, own) /\ (own => Backed(x, u.seen))
      BY <1>3, <1>4, <2>1, UsedRule
    <2> QED
      BY <2>2 DEF own, id, u, Fit
  <1>6. u.seen \in Pricing
    BY <1>3 DEF Upstream
  <1> HIDE DEF x, u
  <1>7. e \in Evidence /\ (Own(a) => Ready(x, e))
    <2>1. CASE x.blind
      <3>1. e = Anything
        BY <2>1, NoProofIs DEF Both
      <3> QED
        BY <3>1 DEF Evidence, Ready
    <2>2. CASE ~x.blind
      <3>1. e = Both(proof[a], u.seen)
        BY <2>2
      <3>2. e \in Pricing /\ \A p \in u.seen.lo .. u.seen.hi : p \in e.lo .. e.hi
        BY <1>3, <1>6, <3>1, BothIs
      <3> HIDE DEF e
      <3> QED
        BY <1>5, <2>2, <3>2 DEF Backed, Ready, Evidence
    <2> QED
      BY <2>1, <2>2
  <1> HIDE DEF e
  <1>8. c \in Checks /\ c.step # "none" /\ CheckFits(c, x, ident[a], e, Own(a))
    <2> DEFINE own == Own(a)
               id == ident[a]
               s == "apply"
    <2>1. s \in Asking \cup {"apply", "done"} /\ s \notin Asking /\ c = [NoCheck EXCEPT !.step = s]
          /\ (own => Ready(x, e))
      BY <1>7 DEF Asking
    <2> HIDE DEF own, id, s, c
    <2>2. c \in Checks /\ c.step # "none" /\ CheckFits(c, x, id, e, own)
      BY <2>1, NextCheck
    <2> QED
      BY <2>2 DEF own, id
  <1>9. acct' \in [Accounts -> Int]
    BY <1>1 DEF RatesInv, CycleOK
  <1> HIDE DEF c
  <1> QED
    BY <1>1, <1>2, <1>5, <1>7, <1>8, <1>9, CheckMoves

\* A check that is done leaves whatever rule fits.
LEMMA CheckDone ==
  ASSUME RatesInv, ChecksInv', NEW i \in Channels, chk[i].step \in Asking \cup {"apply"},
         OnCheck, acct' \in [Accounts -> Int], UNCHANGED proof,
         Check(i, [NoCheck EXCEPT !.step = "done"]),
         NEW r, Fit(r, AccountOf(i)),
         SetRule(AccountOf(i), r) \/ (UNCHANGED mem /\ r = mem.rules[AccountOf(i)])
  PROVE  RatesInv'
  <1> DEFINE a == AccountOf(i)
             c == [NoCheck EXCEPT !.step = "done"]
             e == proof[a]
  <1>1. e \in Evidence
    BY CheckFacts
  <1>2. c \in Checks /\ c.step # "none" /\ CheckFits(c, r, ident[a], e, Own(a))
    <2> DEFINE own == Own(a)
               id == ident[a]
               s == "done"
    <2>1. /\ s \in Asking \cup {"apply", "done"} /\ s \notin Asking /\ s # "apply"
          /\ c = [NoCheck EXCEPT !.step = s]
      BY DEF Asking
    <2> HIDE DEF own, id, s, c
    <2>2. c \in Checks /\ c.step # "none" /\ CheckFits(c, r, id, e, own)
      BY <2>1, NextCheck
    <2> QED
      BY <2>2 DEF own, id
  <1>3. Check(i, c) /\ UNCHANGED proof /\ e = proof[a]
    OBVIOUS
  <1> HIDE DEF c, e
  <1> QED
    BY <1>1, <1>2, <1>3, CheckMoves

LEMMA UsageFailsStep ==
  ASSUME RatesInv, ChecksInv', NEW i \in Channels, UsageMissed(i) \/ UsageInvalid(i)
  PROVE  RatesInv' /\ acct' = acct
  <1> DEFINE a == AccountOf(i)
             r == mem.rules[a]
             k == CopyFor(r, "usage")
             x == UsedBadly(r)
             c == [NoCheck EXCEPT !.step = "done"]
  <1>1. /\ chk[i].step = "usage" /\ OnCheck /\ UNCHANGED <<acct, proof>> /\ Check(i, c)
        /\ UNCHANGED mem \/ SetRule(a, x)
    BY DEF UsageMissed, Missed, UsageInvalid
  <1>2. chk[i].step \in Asking
    BY <1>1 DEF Asking
  <1>3. a \in Accounts /\ r \in Rule /\ OfOneTemplate(r)
    BY <1>2, DirectFacts
  <1>4. Fit(r, a) /\ Fit(x, a)
    <2>1. k = r \/ k = resetPriceKey(r)
      BY DEF CopyFor
    <2>2. Follows(resetPriceKey(r), r)
      <3> HIDE DEF r
      <3> QED
        BY <1>3, Resets
    <2>3. Fit(r, a)
      BY <1>3, FitFacts
    <2> HIDE DEF r, k
    <2>4. Fit(k, a) /\ k \in Rule /\ OfOneTemplate(k)
      BY <1>3, <2>1, <2>2, <2>3, FitFacts
    <2>5. Follows(resetUsage(k), k)
      BY <2>4, Resets
    <2>6. x = resetUsage(k)
      BY DEF UsedBadly, k, r
    <2> HIDE DEF x
    <2> QED
      BY <1>3, <2>3, <2>4, <2>5, <2>6, FitFacts
  <1>5. acct' \in [Accounts -> Int]
    BY <1>1 DEF RatesInv, CycleOK
  <1> HIDE DEF x
  <1>6. RatesInv'
    <2>1. CASE UNCHANGED mem
      <3> HIDE DEF r
      <3>1. r = mem.rules[a]
        BY DEF r
      <3> QED
        BY <1>1, <1>2, <1>4, <1>5, <2>1, <3>1, CheckDone
    <2>2. CASE SetRule(a, x)
      BY <1>1, <1>2, <1>4, <1>5, <2>2, CheckDone
    <2> QED
      BY <1>1, <2>1, <2>2
  <1> QED
    BY <1>1, <1>6

\* The rate that is written is explained by what the cycle saw.
LEMMA ApplyStep ==
  ASSUME RatesInv, ChecksInv', NEW i \in Channels, applyCandidate(i)
  PROVE  RatesInv' /\ OwnTrue
  <1> DEFINE a == AccountOf(i)
             r == mem.rules[a]
             e == proof[a]
             n == rechargeDiscount(a)
  <1>1. /\ chk[i].step = "apply" /\ OnCheck /\ UNCHANGED <<mem, proof>>
        /\ Keep(a) \/ Put(a) \/ PutFails(a)
        /\ Check(i, [NoCheck EXCEPT !.step = "done"])
    BY DEF applyCandidate
  <1>2. a \in Accounts /\ CheckFits(chk[i], r, ident[a], e, Own(a)) /\ e \in Evidence
    BY <1>1, CheckFacts
  <1>3. Fit(r, a) /\ r \in Rule
    BY <1>2, FitFacts
  <1>4. /\ acct' \in [Accounts -> Int] /\ \A b \in Accounts \ {a} : acct'[b] = acct[b]
        /\ acct'[a] # acct[a] => r.cand # 0 /\ acct'[a] = Final(a)
    BY <1>1, <1>2, WriteIs
  <1>5. RatesInv'
    <2> HIDE DEF r
    <2>1. UNCHANGED mem /\ r = mem.rules[a]
      BY <1>1 DEF r
    <2> QED
      BY <1>1, <1>3, <1>4, <2>1, CheckDone
  <1>6. ASSUME Own(a), acct'[a] # acct[a]
        PROVE  Explains(e, a)
    <2>1. Ready(r, e)
      BY <1>1, <1>2, <1>6 DEF CheckFits
    <2>2. CASE e = Anything
      BY <2>2 DEF Explains
    <2>3. CASE e # Anything
      <3>1. e \in Pricing
        BY <1>2, <2>3 DEF Evidence
      <3>2. r.cand # 0 /\ acct'[a] = r.cand * n /\ n \in Nat /\ r.cand \in Int
        BY <1>3, <1>4, <1>6, DiscountIs DEF Final, Rule
      <3>3. e.lo \in Nat /\ e.hi \in Nat /\ e.lo <= r.cand /\ r.cand <= e.hi
        BY <2>1, <2>3, <3>1, <3>2, PricingFacts DEF Ready
      <3> DEFINE p == r.cand
      <3>4. e.lo \in Int /\ e.hi \in Int /\ p \in Int /\ n \in Nat /\ e.lo <= p /\ p <= e.hi
        BY <3>2, <3>3
      <3> HIDE DEF p, n, r, e
      <3>5. n * e.lo <= n * p /\ n * p <= n * e.hi
        BY <3>4, Scale
      <3>6. /\ n * e.lo = e.lo * n /\ n * p = p * n /\ n * e.hi = e.hi * n
            /\ e.lo * n \in Int /\ p * n \in Int /\ e.hi * n \in Int
        BY <3>4
      <3>7. p * n \in (e.lo * n) .. (e.hi * n)
        BY <3>5, <3>6
      <3>8. acct'[a] = p * n
        BY <3>2 DEF p
      <3> QED
        BY <3>7, <3>8 DEF Explains, n
    <2> QED
      BY <2>2, <2>3
  <1>7. OwnTrue
    <2> SUFFICES ASSUME NEW b \in Accounts \ env.shared, acct'[b] # acct[b]
                 PROVE  Explains(proof[b], b)
      BY DEF OwnTrue
    <2>1. b = a
      BY <1>4
    <2>2. Own(a)
      BY <2>1 DEF Own
    <2> QED
      BY <1>6, <2>1, <2>2
  <1> QED
    BY <1>5, <1>7

-----------------------------------------------------------------------------
LEMMA RatesStart == Init => RatesInv
  <1> SUFFICES ASSUME Init PROVE RatesInv
    OBVIOUS
  <1>1. ChecksInv
    BY ChecksStart
  <1>2. /\ env \in Environments /\ rows = <<>> /\ day = 1 /\ ident = [a \in Accounts |-> 1]
        /\ shared = [bal |-> env.balance, cost |-> 0, reqs |-> 0]
        /\ disk \in env.disks /\ mem = newState
        /\ chk = [i \in Channels |-> NoCheck] /\ proof = [a \in Accounts |-> NoProof]
        /\ pc = "idle" /\ now = 0 /\ probe = NoProbe /\ acct = [a \in Accounts |-> 1]
    BY DEF Init
  <1>3. ASSUME NEW a \in Accounts
        PROVE  /\ up[a] \in Upstream /\ up[a].epoch = 0 /\ up[a].cost = 0 /\ up[a].actual = 0
               /\ up[a].seen = NoProof
    <2>1. PICK price \in env.prices :
             up = [b \in Accounts |->
                     [epoch |-> 0, offers |-> env.initial, price |-> [k \in Keys |-> price],
                      group |-> env.group, cost |-> 0, actual |-> 0, log |-> NoLog,
                      seen |-> NoProof]]
      BY DEF Init
    <2> DEFINE prices == [k \in Keys |-> price]
               none == 0
    <2>2. /\ price \in Prices /\ env.initial \subseteq Interfaces /\ env.group \in Keys
      BY <1>2, EnvironmentAssumption
    <2>3. up[a] = [epoch |-> none, offers |-> env.initial, price |-> prices, group |-> env.group,
                   cost |-> none, actual |-> none, log |-> NoLog, seen |-> NoProof]
      BY <2>1
    <2>4. prices \in [Keys -> Prices] /\ none \in Nat /\ NoProof \in Pricing
      BY <2>2, NoProofIs
    <2> HIDE DEF prices, none
    <2>5. /\ up[a] \in Upstream /\ up[a].epoch = none /\ up[a].cost = none /\ up[a].actual = none
          /\ up[a].seen = NoProof
      BY <2>2, <2>3, <2>4 DEF Upstream
    <2> QED
      BY <2>5 DEF none
  <1>4. WorldOK
    <2>1. up \in [Accounts -> Upstream]
      <3>1. up = [a \in Accounts |-> up[a]]
        BY DEF Init
      <3> QED
        BY <1>3, <3>1
    <2>2. shared \in Balance
      <3>1. env.balance \in Int
        BY <1>2, EnvironmentAssumption
      <3> QED
        BY <1>2, <3>1 DEF Balance
    <2>3. \A a \in Accounts : Within(up[a].cost, up[a].actual, up[a].seen)
      BY <1>3, NothingSeen
    <2> QED
      BY <1>2, <2>1, <2>2, <2>3 DEF WorldOK
  <1>5. CycleOK
    BY <1>2, NoProbeIs DEF CycleOK
  <1>6. ASSUME NEW a \in Accounts, NEW r \in Rule, OfOneTemplate(r), ~r.has, r.epoch = 0, r.id <= 1
        PROVE  Fit(r, a)
    <2>1. r.day = 0
      BY <1>6 DEF OfOneTemplate, Rule
    <2>2. RuleOK(r, up[a], ident[a], day)
      BY <1>2, <1>3, <1>6, <2>1 DEF RuleOK
    <2> QED
      BY <1>6, <2>2 DEF Fit, Fits, TrueTo
  <1>7. FileOK(disk)
    <2>1. disk \in State /\ disk.host.mark = 0
      BY <1>2, EnvironmentAssumption
    <2>2. ASSUME NEW a \in Accounts
          PROVE  Fit(disk.rules[a], a)
      <3>1. disk.rules[a] \in Rule
        BY <2>1 DEF State
      <3>2. LET r == disk.rules[a] IN OfOneTemplate(r) /\ ~r.has /\ r.epoch = 0 /\ r.id <= 1
        BY <1>2, EnvironmentAssumption
      <3> QED
        BY <1>6, <3>1, <3>2
    <2> QED
      BY <1>2, <2>1, <2>2 DEF FileOK
  <1>8. FileOK(mem) /\ mem.version = 6
    <2>1. NoRule \in Rule
      BY NoRuleIs
    <2>3. \A a \in Accounts : Fit(NoRule, a)
      BY <1>6, NoRuleIs
    <2>4. NoHost \in Host /\ NoHost.mark = 0
      BY DEF NoHost, Host
    <2> DEFINE R == [a \in Accounts |-> NoRule]
               v == 6
    <2>5. R \in [Accounts -> Rule] /\ \A a \in Accounts : Fit(R[a], a)
      BY <2>1, <2>3
    <2>6. mem = [rules |-> R, host |-> NoHost, version |-> v] /\ v \in Nat
      BY <1>2 DEF newState
    <2> HIDE DEF R, v
    <2>7. mem \in State /\ mem.rules = R /\ mem.host = NoHost /\ mem.version = v
      BY <2>4, <2>5, <2>6 DEF State
    <2> QED
      BY <1>2, <2>4, <2>5, <2>7 DEF FileOK, v
  <1>9. ChecksOK
    <2>1. ASSUME NEW i \in Channels
          PROVE  LET a == AccountOf(i)
                 IN  CheckFits(chk[i], mem.rules[a], ident[a], proof[a], Own(a))
      BY <1>2, NoCheckIs, RestFits
    <2>2. chk \in [Channels -> Checks] /\ proof \in [Accounts -> Evidence]
      BY <1>2, NoCheckIs, NoProofIs
    <2>3. \A a \in Accounts : proof[a] # Anything
      BY <1>2, NoProofIs
    <2> QED
      BY <2>1, <2>2, <2>3 DEF ChecksOK
  <1> QED
    BY <1>1, <1>4, <1>5, <1>7, <1>8, <1>9 DEF RatesInv, FilesOK

CheckStep(i) ==
  \/ BillingAnswers(i) \/ BillingMissed(i) \/ PricingAnswers(i) \/ PricingMissed(i)
  \/ LogAnswers(i) \/ LogFails(i) \/ UsageAnswers(i) \/ UsageMissed(i) \/ UsageInvalid(i)
  \/ applyCandidate(i)

\* Every step of the process keeps the invariant, and writes what is explained.
LEMMA ProcessStep ==
  ASSUME RatesInv, ChecksInv', Process
  PROVE  RatesInv' /\ OwnTrue
  <1>1. acct' = acct => OwnTrue
    BY DEF OwnTrue
  <1>2. ASSUME NEW a \in Sharing,
               ProbeAnswers(a) \/ ProbeFindsNothing(a) \/ ProbeFails(a) \/ ApplyShared(a)
        PROVE  RatesInv' /\ OwnTrue
    BY <1>1, <1>2, ProbeSteps, ApplySharedStep
  <1>3. ASSUME NEW i \in Channels, admitAccountHost(i) \/ admitUniqueAccount(i) \/ Admit(i)
        PROVE  RatesInv' /\ OwnTrue
    BY <1>1, <1>3, PlainSteps, AdmitStep
  <1>4. ASSUME NEW i \in Channels, CheckStep(i)
        PROVE  RatesInv' /\ OwnTrue
    BY <1>1, <1>4, BillingStep, BillingMissedStep, PricingStep, PricingMissedStep, LogStep,
       LogFailsStep, UsageStep, UsageFailsStep, ApplyStep DEF CheckStep
  <1>5. CASE List \/ ListFails \/ AdmitEnds \/ collectCheckResults
    BY <1>1, <1>5, PlainSteps
  <1>6. CASE resetImageCreaterGroup \/ SharedFails \/ Reconcile
    BY <1>1, <1>6, ResetGroupStep, SharedFailsStep, ReconcileStep
  <1>7. CASE Save \/ SaveFails \/ Exit
    BY <1>1, <1>7, EndStep
  <1> QED
    BY <1>2, <1>3, <1>4, <1>5, <1>6, <1>7 DEF Process, CheckStep

LEMMA RatesStep ==
  ASSUME RatesInv, [Next]_vars
  PROVE  RatesInv' /\ (OwnTrue \/ UNCHANGED vars)
  <1>1. ChecksInv'
    BY ChecksStep DEF RatesInv
  <1>2. acct' = acct => OwnTrue
    BY DEF OwnTrue
  <1>3. CASE UNCHANGED vars
    <2>1. UNCHANGED <<env, outside, disk, mem, chk, proof, alive, now, probe, pc, acct, day>>
      BY <1>3 DEF vars, cycle, outside
    <2>2. CycleOK'
      BY <2>1 DEF RatesInv, CycleOK
    <2>3. FileOK(mem') /\ mem'.version = 6
      BY <2>1 DEF RatesInv, FilesOK
    <2> QED
      BY <1>1, <1>3, <2>1, <2>2, <2>3, RulesKeepInv
  <1>4. CASE Process
    BY <1>1, <1>4, ProcessStep
  <1>5. CASE Crash \/ Start \/ Terminate
    BY <1>1, <1>2, <1>5, EndStep, StartStep, PlainSteps
  <1>6. ASSUME WorldMoves
        PROVE  RatesInv' /\ OwnTrue
    <2>1. acct' = acct
      BY <1>6 DEF WorldMoves, Around
    <2> QED
      BY <1>1, <1>2, <1>6, <2>1, WorldKeepsInv
  <1>7. ASSUME NEW a \in Listed,
               Request(a) \/ NewPrice(a) \/ NewGroup(a) \/ NewOffers(a) \/ NewCredentials(a)
        PROVE  RatesInv' /\ OwnTrue
    BY <1>6, <1>7, RequestMoves, TermsMove, CredentialsMove
  <1>8. CASE OtherRequest \/ Recharge \/ NextDay \/ UpstreamMidnight \/ ProxyChanges
    BY <1>6, <1>8, OthersMove, MidnightMoves
  <1> QED
    BY <1>3, <1>4, <1>5, <1>7, <1>8 DEF Next

\* What a rule keeps of one template belongs to no other one, prices and days are
\* such, and the process is up while a cycle runs: for any accounts, keys, prices
\* and environments (state.go, template_sync.go:70).
THEOREM RulesAreOfOneTemplate == Spec => []TypeOK
  <1>1. RatesInv => TypeOK
    <2> SUFFICES ASSUME RatesInv PROVE TypeOK
      OBVIOUS
    <2>1. ASSUME NEW a \in Accounts
          PROVE  LET r == mem.rules[a] IN
                 /\ r \in Rule /\ OfOneTemplate(r) /\ r.day <= day /\ r.id <= ident[a]
                 /\ up[a].seen \in Ranges /\ proof[a] \in Ranges
      <3>1. RuleOK(mem.rules[a], up[a], ident[a], day)
        BY FitFacts DEF Fit, Fits
      <3>2. up[a].seen \in Pricing /\ proof[a] \in Pricing \cup {Anything}
        BY DEF RatesInv, WorldOK, ChecksOK, Upstream, Evidence
      <3>3. Pricing \cup {Anything} \subseteq Ranges
        BY DEF Pricing, Ranges
      <3> QED
        BY <3>1, <3>2, <3>3 DEF RuleOK
    <2>2. mem.version = 6 /\ mem.host.mark <= Len(rows)
      BY DEF RatesInv, FilesOK, FileOK
    <2>3. /\ pc \in {"idle", "probe", "apply", "admit", "collect", "save"}
          /\ pc # "idle" => alive
      BY DEF RatesInv, CycleOK
    <2> QED
      BY <2>1, <2>2, <2>3 DEF TypeOK
  <1>2. RatesInv /\ [Next]_vars => RatesInv'
    BY RatesStep
  <1> QED
    BY <1>1, <1>2, RatesStart, PTL DEF Spec

\* A rate that is written for an account with a balance of its own is the discount
\* times a price that this very cycle saw, whatever the templates answered, for any
\* prices, budgets and environments: across days, restarts of the counters, other
\* credentials, crashes and checks that run at once (template_sync.go:70,
\* usage_observer.go:51).
THEOREM RatesAreExplained == Spec => OwnRatesAreTrue
  <1>1. RatesInv /\ [Next]_vars => RatesInv' /\ [OwnTrue]_vars
    BY RatesStep
  <1>2. OwnTrue => \A a \in Accounts \ env.shared : acct'[a] # acct[a] => Explains(proof[a], a)
    BY DEF OwnTrue
  <1>3. [][OwnTrue]_vars => OwnRatesAreTrue
    BY PTL DEF OwnRatesAreTrue, OwnTrue
  <1> QED
    BY <1>1, <1>3, RatesStart, PTL DEF Spec
===============================================================================
