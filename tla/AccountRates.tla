---------------------------- MODULE AccountRates ----------------------------
(* The account worker of rate-sync: cycles that look for the price every     *)
(* account pays upstream, first at upstreams whose keys share a balance,     *)
(* then with one check per account, a few at a time, and write account rates *)
(* through the Admin API.                                                    *)
EXTENDS PriceTemplates, SharedBalance, SequencesExt

CONSTANTS
  Accounts,
  Keys,          \* price groups of an upstream
  Unlisted,      \* those its price table does not show
  Prices,        \* what a request may cost upstream, at a list price of 1
  Discount,      \* recharge discount; a rate is price * discount
  MaxConcurrentChecks,
  Environments   \* what may happen; one of them is chosen at the start

ASSUME AccountAssumption ==
  /\ IsFiniteSet(Accounts) /\ Keys \subseteq Nat \ {0}
  /\ Prices \subseteq Nat /\ {Discount, MaxConcurrentChecks} \subseteq Nat \ {0}

Interfaces == {"billing", "table", "refused", "usage", "balance"}   \* of upstreams
Host == [init : BOOLEAN, id : {<<>>} \cup UNION {[S -> Int] : S \in SUBSET Accounts},
         day : Nat, bal : Int, cost : Int, reqs : Int, mark : Nat]
State == [rules : [Accounts -> Rule], host : Host, version : Nat]

\* The gateway lists a channel for each binding of an account to a group, and a
\* state file from before has no counters of today.
ASSUME EnvironmentAssumption ==
  \A e \in Environments :
    /\ e.channels \in Seq(Accounts) /\ e.prices \subseteq Prices /\ e.group \in Keys
    /\ e.initial \subseteq Interfaces /\ e.offers \subseteq SUBSET Interfaces
    /\ e.balance \in Int /\ e.disks \subseteq State
    /\ \A s \in e.disks :
         /\ s.host.mark = 0
         /\ \A a \in Accounts : LET r == s.rules[a]
                              IN  OfOneTemplate(r) /\ ~r.has /\ r.epoch = 0 /\ r.id <= 1

VARIABLES
  env,      \* the environment: bindings, budgets of events and faults
  up,       \* the upstream of every account
  shared,   \* the balance the keys of env.shared have in common
  rows,     \* the account of every request the gateway logged, by id
  acct,     \* the rate of an account
  ident,    \* its credentials
  down,     \* proxies that are down
  day,
  left,     \* what is left of the budgets
  disk,     \* the state file
  mem,      \* the state of the process
  alive,
  stop,     \* the process was told to stop
  pc,       \* the part of the cycle
  now,      \* the day the cycle began on
  view,     \* the rates as listed at the start of the cycle
  queue,    \* channels still to be admitted, by position
  probe,    \* the round through the keys of the shared balance
  chk,      \* the check of every channel
  checked,  \* checks that were started, as counted
  proof     \* for the properties: what the cycle saw of an account's price

outside == <<up, shared, rows, ident, day, down>>
cycle == <<now, view, queue, probe, chk, checked>>
vars == <<env, outside, acct, left, disk, mem, alive, stop, pc, cycle, proof>>
-----------------------------------------------------------------------------
(* Channels, upstreams and the way to them.                                  *)

Channels == DOMAIN env.channels
AccountOf(i) == env.channels[i]
Listed == {AccountOf(i) : i \in Channels}

\* filterManualAccounts: some are left to the administrator.
Automatic == {i \in Channels : AccountOf(i) \notin env.manual}

\* rechargeDiscountForBaseURL: a host that is not listed has none.
rechargeDiscount(a) == IF a \in env.full THEN 1 ELSE Discount

\* imageCreaterChannelGroups: an account is in the group of its host once.
Sharing == {a \in env.shared : \E i \in Automatic : AccountOf(i) = a}

\* upstreamProxyURLs: the account's proxy, the global one, the fallbacks; 0 is
\* the direct way, taken when there is nothing else.
upstreamProxyURLs(a) ==
  LET own == SelectSeq(<<env.proxy[a], env.global>>, LAMBDA p : p # 0) \o env.fallback
  IN IF own = <<>> THEN <<0>> ELSE own

\* Mutant: the chain ends with its first proxy.
FirstProxyOnly(a) == Head(upstreamProxyURLs(a)) \notin down

\* Network errors go on to the next proxy of the chain.
Reached(a) == \E p \in ToSet(upstreamProxyURLs(a)) : p \notin down

NoLog == [group |-> 0, ratio |-> 0]
Today(a) == [cost |-> up[a].cost, actual |-> up[a].actual, epoch |-> up[a].epoch]
Table(a) == [k \in Keys \ Unlisted |-> up[a].price[k]]

Happens(what) == left[what] > 0 /\ left' = [left EXCEPT ![what] = @ - 1]

\* A call fails: by chance, because no proxy works, or because it is cancelled.
Answered(a) == ~stop /\ Reached(a)
CallFails(a) == Happens("faults") \/ ((stop \/ ~Reached(a)) /\ UNCHANGED left)
-----------------------------------------------------------------------------
(* Evidence: prices between lo and hi.                                       *)

NoProof == [lo |-> 1, hi |-> 0]
Anything == [lo |-> 2, hi |-> 0]   \* nothing can be said
Lower(p, q) == IF p < q THEN p ELSE q
Higher(p, q) == IF p > q THEN p ELSE q
With(e, p) == IF e = NoProof THEN [lo |-> p, hi |-> p]
              ELSE [lo |-> Lower(e.lo, p), hi |-> Higher(e.hi, p)]
Both(e, f) == IF f = NoProof THEN e ELSE IF f = Anything THEN f ELSE With(With(e, f.lo), f.hi)

Saw(a, e) == proof' = [proof EXCEPT ![a] = Both(@, e)]
-----------------------------------------------------------------------------
(* State.                                                                    *)

newState == [rules |-> [a \in Accounts |-> NoRule], host |-> NoHost, version |-> 6]

\* Load: what older versions meant otherwise is dropped.
Loaded(s) ==
  [rules |-> [a \in Accounts |->
                IF s.version = 2 /\ s.rules[a].tmpl = "newapi"
                THEN resetPriceKey(s.rules[a]) ELSE s.rules[a]],
   host |-> IF s.version < 6 THEN NoHost ELSE s.host,
   version |-> 6]

\* The rule of an account starts anew with other credentials.
ruleStateFor(a) == IF mem.rules[a].id = ident[a] THEN mem.rules[a] ELSE newRule(ident[a])

SetRule(a, r) == mem' = [mem EXCEPT !.rules[a] = r]
-----------------------------------------------------------------------------
(* The cycle.                                                                *)

NoCheck == [step |-> "none", failed |-> NoRule, table |-> <<>>]
NoProbe == [todo |-> {}, seen |-> {}, missing |-> FALSE, err |-> FALSE]

Quietly == UNCHANGED <<env, outside, disk, alive, stop>>
NoWrite == UNCHANGED <<env, outside, acct, disk, alive, stop, now, view>>

CycleEnds ==
  /\ pc' = "idle"
  /\ view' = [a \in Accounts |-> 0] /\ now' = 0
  /\ queue' = {} /\ probe' = NoProbe /\ checked' = 0
  /\ chk' = [i \in Channels |-> NoCheck]
  /\ proof' = [a \in Accounts |-> NoProof]

List ==
  /\ alive /\ ~stop /\ pc = "idle"
  /\ now' = day /\ view' = acct
  /\ queue' = Automatic
  /\ probe' = [NoProbe EXCEPT !.todo = Sharing]
  /\ pc' = IF Sharing = {} THEN "admit" ELSE "probe"
  /\ UNCHANGED <<env, outside, acct, left, disk, mem, alive, stop, chk, checked, proof>>

ListFails ==
  /\ alive /\ ~stop /\ pc = "idle"
  /\ Happens("faults")
  /\ UNCHANGED <<env, outside, acct, disk, mem, alive, stop, pc, cycle, proof>>
-----------------------------------------------------------------------------
(* The shared balance: its accounts take turns, here in any order.           *)

Probing(a) == alive /\ pc = "probe" /\ a \in probe.todo
ProbedOn(a, p) ==
  /\ probe' = [p EXCEPT !.todo = @ \ {a}]
  /\ UNCHANGED <<pc, mem, queue, chk, checked, proof>> /\ NoWrite

ProbeAnswers(a) ==
  /\ Probing(a) /\ Answered(a) /\ "balance" \in up[a].offers
  /\ ProbedOn(a, [probe EXCEPT !.seen = @ \cup {shared}])
  /\ UNCHANGED left

ProbeFindsNothing(a) ==
  /\ Probing(a) /\ Answered(a) /\ "balance" \notin up[a].offers
  /\ ProbedOn(a, [probe EXCEPT !.missing = TRUE])
  /\ UNCHANGED left

ProbeFails(a) ==
  /\ Probing(a) /\ CallFails(a)
  /\ ProbedOn(a, [probe EXCEPT !.err = TRUE])

knownImageCreaterGroup ==
  mem.host.init \/ \E a \in Sharing : mem.rules[a].tmpl = "balance"

\* Different answers end the round at once, as not being sure.
Differ == Cardinality(probe.seen) > 1
ProbeEnds == alive /\ pc = "probe" /\ (probe.todo = {} \/ Differ)
IsShared == probe.seen # {} \/ (probe.err /\ knownImageCreaterGroup)

\* The host is no such upstream (any more): its accounts are checked like others.
resetImageCreaterGroup ==
  /\ ProbeEnds /\ ~IsShared
  /\ mem' = [mem EXCEPT !.host = NoHost,
               !.rules = [a \in Accounts |->
                            IF a \in Sharing /\ @[a].tmpl = "balance"
                            THEN resetTemplate(@[a]) ELSE @[a]]]
  /\ pc' = "admit"
  /\ probe' = NoProbe
  /\ UNCHANGED <<left, queue, chk, checked, proof>> /\ NoWrite

\* prepareImageCreaterRules
Prepared(a) ==
  LET r == ruleStateFor(a)
  IN IF r.tmpl = "balance" THEN r ELSE [resetPriceKey(r) EXCEPT !.tmpl = "balance"]
Others == {i \in queue : AccountOf(i) \notin Sharing}
AllPrepared == [a \in Accounts |-> IF a \in Sharing THEN Prepared(a) ELSE mem.rules[a]]
resetImageCreaterCandidates ==
  [a \in Accounts |-> IF a \in Sharing THEN resetCandidate(Prepared(a)) ELSE mem.rules[a]]

\* NoWrite is proved in this cycle: candidates are dropped, and with answers
\* that differ or are missing the host as well.
Unproved(host) ==
  /\ mem' = [mem EXCEPT !.rules = resetImageCreaterCandidates, !.host = host]
  /\ pc' = "admit"
  /\ probe' = NoProbe
  /\ queue' = Others
  /\ UNCHANGED <<chk, checked, proof>> /\ NoWrite

SharedFails ==
  /\ ProbeEnds /\ IsShared
  /\ \/ Differ /\ Unproved(NoHost) /\ UNCHANGED left
     \/ ~Differ /\ probe.err /\ Unproved(mem.host) /\ UNCHANGED left
     \/ ~Differ /\ ~probe.err /\ probe.missing /\ Unproved(NoHost) /\ UNCHANGED left
     \/ ~Differ /\ ~probe.err /\ ~probe.missing /\ Unproved(mem.host)
        /\ (Happens("faults") \/ (stop /\ UNCHANGED left))

\* The balance was read a while ago; the log is read now.
Reconcile ==
  LET seen == CHOOSE s \in probe.seen : TRUE
      id == [a \in Sharing |-> ident[a]]
      mark == Len(rows)
      base == setImageCreaterBaseline(id, seen, mark, now)
      local == Local(rows, mem.host, mark, Sharing)
      winner == CHOOSE a \in Payers(rows, local) : TRUE
      rate == ProvenRate(mem.host, seen, local)
  IN
  /\ ProbeEnds /\ IsShared /\ ~Differ /\ ~probe.err /\ ~probe.missing
  /\ \/ /\ \/ Rebased(mem.host, id, seen, mark, now)
           \/ ~Quiet(mem.host, seen, local) /\ ~Proves(rows, mem.host, seen, local)
        /\ Unproved(base)
     \/ /\ ~Rebased(mem.host, id, seen, mark, now)
        /\ \/ Quiet(mem.host, seen, local)
              /\ mem' = [mem EXCEPT !.rules = AllPrepared, !.host = base]
           \/ Proves(rows, mem.host, seen, local)
              /\ mem' = [mem EXCEPT !.rules = [AllPrepared EXCEPT ![winner].cand = rate],
                                    !.host = base]
        /\ pc' = "apply"
        /\ probe' = [NoProbe EXCEPT !.todo = Sharing]
        /\ queue' = Others
        /\ UNCHANGED <<chk, checked, proof>> /\ NoWrite
  /\ UNCHANGED left

\* A candidate is compared with the rate as it was listed, and written; a write
\* that fails may have been carried out.
Final(a) == mem.rules[a].cand * rechargeDiscount(a)
Differs(a) == mem.rules[a].cand # 0 /\ Final(a) # view[a]
Keep(a) == ~Differs(a) /\ UNCHANGED <<acct, left>>
Put(a) == Differs(a) /\ ~stop /\ acct' = [acct EXCEPT ![a] = Final(a)] /\ UNCHANGED left
PutFails(a) ==
  /\ Differs(a)
  /\ Happens("faults") \/ (stop /\ UNCHANGED left)
  /\ acct' \in {acct, [acct EXCEPT ![a] = Final(a)]}

\* The accounts take turns again; a candidate that could not be written is kept
\* with the watermark behind it.
ApplyShared(a) ==
  /\ alive /\ pc = "apply" /\ a \in probe.todo
  /\ \/ (Keep(a) \/ Put(a)) /\ SetRule(a, resetCandidate(mem.rules[a]))
     \/ PutFails(a) /\ UNCHANGED mem
  /\ probe' = [probe EXCEPT !.todo = @ \ {a}]
  /\ pc' = IF probe.todo = {a} THEN "admit" ELSE pc
  /\ UNCHANGED <<now, view, queue, chk, checked, proof>> /\ Quietly
-----------------------------------------------------------------------------
(* One check per account, a few at a time.                                   *)

Running == {i \in Channels : chk[i].step \notin {"none", "done"}}
Done == {i \in Channels : chk[i].step = "done"}

\* Mutant: every channel is checked, also the second one of an account.
ForgetsSeen == {}
SeenAccounts == {AccountOf(i) : i \in Running \cup Done}

Check(i, c) == chk' = [chk EXCEPT ![i] = c]
OnCheck ==
  /\ UNCHANGED <<pc, now, view, queue, probe, checked>> /\ Quietly

\* The channels have their turns in the order they were listed.
Turn(i) == alive /\ pc = "admit" /\ i \in queue /\ \A j \in queue : i <= j
PassedOver(i) ==
  /\ queue' = queue \ {i}
  /\ UNCHANGED <<env, outside, acct, left, disk, mem, alive, stop, pc,
                 now, view, probe, chk, checked, proof>>

admitUniqueAccount(i) == Turn(i) /\ AccountOf(i) \in SeenAccounts /\ PassedOver(i)

\* An account without a proper base URL is not asked, by none of its channels.
admitAccountHost(i) == Turn(i) /\ AccountOf(i) \in env.broken /\ PassedOver(i)

\* The rule is looked up when the check has its place.
Admit(i) ==
  /\ Turn(i) /\ ~stop
  /\ AccountOf(i) \notin SeenAccounts \cup env.broken
  /\ Cardinality(Running) < MaxConcurrentChecks
  /\ SetRule(AccountOf(i), ruleStateFor(AccountOf(i)))
  /\ checked' = checked + 1
  /\ Check(i, [NoCheck EXCEPT !.step = "billing"])
  /\ queue' = queue \ {i}
  /\ UNCHANGED <<env, outside, acct, left, disk, alive, stop, pc, now, view, probe, proof>>

\* Mutant: the check that is not started any more is counted as well.
CountsTheRest ==
  /\ alive /\ pc = "admit" /\ (queue = {} \/ stop)
  /\ pc' = "collect" /\ queue' = {}
  /\ checked' = checked + (IF queue = {} THEN 0 ELSE 1)
  /\ UNCHANGED <<env, outside, acct, left, disk, mem, alive, stop,
                 now, view, probe, chk, proof>>

\* All are admitted, or the process is to stop: what was started is collected.
AdmitEnds ==
  /\ alive /\ pc = "admit" /\ (queue = {} \/ stop)
  /\ pc' = "collect" /\ queue' = {}
  /\ UNCHANGED <<env, outside, acct, left, disk, mem, alive, stop,
                 now, view, probe, chk, checked, proof>>

\* A template that is not there, or could not be asked.
Missed(i, offer, next) ==
  LET a == AccountOf(i) IN
  /\ \/ CallFails(a)
     \/ Answered(a) /\ offer \cap up[a].offers = {} /\ UNCHANGED left
  /\ next
  /\ UNCHANGED <<acct, proof>> /\ OnCheck

Answers(i, offer) ==
  Answered(AccountOf(i)) /\ offer \in up[AccountOf(i)].offers /\ UNCHANGED <<acct, left>> /\ OnCheck

\* A direct template matched: its rule is taken and its price written; or it
\* failed, and the next one is asked.
Direct(i, t, outcome, otherwise) ==
  IF outcome.fine
  THEN /\ SetRule(AccountOf(i), [outcome.rule EXCEPT !.tmpl = t])
       /\ Check(i, [NoCheck EXCEPT !.step = "apply"])
  ELSE otherwise

BillingAnswers(i) ==
  LET a == AccountOf(i)
      price == up[a].price[up[a].group]
      outcome == Billed(CopyFor(mem.rules[a], "billing"), price)
      failed == [outcome.rule EXCEPT !.tmpl = "billing"]
  IN
  /\ alive /\ chk[i].step = "billing"
  /\ Answers(i, "billing")
  /\ Direct(i, "billing", outcome,
            Check(i, [chk[i] EXCEPT !.step = "pricing", !.failed = failed]) /\ UNCHANGED mem)
  /\ Saw(a, With(NoProof, price))

BillingMissed(i) ==
  /\ alive /\ chk[i].step = "billing"
  /\ Missed(i, {"billing"}, Check(i, [chk[i] EXCEPT !.step = "pricing"]) /\ UNCHANGED mem)

\* The direct templates are through, without a price.
ToUsage(i, failed) ==
  /\ SetRule(AccountOf(i), DirectFailed(mem.rules[AccountOf(i)], failed))
  /\ Check(i, [NoCheck EXCEPT !.step = "usage"])

\* A price table, or none for a client of this kind: then the log has the ratio.
PricingAnswers(i) ==
  /\ alive /\ chk[i].step = "pricing"
  /\ \E offer \in {"table", "refused"} :
       /\ Answers(i, offer)
       /\ Check(i, [chk[i] EXCEPT !.step = "log",
                      !.table = IF offer = "table" THEN Table(AccountOf(i)) ELSE <<>>])
  /\ UNCHANGED <<mem, proof>>

PricingMissed(i) ==
  /\ alive /\ chk[i].step = "pricing"
  /\ Missed(i, {"table", "refused"}, ToUsage(i, chk[i].failed))

LogAnswers(i) ==
  LET a == AccountOf(i)
      rule == CopyFor(mem.rules[a], "newapi")
      log == up[a].log
      outcome == IF chk[i].table = <<>> THEN Logged(rule, log.group, log.ratio)
                 ELSE Priced(rule, chk[i].table, log.group)
  IN
  /\ alive /\ chk[i].step = "log"
  /\ Answered(a) /\ log # NoLog /\ UNCHANGED <<acct, left>> /\ OnCheck
  /\ Direct(i, "newapi", outcome, ToUsage(i, [outcome.rule EXCEPT !.tmpl = "newapi"]))
  /\ Saw(a, With(NoProof, IF log.group \in DOMAIN chk[i].table
                          THEN chk[i].table[log.group] ELSE log.ratio))

\* No log yet counts as a failure of the template, too.
LogFails(i) ==
  LET a == AccountOf(i)
      rule == CopyFor(mem.rules[a], "newapi")
      failed == (IF chk[i].table = <<>> THEN MatchedBadly(rule)
                 ELSE PricedWithoutLog(rule, chk[i].table)).rule
  IN
  /\ alive /\ chk[i].step = "log"
  /\ CallFails(a) \/ (Answered(a) /\ up[a].log = NoLog /\ UNCHANGED left)
  /\ ToUsage(i, [failed EXCEPT !.tmpl = "newapi"])
  /\ UNCHANGED <<acct, proof>> /\ OnCheck

UsageAnswers(i) ==
  LET a == AccountOf(i)
      used == Used(mem.rules[a], now, Today(a))
  IN
  /\ alive /\ chk[i].step = "usage"
  /\ Answers(i, "usage")
  /\ SetRule(a, used)
  /\ Check(i, [NoCheck EXCEPT !.step = "apply"])
  /\ Saw(a, IF used.blind THEN Anything ELSE up[a].seen)

UsageMissed(i) ==
  /\ alive /\ chk[i].step = "usage"
  /\ Missed(i, {"usage"}, Check(i, [NoCheck EXCEPT !.step = "done"]) /\ UNCHANGED mem)

\* Numbers that are none.
UsageInvalid(i) ==
  LET a == AccountOf(i) IN
  /\ alive /\ chk[i].step = "usage" /\ Answered(a) /\ "usage" \in up[a].offers
  /\ Happens("faults")
  /\ SetRule(a, UsedBadly(mem.rules[a]))
  /\ Check(i, [NoCheck EXCEPT !.step = "done"])
  /\ UNCHANGED <<acct, proof>> /\ OnCheck

applyCandidate(i) ==
  LET a == AccountOf(i) IN
  /\ alive /\ chk[i].step = "apply"
  /\ Keep(a) \/ Put(a) \/ PutFails(a)
  /\ Check(i, [NoCheck EXCEPT !.step = "done"])
  /\ UNCHANGED <<mem, proof>> /\ OnCheck

collectCheckResults ==
  /\ alive /\ pc = "collect" /\ Cardinality(Done) = checked
  /\ pc' = "save"
  /\ UNCHANGED <<env, outside, acct, left, disk, mem, alive, stop, cycle, proof>>
-----------------------------------------------------------------------------
(* The end of a cycle, and of the process.                                   *)

Save ==
  /\ alive /\ pc = "save"
  /\ disk' = mem
  /\ CycleEnds
  /\ UNCHANGED <<env, outside, acct, left, mem, alive, stop>>

SaveFails ==
  /\ alive /\ pc = "save" /\ Happens("faults")
  /\ CycleEnds
  /\ UNCHANGED <<env, outside, acct, disk, mem, alive, stop>>

Dies == alive' = FALSE /\ stop' = FALSE /\ mem' = newState /\ CycleEnds

Exit ==
  /\ alive /\ stop /\ pc = "idle"
  /\ Dies /\ UNCHANGED <<env, outside, acct, left, disk>>

Crash ==
  /\ alive /\ Happens("crashes")
  /\ Dies /\ UNCHANGED <<env, outside, acct, disk>>

Start ==
  /\ ~alive
  /\ alive' = TRUE /\ mem' = Loaded(disk)
  /\ UNCHANGED <<env, outside, acct, left, disk, stop, pc, cycle, proof>>

Terminate ==
  /\ alive /\ ~stop /\ Happens("stops")
  /\ stop' = TRUE
  /\ UNCHANGED <<env, outside, acct, disk, mem, alive, pc, cycle, proof>>
-----------------------------------------------------------------------------
(* What happens around the process.                                          *)

Around == UNCHANGED <<env, acct, disk, mem, alive, stop, pc, cycle, proof>>

\* The counters of a key count a request, or start anew.
Counted(a, price) ==
  [up[a] EXCEPT !.cost = @ + 1, !.actual = @ + price, !.seen = With(@, price),
                !.log = [group |-> up[a].group, ratio |-> price]]
Anew(a) ==
  [up[a] EXCEPT !.cost = 0, !.actual = 0, !.seen = IF a \in env.shared THEN @ ELSE NoProof]

\* A request through an account.  One that comes while the shared balance is
\* looked at is counted apart: its cost and its log entry may fall in two
\* windows.
Request(a) ==
  LET price == up[a].price[up[a].group] IN
  /\ Happens(IF pc = "probe" /\ a \in env.shared THEN "gap" ELSE "requests")
  /\ up' = [up EXCEPT ![a] = Counted(a, price)]
  /\ IF a \in env.shared
     THEN /\ shared' = [bal |-> shared.bal - price, cost |-> shared.cost + price,
                        reqs |-> shared.reqs + 1]
          /\ rows' = Append(rows, a)
     ELSE UNCHANGED <<shared, rows>>
  /\ UNCHANGED <<ident, day, down>> /\ Around

\* A request of somebody else who has the same balance.
OtherRequest ==
  /\ env.shared # {} /\ Happens("others")
  /\ \E price \in Prices : shared' = [bal |-> shared.bal - price, cost |-> shared.cost + price,
                                      reqs |-> shared.reqs + 1]
  /\ UNCHANGED <<up, rows, ident, day, down>> /\ Around

Recharge ==
  /\ env.shared # {} /\ Happens("recharges")
  /\ \E amount \in Prices \ {0} : shared' = [shared EXCEPT !.bal = @ + amount]
  /\ UNCHANGED <<up, rows, ident, day, down>> /\ Around

NewPrice(a) ==
  /\ Happens("prices")
  /\ \E k \in Keys, price \in Prices : up' = [up EXCEPT ![a].price[k] = price]
  /\ UNCHANGED <<shared, rows, ident, day, down>> /\ Around

NewGroup(a) ==
  /\ Happens("prices")
  /\ \E k \in Keys : up' = [up EXCEPT ![a].group = k]
  /\ UNCHANGED <<shared, rows, ident, day, down>> /\ Around

NewOffers(a) ==
  /\ Happens("offers")
  /\ \E offers \in env.offers : up' = [up EXCEPT ![a].offers = offers]
  /\ UNCHANGED <<shared, rows, ident, day, down>> /\ Around

\* The gateway's day and the upstream's need not begin together.
NextDay ==
  /\ Happens("days")
  /\ day' = day + 1
  /\ UNCHANGED <<up, shared, rows, ident, down>> /\ Around

UpstreamMidnight ==
  /\ Happens("midnights")
  /\ up' = [a \in Accounts |-> [Anew(a) EXCEPT !.epoch = @ + 1]]
  /\ shared' = [shared EXCEPT !.cost = 0, !.reqs = 0]
  /\ UNCHANGED <<rows, ident, day, down>> /\ Around

ProxyChanges ==
  /\ Happens("proxies")
  /\ \E p \in env.proxies : down' = IF p \in down THEN down \ {p} ELSE down \cup {p}
  /\ UNCHANGED <<up, shared, rows, ident, day>> /\ Around

\* Another key has counters and a log of its own.  A cycle uses the keys it
\* listed, so they are replaced between cycles.
NewCredentials(a) ==
  /\ pc = "idle" /\ Happens("keys")
  /\ ident' = [ident EXCEPT ![a] = @ + 1]
  /\ up' = [up EXCEPT ![a] = [Anew(a) EXCEPT !.log = NoLog]]
  /\ UNCHANGED <<shared, rows, day, down>> /\ Around
-----------------------------------------------------------------------------
Init ==
  /\ env \in Environments
  /\ \E price \in env.prices :
       up = [a \in Accounts |->
               [epoch |-> 0, offers |-> env.initial, price |-> [k \in Keys |-> price],
                group |-> env.group, cost |-> 0, actual |-> 0, log |-> NoLog, seen |-> NoProof]]
  /\ shared = [bal |-> env.balance, cost |-> 0, reqs |-> 0]
  /\ rows = <<>> /\ day = 1 /\ down = {}
  /\ acct = [a \in Accounts |-> 1] /\ ident = [a \in Accounts |-> 1]
  /\ left = env.budget
  /\ disk \in env.disks /\ mem = newState
  /\ alive = FALSE /\ stop = FALSE
  /\ pc = "idle" /\ now = 0 /\ view = [a \in Accounts |-> 0] /\ queue = {}
  /\ probe = NoProbe /\ checked = 0
  /\ chk = [i \in Channels |-> NoCheck] /\ proof = [a \in Accounts |-> NoProof]

Process ==
  \/ List \/ ListFails
  \/ \E a \in Sharing :
       ProbeAnswers(a) \/ ProbeFindsNothing(a) \/ ProbeFails(a) \/ ApplyShared(a)
  \/ resetImageCreaterGroup \/ SharedFails \/ Reconcile
  \/ AdmitEnds
  \/ \E i \in Channels :
       \/ admitAccountHost(i) \/ admitUniqueAccount(i) \/ Admit(i)
       \/ BillingAnswers(i) \/ BillingMissed(i)
       \/ PricingAnswers(i) \/ PricingMissed(i)
       \/ LogAnswers(i) \/ LogFails(i)
       \/ UsageAnswers(i) \/ UsageMissed(i) \/ UsageInvalid(i)
       \/ applyCandidate(i)
  \/ collectCheckResults \/ Save \/ SaveFails \/ Exit

Next ==
  \/ Process
  \/ Crash
  \/ Start
  \/ Terminate
  \/ \E a \in Listed : Request(a)
  \/ OtherRequest
  \/ Recharge
  \/ \E a \in Listed : NewPrice(a)
  \/ \E a \in Listed : NewGroup(a)
  \/ \E a \in Listed : NewOffers(a)
  \/ NextDay
  \/ UpstreamMidnight
  \/ ProxyChanges
  \/ \E a \in Listed : NewCredentials(a)

Spec == Init /\ [][Next]_vars

\* The process goes on as long as it is up and not waiting for a result that
\* nobody will send, and it is started again.
Stuck == pc = "collect" /\ Running = {} /\ Cardinality(Done) # checked
Goes == []<>(~alive \/ Stuck) \/ []<><<Process>>_vars
FairSpec == Spec /\ Goes /\ WF_vars(Start)
-----------------------------------------------------------------------------
(* Properties.                                                               *)

Ranges == [lo : Prices, hi : Prices] \cup {NoProof, Anything}

\* Types; and what a rule has of one template belongs to no other one: a price
\* group only with the price table, a baseline with a day it began on, a
\* candidate that one of the prices explains (syncer.go, state.go).
TypeOK ==
  /\ \A a \in Accounts :
       LET r == mem.rules[a] IN
       /\ r \in Rule /\ OfOneTemplate(r) /\ r.day <= day /\ r.id <= ident[a]
       /\ up[a].seen \in Ranges /\ proof[a] \in Ranges
  /\ mem.version = 6 /\ mem.host.mark <= Len(rows)
  /\ pc \in {"idle", "probe", "apply", "admit", "collect", "save"}
  /\ pc # "idle" => alive

Explains(e, a) ==
  \/ e = Anything
  \/ acct'[a] \in (e.lo * rechargeDiscount(a)) .. (e.hi * rechargeDiscount(a))

\* A rate that is written is the recharge discount times a price the account
\* pays by what this very cycle saw upstream: never one of an earlier cycle, of
\* another template, or a quotient across a restart of the counters that
\* they show (template_sync.go:70, usage_observer.go:51).
OwnRatesAreTrue ==
  [][\A a \in Accounts \ env.shared :
       acct'[a] # acct[a] => Explains(proof[a], a)]_vars

\* The cost of a shared balance is charged to an account only if its own
\* requests explain it: requests of others, recharges, restarts and lost
\* answers never give an account a rate it never paid (imagecreater.go:331).
SharedRatesArePaid ==
  [][\A a \in env.shared : acct'[a] # acct[a] => Explains(up[a].seen, a)]_vars

\* Every rate that is written has a price or a payment of this cycle behind it.
RatesFromEvidence == OwnRatesAreTrue /\ SharedRatesArePaid

\* The rule of an account is in the hands of one check, of one cycle: checks
\* that run at once are of different accounts, are no more than allowed, and
\* have ended when the state is saved (channel_runner.go:112, 186).
ChecksDontShare ==
  /\ \A i, j \in Running : i # j => AccountOf(i) # AccountOf(j)
  /\ Cardinality(Running) <= MaxConcurrentChecks
  /\ pc \notin {"admit", "collect"} => Running = {}

\* A cycle that began ends, whatever fails and also when it is told to stop
\* (channel_runner.go:145, 187).
CyclesEnd == pc # "idle" ~> pc = "idle"

Billable(a) ==
  /\ a \in {AccountOf(i) : i \in Automatic} \ (env.shared \cup env.broken)
  /\ \E p \in ToSet(upstreamProxyURLs(a)) : p \notin down
  /\ "billing" \in up[a].offers
  /\ up[a].price[up[a].group] > 0

\* An account whose upstream tells its price, and can be reached by any proxy
\* of its chain, gets that price in the end (upstream_client.go:46,
\* template_sync.go:234).
AccountsFollow ==
  \A a \in Accounts :
    []<>~Billable(a) \/ []<>(acct[a] = rechargeDiscount(a) * up[a].price[up[a].group])
=============================================================================
