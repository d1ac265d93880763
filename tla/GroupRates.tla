----------------------------- MODULE GroupRates -----------------------------
(* The group worker of rate-sync: cycles that read bindings, rates and usage *)
(* from Sub2API, keep a memory of the cost of each group in a state file and *)
(* write the rates of groups through the Admin API.                          *)
EXTENDS Naturals, Sequences, FiniteSets

CONSTANTS
  Groups,        \* numbers: the code goes through them in ascending order
  Accounts,
  MaxRate,       \* rates are 1..MaxRate (of a ten-thousandth, say)
  StepLimit,     \* how far one publication moves a rate
  Deadband,      \* the least change that is written
  MinRequests,   \* requests a window needs to start a memory
  MaxRows,       \* bound: requests in the log
  MaxAge,        \* intervals until the health check gives up
  InitialRate,   \* of the group whose memory is rebased once
  DefaultRate,   \* of an account nobody has set a rate for
  Environments   \* what may happen; one of them is chosen at the start

Rates == 1..MaxRate
Invalid == 0     \* a rate that is missing or not positive
NoCall == [group |-> 0, rate |-> 0]
Never == [i \in 1..MaxRows |-> 0]
NoRates == [a \in Accounts |-> Invalid]

ASSUME GroupAssumption ==
  /\ Groups \subseteq Nat \ {0} /\ IsFiniteSet(Groups)
  /\ IsFiniteSet(Accounts)
  /\ {MaxRate, StepLimit, Deadband, MinRequests} \subseteq Nat \ {0}
  /\ MaxRows \in Nat /\ MaxAge \in Nat \ {0}
  /\ {InitialRate, DefaultRate} \subseteq Rates

\* What an environment fixes: the accounts each group is bound to, the group
\* that is rebased once and its accounts, the rates at the start and those that
\* may be set, and how often what may happen.
Environment ==
  [bound : [Groups -> SUBSET Accounts], image : Groups \cup {0}, initial : SUBSET Accounts,
   start : Rates, rates : SUBSET (0..MaxRate), late : BOOLEAN, clock : BOOLEAN,
   budget : [rows : 0..MaxRows, rates : Nat, switches : Nat, keys : Nat, faults : Nat,
             crashes : Nat]]

ASSUME EnvironmentAssumption ==
  /\ Environments \subseteq Environment
  /\ \A e \in Environments : e.image # 0 => Cardinality(e.initial) > 1

VARIABLES
  env,      \* the environment: bindings and budgets of events and faults
  log,      \* usage_logs: group and account of each request, by id
  on,       \* the accounts that are schedulable
  acct,     \* the rate of an account
  rate,     \* the rate of a group
  key,      \* an Admin API key is configured
  oldest,   \* the first request of the longest window when usage was looked at
  disk,     \* the state file
  mem,      \* the state of the process
  up,
  pc,       \* the part of the cycle
  view,     \* accounts and rates as listed at the start of the cycle
  through,  \* the last id of the log when usage was looked at
  todo,     \* groups this part has still to go through
  ready,    \* groups whose memory had been started when the cycle looked
  choice,   \* first request of the window a memory starts from, or 0
  costs,    \* the accounts' rates that came with the usage
  call,     \* the PUT that is under way
  good,     \* some group was stable or updated in this cycle
  health,   \* the health file
  past,     \* intervals since a cycle of this process was good, or waited
  left,     \* what is left of the budgets
  writes,   \* how often the rate of a group was changed: to the rate of its one
            \* account, and to a target of its memory, which knows many
  events    \* how often something happened that is a reason for a change

gateway == <<log, on, acct, key, oldest>>
local == <<pc, view, through, todo, ready, choice, costs, call, good>>
vars == <<env, gateway, rate, disk, mem, up, local, health, past, left, writes, events>>

Check == INSTANCE SyncHealth
-----------------------------------------------------------------------------
(* The memory of a group.                                                    *)

\* seen, how often each request was counted, stands for the decayed sums; from
\* is kept for the properties only.
Memory ==
  [init : BOOLEAN, last : 0..MaxRows, seen : [1..MaxRows -> 0..1],
   rates : [Accounts -> 0..MaxRate], pend : 0..MaxRate, from : 0..MaxRows]

newDynamicGroupState ==
  [init |-> FALSE, last |-> 0, seen |-> Never, rates |-> NoRates, pend |-> 0, from |-> 0]

State == [dynamic : [Groups -> Memory], applied : BOOLEAN]
newState == [dynamic |-> [g \in Groups |-> newDynamicGroupState], applied |-> FALSE]

clearDynamicPending(m) == [m EXCEPT !.pend = 0]

\* AccountBase: the accounts whose requests were counted.
AccountBase(m) == {log[i].account : i \in {j \in DOMAIN log : m.seen[j] > 0}}
Rated(rates) == {a \in Accounts : rates[a] # Invalid}

\* dynamicRates can be computed from the memory.
RatesKnown(m) == m.init /\ AccountBase(m) \subseteq Rated(m.rates)
usableDynamicGroupState(m) == RatesKnown(m)

\* The accounts listed for a group, and the groups by how many these are.
Bound(g) == env.bound[g] \cap view.on
Single == {g \in Groups : Cardinality(Bound(g)) = 1}
Plan == {g \in Groups : Cardinality(Bound(g)) > 1}

dynamicAccountSetMatches(m, g) == Rated(m.rates) \cup AccountBase(m) = Bound(g)

overlayBindingRates(rates, g) ==
  [a \in Accounts |->
     IF a \in Bound(g) /\ view.acct[a] # Invalid THEN view.acct[a] ELSE rates[a]]

\* A memory that cannot go on starts again and keeps its pending target.
Prepared(g) ==
  LET m == mem.dynamic[g] IN
  IF usableDynamicGroupState(m) /\ m.last <= Len(log) /\ dynamicAccountSetMatches(m, g)
  THEN m ELSE [newDynamicGroupState EXCEPT !.pend = m.pend]

\* The requests of a window, of accounts that are bound, and whether they
\* suffice to start a memory.
WindowRows(g, k) ==
  {i \in k..through : log[i].group = g /\ log[i].account \in Bound(g)}
dynamicBootstrapSufficient(g, k) ==
  /\ Cardinality(WindowRows(g, k)) >= MinRequests
  /\ \A i \in WindowRows(g, k) : acct[log[i].account] # Invalid

seedDynamicGroupState(g, k) ==
  LET rows == WindowRows(g, k)
      used == {log[i].account : i \in rows}
  IN [init |-> TRUE, last |-> through, from |-> through,
      seen |-> [i \in 1..MaxRows |-> IF i \in rows THEN 1 ELSE 0],
      rates |-> overlayBindingRates([a \in Accounts |->
                  IF a \in used THEN costs[a] ELSE Invalid], g),
      pend |-> mem.dynamic[g].pend]

\* The requests of a group since its memory looked last, of whatever account.
NewRows(g) == {i \in mem.dynamic[g].last + 1 .. through : log[i].group = g}

\* Mutant: the mark stays.
ForgetsMark(g) ==
  [mem.dynamic[g] EXCEPT
     !.seen = [i \in 1..MaxRows |-> @[i] + IF i \in NewRows(g) THEN 1 ELSE 0],
     !.rates = overlayBindingRates(@, g)]

updateDynamicMemory(g) ==
  LET m == mem.dynamic[g]
      used == {log[i].account : i \in NewRows(g)}
      found == [a \in Accounts |->
                  IF a \in used /\ costs[a] # Invalid THEN costs[a] ELSE m.rates[a]]
  IN [m EXCEPT !.seen = [i \in 1..MaxRows |-> @[i] + IF i \in NewRows(g) THEN 1 ELSE 0],
               !.rates = overlayBindingRates(found, g),
               !.last = through]

\* The rate of a counted account is another one, or missing, before or after.
relevantAccountRatesChanged(old, new) ==
  \E a \in AccountBase(new) : old.rates[a] # new.rates[a] \/ new.rates[a] = Invalid
-----------------------------------------------------------------------------
(* Budgets.                                                                  *)

Happens(what) == left[what] > 0 /\ left' = [left EXCEPT ![what] = @ - 1]
Affected(S) == [g \in Groups |-> IF S \cap env.bound[g] # {} THEN events[g] + 1 ELSE events[g]]
-----------------------------------------------------------------------------
(* Publication.                                                              *)

dynamicGroupRateChangeSignificant(current, target) ==
  target > current + Deadband - 1 \/ current > target + Deadband - 1

\* The target for a computed rate: not farther than a step.
dynamicPublishedTarget(current, raw) ==
  IF raw > current + StepLimit THEN current + StepLimit
  ELSE IF current > raw + StepLimit THEN current - StepLimit ELSE raw

\* The group is through for this cycle, with memory m.
Settled(g, m, fine) ==
  /\ mem' = [mem EXCEPT !.dynamic[g] = m]
  /\ good' = (good \/ fine)
  /\ todo' = todo \ {g}
  /\ UNCHANGED <<disk, call>>

\* Mutant: the target is not saved before it is sent.
SendsFirst(g, m) ==
  /\ mem' = [mem EXCEPT !.dynamic[g] = m]
  /\ call' = [group |-> g, rate |-> m.pend]
  /\ todo' = todo \ {g}
  /\ UNCHANGED <<disk, good, left>>

\* The file is written before the gateway.
Sent(g, m) ==
  \/ /\ mem' = [mem EXCEPT !.dynamic[g] = m]
     /\ disk' = mem'
     /\ call' = [group |-> g, rate |-> m.pend]
     /\ todo' = todo \ {g}
     /\ UNCHANGED <<good, left>>
  \/ Happens("faults") /\ Settled(g, m, FALSE)

retryDynamicPending(g, m) ==
  \/ /\ ~dynamicGroupRateChangeSignificant(view.rate[g], m.pend)
     /\ Settled(g, clearDynamicPending(m), TRUE)
     /\ UNCHANGED left
  \/ /\ dynamicGroupRateChangeSignificant(view.rate[g], m.pend)
     /\ Sent(g, m)

\* The computed rate is any: it depends on costs and their order.
ProposeChange(g, m) ==
  \E raw \in Rates :
    LET target == dynamicPublishedTarget(view.rate[g], raw) IN
    \/ /\ ~dynamicGroupRateChangeSignificant(view.rate[g], target)
       /\ Settled(g, clearDynamicPending(m), TRUE)
       /\ UNCHANGED left
    \/ /\ dynamicGroupRateChangeSignificant(view.rate[g], target)
       /\ Sent(g, [m EXCEPT !.pend = target])

\* Mutant: what was computed is published without a reason too.
AlwaysProposes(g, m, event) ==
  \/ m.pend # 0 /\ retryDynamicPending(g, m)
  \/ m.pend = 0 /\ ~RatesKnown(m) /\ Settled(g, m, FALSE) /\ UNCHANGED left
  \/ m.pend = 0 /\ RatesKnown(m) /\ ProposeChange(g, m)

publishDynamicGroup(g, m, event) ==
  \/ m.pend # 0 /\ retryDynamicPending(g, m)
  \/ m.pend = 0 /\ ~RatesKnown(m) /\ Settled(g, m, FALSE) /\ UNCHANGED left
  \/ m.pend = 0 /\ RatesKnown(m) /\ ~event /\ Settled(g, m, TRUE) /\ UNCHANGED left
  \/ m.pend = 0 /\ RatesKnown(m) /\ event /\ ProposeChange(g, m)
-----------------------------------------------------------------------------
(* The cycle.                                                                *)

\* A cycle that fails or was of no use leaves the last success as it was.
EndCycle(fine) ==
  /\ pc' = "idle"
  /\ health' = IF fine THEN Check!Healthy ELSE Check!Failed(health)
  /\ past' = IF fine THEN [past EXCEPT !.good = 0] ELSE past
  /\ view' = [on |-> {}, acct |-> NoRates, rate |-> [g \in Groups |-> Invalid]]
  /\ through' = 0 /\ todo' = {} /\ ready' = {} /\ good' = FALSE
  /\ choice' = [g \in Groups |-> 0] /\ costs' = NoRates
  /\ UNCHANGED call

\* Without a key the worker waits.
WaitForKey ==
  /\ up /\ pc = "idle" /\ ~key
  /\ health' = Check!Waiting
  /\ past' = [past EXCEPT !.wait = 0]
  /\ UNCHANGED <<env, gateway, rate, disk, mem, up, local, left, writes, events>>

\* The one-off start of the group of the shared upstream is due: exactly its
\* accounts are listed, with rates somebody has set, and it has a memory.
InitialDue(listed) ==
  /\ env.image # 0 /\ ~mem.applied
  /\ env.bound[env.image] \cap listed = env.initial
  /\ usableDynamicGroupState(mem.dynamic[env.image])
  /\ \A a \in env.initial : acct[a] \notin {Invalid, DefaultRate}

List ==
  /\ up /\ pc = "idle" /\ key
  /\ view' = [on |-> on, acct |-> acct, rate |-> rate]
  /\ good' = (\A g \in Groups : env.bound[g] \cap on = {})
  /\ pc' = IF InitialDue(on) THEN "initial" ELSE "single"
  /\ todo' = {g \in Groups : Cardinality(env.bound[g] \cap on) = 1}
  /\ UNCHANGED <<env, gateway, rate, disk, mem, up, through, ready, choice, costs, call,
                 health, past, left, writes, events>>

ListFails ==
  /\ up /\ pc = "idle"
  /\ Happens("faults")
  /\ EndCycle(FALSE)
  /\ UNCHANGED <<env, gateway, rate, disk, mem, up, writes, events>>

\* initializeImageCreaterRates: costs are rebased to the listed rates and the
\* initial rate is to be published; undone if it cannot be saved.  A memory
\* that counts further accounts is an error of the cycle.
Initialize ==
  LET g == env.image
      m == [mem.dynamic[g] EXCEPT !.pend = InitialRate,
              !.rates = [a \in Accounts |-> IF a \in env.initial THEN view.acct[a] ELSE Invalid]]
  IN
  /\ up /\ pc = "initial"
  /\ \/ /\ RatesKnown(m)
        /\ mem' = [mem EXCEPT !.dynamic[g] = m, !.applied = TRUE]
        /\ disk' = mem'
        /\ pc' = "single"
        /\ events' = [events EXCEPT ![g] = @ + 1]
        /\ UNCHANGED <<health, past, view, through, todo, ready, choice, costs, call, good, left>>
     \/ /\ \/ ~RatesKnown(m) /\ UNCHANGED left
           \/ Happens("faults")
        /\ EndCycle(FALSE)
        /\ UNCHANGED <<mem, disk, events>>
  /\ UNCHANGED <<env, gateway, rate, up, writes>>

Idle == up /\ call = NoCall
Going == UNCHANGED <<env, gateway, rate, up, health, past, writes, events>>

\* Mutant: a group that has a memory is left to it.
SkipsRemembered(g) ==
  /\ Idle /\ pc = "single" /\ g \in todo
  /\ LET a == CHOOSE b \in Bound(g) : TRUE
         r == view.acct[a]
     IN call' = IF r \in {Invalid, view.rate[g]} \/ mem.dynamic[g].init
                THEN call ELSE [group |-> g, rate |-> r]
  /\ todo' = todo \ {g}
  /\ UNCHANGED <<disk, mem, pc, view, through, ready, choice, costs, good, left>>
  /\ Going

\* A group with one account takes its rate; this needs no memory.
syncSingleAccountGroup(g) ==
  /\ Idle /\ pc = "single" /\ g \in todo
  /\ LET a == CHOOSE b \in Bound(g) : TRUE
         r == view.acct[a]
     IN /\ call' = IF r \in {Invalid, view.rate[g]} THEN call ELSE [group |-> g, rate |-> r]
        /\ good' = (good \/ r = view.rate[g])
  /\ todo' = todo \ {g}
  /\ UNCHANGED <<disk, mem, pc, view, through, ready, choice, costs, left>>
  /\ Going

\* Usage cannot be read: the groups still pending fail, the rest of the cycle
\* only saves.
UsageFails ==
  /\ Idle /\ Plan # {} /\ \/ pc \in {"single", "retry"} /\ todo = {}
                          \/ pc = "bootstrap"
  /\ pc = "retry" => ready # {}
  /\ Happens("faults")
  /\ pc' = "save" /\ todo' = {}
  /\ UNCHANGED <<disk, mem, view, through, ready, choice, costs, call, good>>
  /\ Going

prepareDynamicStates ==
  /\ Idle /\ pc = "single" /\ todo = {} /\ Plan # {}
  /\ through' = Len(log)
  /\ mem' = [mem EXCEPT !.dynamic = [g \in Groups |-> IF g \in Plan THEN Prepared(g) ELSE @[g]]]
  /\ ready' = {g \in Plan : Prepared(g).init}
  /\ todo' = Plan \ ready'
  /\ pc' = IF todo' = {} THEN "seed" ELSE "bootstrap"
  /\ UNCHANGED <<disk, view, choice, costs, call, good, left>>
  /\ Going

\* The first of the windows that suffices.  As time goes by requests leave the
\* longest one, and none comes back.
loadDynamicBootstrap ==
  /\ Idle /\ pc = "bootstrap"
  /\ oldest' \in oldest..through + 1
  /\ \E from \in [todo -> oldest'..through + 1] :
       /\ \A g \in todo : dynamicBootstrapSufficient(g, oldest')
                          => dynamicBootstrapSufficient(g, from[g])
       /\ choice' = [g \in Groups |->
                       IF g \in todo /\ dynamicBootstrapSufficient(g, from[g]) THEN from[g] ELSE 0]
  /\ costs' = acct
  /\ pc' = "seed"
  /\ UNCHANGED <<env, log, on, acct, key, rate, disk, mem, up, view, through, todo, ready, call,
                 good, health, past, left, writes, events>>

\* Too little is known of a group: only a pending target is tried again.
BootstrapWaits(g) ==
  /\ Idle /\ pc = "seed" /\ g \in todo /\ choice[g] = 0
  /\ \A h \in todo : choice[h] = 0 => g <= h
  /\ \/ mem.dynamic[g].pend # 0 /\ publishDynamicGroup(g, mem.dynamic[g], FALSE)
     \/ mem.dynamic[g].pend = 0 /\ Settled(g, mem.dynamic[g], FALSE) /\ UNCHANGED left
  /\ UNCHANGED <<pc, view, through, ready, choice, costs>>
  /\ Going

Seed(g) ==
  /\ Idle /\ pc = "seed" /\ g \in todo /\ choice[g] # 0
  /\ \A h \in todo : choice[h] # 0 /\ g <= h
  /\ publishDynamicGroup(g, seedDynamicGroupState(g, choice[g]), TRUE)
  /\ UNCHANGED <<pc, view, through, ready, choice, costs>>
  /\ Going

\* Groups with a pending target are tried again first, and keep their usage.
BeginRetry ==
  /\ Idle /\ pc = "seed" /\ todo = {}
  /\ todo' = {g \in ready : mem.dynamic[g].pend # 0}
  /\ ready' = ready \ todo'
  /\ pc' = "retry"
  /\ UNCHANGED <<disk, mem, view, through, choice, costs, call, good, left>>
  /\ Going

Retry(g) ==
  /\ Idle /\ pc = "retry" /\ g \in todo /\ \A h \in todo : g <= h
  /\ publishDynamicGroup(g, mem.dynamic[g], FALSE)
  /\ UNCHANGED <<pc, view, through, ready, choice, costs>>
  /\ Going

ListGroupUsageSince ==
  /\ Idle /\ pc = "retry" /\ todo = {} /\ ready # {}
  /\ costs' = acct
  /\ todo' = ready
  /\ pc' = "consume"
  /\ UNCHANGED <<disk, mem, view, through, ready, choice, call, good, left>>
  /\ Going

consumeDynamicGroup(g) ==
  /\ Idle /\ pc = "consume" /\ g \in todo /\ \A h \in todo : g <= h
  /\ LET m == updateDynamicMemory(g)
         changed == relevantAccountRatesChanged(mem.dynamic[g], m)
     IN publishDynamicGroup(g, m, NewRows(g) # {} \/ changed)
  /\ UNCHANGED <<pc, view, through, ready, choice, costs>>
  /\ Going

\* The answer to a PUT.
Applied == rate' = [rate EXCEPT ![call.group] = call.rate]
        /\ writes' = IF rate = rate' THEN writes
                     ELSE IF pc = "single" THEN [writes EXCEPT ![call.group].one = @ + 1]
                     ELSE [writes EXCEPT ![call.group].many = @ + 1]

UpdateSucceeds ==
  /\ up /\ call # NoCall
  /\ Applied
  /\ mem' = IF pc = "single" THEN mem
            ELSE [mem EXCEPT !.dynamic[call.group] = clearDynamicPending(@)]
  /\ good' = TRUE
  /\ call' = NoCall
  /\ UNCHANGED <<env, gateway, disk, up, pc, view, through, todo, ready, choice, costs,
                 health, past, left, events>>

\* Refused, or applied with the answer lost.
UpdateFails ==
  /\ up /\ call # NoCall
  /\ Happens("faults")
  /\ Applied \/ UNCHANGED <<rate, writes>>
  /\ call' = NoCall
  /\ UNCHANGED <<env, gateway, disk, mem, up, pc, view, through, todo, ready, choice, costs,
                 good, health, past, events>>

\* The groups are through: the state is saved whatever came of them.
Through ==
  /\ Idle /\ todo = {}
  /\ \/ pc \in {"save", "consume"}
     \/ pc = "single" /\ Plan = {}
     \/ pc = "retry" /\ ready = {}

SaveState ==
  /\ Through
  /\ disk' = mem
  /\ EndCycle(good)
  /\ UNCHANGED <<env, gateway, rate, mem, up, left, writes, events>>

SaveFails ==
  /\ Through
  /\ Happens("faults")
  /\ EndCycle(FALSE)
  /\ UNCHANGED <<env, gateway, rate, disk, mem, up, writes, events>>

Cycle ==
  \/ WaitForKey \/ List \/ ListFails \/ Initialize
  \/ prepareDynamicStates \/ loadDynamicBootstrap \/ UsageFails
  \/ BeginRetry \/ ListGroupUsageSince
  \/ UpdateSucceeds \/ UpdateFails \/ SaveState \/ SaveFails
  \/ \E g \in Groups :
       \/ syncSingleAccountGroup(g) \/ BootstrapWaits(g) \/ Seed(g)
       \/ Retry(g) \/ consumeDynamicGroup(g)

\* A PUT that is under way may still arrive.
Crash ==
  /\ up /\ Happens("crashes")
  /\ \/ call # NoCall /\ Applied
     \/ UNCHANGED <<rate, writes>>
  /\ up' = FALSE
  /\ pc' = "idle"
  /\ mem' = newState
  /\ view' = [on |-> {}, acct |-> NoRates, rate |-> [g \in Groups |-> Invalid]]
  /\ through' = 0 /\ todo' = {} /\ ready' = {} /\ good' = FALSE
  /\ choice' = [g \in Groups |-> 0] /\ costs' = NoRates /\ call' = NoCall
  /\ UNCHANGED <<env, gateway, disk, health, past, events>>

\* Mutant: the health file of the process before stays.
KeepsHealth ==
  /\ ~up
  /\ up' = TRUE
  /\ mem' = disk
  /\ past' = [good |-> MaxAge, wait |-> MaxAge]
  /\ UNCHANGED <<env, gateway, rate, disk, local, health, left, writes, events>>

\* A new process removes the health file and loads the state.
Start ==
  /\ ~up
  /\ up' = TRUE
  /\ mem' = disk
  /\ health' = Check!Invalidated
  /\ past' = [good |-> MaxAge, wait |-> MaxAge]
  /\ UNCHANGED <<env, gateway, rate, disk, local, left, writes, events>>
-----------------------------------------------------------------------------
(* The gateway, the account worker and the administrator.                    *)

Untouched == UNCHANGED <<env, rate, disk, mem, up, local, health, past, writes>>

Request(g, a) ==
  /\ Happens("rows")
  /\ a \in env.bound[g] /\ (a \in on \/ env.late)
  /\ log' = Append(log, [group |-> g, account |-> a])
  /\ events' = [events EXCEPT ![g] = @ + 1]
  /\ UNCHANGED <<on, acct, key, oldest>> /\ Untouched

ChangeAccountRate(a) ==
  /\ Happens("rates")
  /\ \E r \in env.rates \ {acct[a]} : acct' = [acct EXCEPT ![a] = r]
  /\ events' = Affected({a})
  /\ UNCHANGED <<log, on, key, oldest>> /\ Untouched

Switch(a) ==
  /\ Happens("switches")
  /\ a \in UNION {env.bound[g] : g \in Groups}
  /\ on' = IF a \in on THEN on \ {a} ELSE on \cup {a}
  /\ events' = Affected({a})
  /\ UNCHANGED <<log, acct, key, oldest>> /\ Untouched

SetKey ==
  /\ Happens("keys")
  /\ key' = ~key
  /\ UNCHANGED <<log, on, acct, oldest, events>> /\ Untouched

\* An interval goes by.
Tick ==
  /\ env.clock
  /\ health' = Check!Aged(health)
  /\ past' = [good |-> Check!Older(past.good), wait |-> Check!Older(past.wait)]
  /\ UNCHANGED <<env, gateway, rate, disk, mem, up, local, left, writes, events>>

Around ==
  \/ Tick \/ SetKey
  \/ \E a \in Accounts : ChangeAccountRate(a) \/ Switch(a) \/ \E g \in Groups : Request(g, a)

Init ==
  /\ env \in Environments
  /\ left = env.budget
  /\ log = <<>>
  /\ on = Accounts
  /\ acct = [a \in Accounts |-> env.start]
  /\ rate = [g \in Groups |-> env.start]
  /\ key = ~env.clock
  /\ oldest = 1
  /\ disk = newState /\ mem = newState /\ up = TRUE
  /\ pc = "idle"
  /\ view = [on |-> {}, acct |-> NoRates, rate |-> [g \in Groups |-> Invalid]]
  /\ through = 0 /\ todo = {} /\ ready = {} /\ good = FALSE
  /\ choice = [g \in Groups |-> 0] /\ costs = NoRates /\ call = NoCall
  /\ health = Check!Invalidated
  /\ past = [good |-> MaxAge, wait |-> MaxAge]
  /\ writes = [g \in Groups |-> [one |-> 0, many |-> 0]]
  /\ events = [g \in Groups |-> 0]

Next == Cycle \/ Crash \/ Start \/ Around

\* The ticker goes on, calls end by their timeouts, the container restarts: a
\* process that is up can always take a step of its cycle, so the first
\* conjunct is WF_vars(Cycle).
Fairness == ([]<>~up \/ []<><<Cycle>>_vars) /\ WF_vars(Start)

Spec == Init /\ [][Next]_vars
FairSpec == Spec /\ Fairness
-----------------------------------------------------------------------------
(* Properties.                                                               *)

\* Variables hold values of their kinds; no request is counted twice in the
\* process either.
TypeOK ==
  /\ \A i \in DOMAIN log : log[i] \in [group : Groups, account : Accounts]
  /\ Len(log) <= MaxRows
  /\ on \in SUBSET Accounts
  /\ acct \in [Accounts -> 0..MaxRate]
  /\ oldest \in 1..MaxRows + 1
  /\ rate \in [Groups -> Rates]
  /\ disk \in State /\ mem \in State
  /\ pc \in {"idle", "initial", "single", "bootstrap", "seed", "retry", "consume", "save"}
  /\ through \in 0..Len(log)
  /\ todo \in SUBSET Groups /\ ready \in SUBSET Groups
  /\ choice \in [Groups -> 0..MaxRows + 1]
  /\ costs \in [Accounts -> 0..MaxRate]
  /\ call = NoCall \/ call \in [group : Groups, rate : Rates]
  /\ health \in Check!Health
  /\ past \in [good : 0..MaxAge, wait : 0..MaxAge]

\* The state file and the rates are a ledger: what is on disk counts each
\* request of a memory's time once, whatever fails in between, and the rate of
\* a group with several accounts changes only to a target saved before
\* (dynamic_publish.go: the state is saved, then the gateway is asked).
Ledger == INSTANCE RateLedger WITH
  log <- [i \in DOMAIN log |-> log[i].group],
  seen <- [g \in Groups |-> disk.dynamic[g].seen],
  from <- [g \in Groups |-> disk.dynamic[g].from],
  mark <- [g \in Groups |-> disk.dynamic[g].last],
  intent <- [g \in Groups |-> disk.dynamic[g].pend],
  alone <- Single
LedgerSpec == Ledger!Spec

\* Rates are frozen without a reason (dynamic.go: event; README.md: 完全冻结):
\* neither as the group of one account nor as one of many has a group had its
\* rate changed more often than requests of the group came, rates or bindings of
\* its accounts changed, or it was rebased.  (A reason may serve both: the rate of
\* an account is followed at once where it is alone, and by the memory later.)
NoRestlessRates ==
  \A g \in Groups : writes[g].one <= events[g] /\ writes[g].many <= events[g]

\* The one-off start is due and fails in every cycle, before any group is
\* served: the memory counts an account that is not bound any more
\* (imagecreater_initial.go:49, syncer.go:64).
StartStuck ==
  InitialDue(on) /\ ~(AccountBase(mem.dynamic[env.image]) \subseteq env.initial)

\* A target on disk is not forgotten: it becomes the rate, through refusals,
\* lost answers and crashes, unless the group loses accounts or cycles end at
\* the one-off start.
IntentCarriedOut ==
  \A g \in Groups, r \in Rates :
    (g # env.image /\ disk.dynamic[g].pend = r)
      ~> (rate[g] = r \/ Cardinality(env.bound[g] \cap on) < 2 \/ StartStuck)

SinglesServed ==
  \A g \in Groups : \A a \in Accounts :
    env.bound[g] \cap on = {a} /\ acct[a] # Invalid => rate[g] = acct[a]

\* Whatever fails, groups with one account end up with its rate, as long as
\* there is a key and cycles do not end at the one-off start.
SinglesFollow == []<>(key /\ ~StartStuck => SinglesServed)

\* What README.md:3 and :100 say without the second condition: a group with one
\* account takes over its rate and follows it, and needs no usage for that
\* (groups are served after initializeImageCreaterRates, syncer.go:64).
SinglesInherit == []<>(key => SinglesServed)

\* Groups get the rates they should have.
GroupsFollow == IntentCarriedOut /\ SinglesFollow

\* The health check passes only if a cycle within three intervals was of use,
\* or waited for its key.
HealthIsTrue ==
  Check!Passes(health) => past.good < MaxAge \/ past.wait < MaxAge
=============================================================================
