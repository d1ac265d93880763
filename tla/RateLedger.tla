----------------------------- MODULE RateLedger -----------------------------
(* What the group worker of rate-sync promises about its state file and the  *)
(* rates of the groups, whatever order its cycles, failures and restarts     *)
(* come in: every request logged after a group's memory was started is       *)
(* counted once, and a group with several accounts changes its rate only to  *)
(* a target that was on disk before.  GroupRates implements it.              *)
EXTENDS Naturals, Sequences

CONSTANTS
  Groups,
  MaxRows,   \* requests in the log, at most
  MaxRate    \* rates are 1..MaxRate; 0 is "none"

VARIABLES
  log,       \* the group of every request, in the order of their ids
  seen,      \* how often the memory of a group counts a request
  from,      \* the last request when the memory was started
  mark,      \* the last request that was looked at
  intent,    \* the target that is to be written, or 0
  alone,     \* the groups that take the rate of their only account
  rate       \* the rate of a group at the gateway

vars == <<log, seen, from, mark, intent, alone, rate>>

Ids == 1..MaxRows
Rates == 1..MaxRate
RowsOf(g, lo, hi) == {i \in DOMAIN log : lo < i /\ i <= hi /\ log[i] = g}

TypeOK ==
  /\ log \in Seq(Groups) /\ Len(log) <= MaxRows
  /\ seen \in [Groups -> [Ids -> Nat]]
  /\ from \in [Groups -> Nat]
  /\ mark \in [Groups -> Nat]
  /\ intent \in [Groups -> 0..MaxRate]
  /\ alone \in SUBSET Groups
  /\ rate \in [Groups -> Rates]

\* Between its start and its mark a memory counts each request of its group
\* once; before, at most once; after, never.
CountedOnce ==
  \A g \in Groups :
    /\ from[g] <= mark[g] /\ mark[g] <= Len(log)
    /\ \A i \in Ids :
         /\ seen[g][i] <= 1
         /\ seen[g][i] = 1 => i <= mark[g] /\ log[i] = g
         /\ i \in RowsOf(g, from[g], mark[g]) => seen[g][i] = 1

Init ==
  /\ log = <<>>
  /\ seen = [g \in Groups |-> [i \in Ids |-> 0]]
  /\ from = [g \in Groups |-> 0]
  /\ mark = [g \in Groups |-> 0]
  /\ intent = [g \in Groups |-> 0]
  /\ alone \in SUBSET Groups
  /\ rate \in [Groups -> Rates]

\* The gateway logs a request.
Request(g) ==
  /\ Len(log) < MaxRows
  /\ log' = Append(log, g)
  /\ UNCHANGED <<seen, from, mark, intent, rate>>

\* A memory that goes on counts what came since its mark.
Continued(g) ==
  /\ from'[g] = from[g]
  /\ mark'[g] \in mark[g]..Len(log)
  /\ seen'[g] = [i \in Ids |->
                   seen[g][i] + IF i \in RowsOf(g, mark[g], mark'[g]) THEN 1 ELSE 0]

\* A memory that is started, not before the mark of the one it replaces, takes
\* some requests of a window that ends at its start, and counts what came since.
Restarted(g) ==
  /\ mark'[g] \in mark[g]..Len(log)
  /\ from'[g] \in mark[g]..mark'[g]
  /\ \E window \in SUBSET RowsOf(g, 0, from'[g]) :
       seen'[g] = [i \in Ids |->
                     IF i \in window \cup RowsOf(g, from'[g], mark'[g]) THEN 1 ELSE 0]

\* A memory that cannot go on is dropped; it counts nothing.
Dropped(g) ==
  /\ mark'[g] = 0 /\ from'[g] = 0
  /\ seen'[g] = [i \in Ids |-> 0]

\* One write of the file: all groups at once.
Save ==
  /\ seen' \in [Groups -> [Ids -> 0..1]]
  /\ from' \in [Groups -> 0..MaxRows]
  /\ mark' \in [Groups -> 0..MaxRows]
  /\ intent' \in [Groups -> 0..MaxRate]
  /\ \A g \in Groups : Continued(g) \/ Restarted(g) \/ Dropped(g)
  /\ UNCHANGED <<log, rate>>

\* A group with several accounts takes the target that is on disk.
Publish(g) ==
  /\ g \notin alone
  /\ intent[g] # 0
  /\ rate' = [rate EXCEPT ![g] = intent[g]]
  /\ UNCHANGED <<log, seen, from, mark, intent>>

\* A group with one account takes the rate of that account.
Inherit(g) ==
  /\ g \in alone
  /\ \E r \in Rates : rate' = [rate EXCEPT ![g] = r]
  /\ UNCHANGED <<log, seen, from, mark, intent>>

\* The bindings the worker goes by may be others after any step.
Next ==
  /\ alone' \in SUBSET Groups
  /\ \/ Save
     \/ \E g \in Groups : Request(g) \/ Publish(g) \/ Inherit(g)
     \/ UNCHANGED <<log, seen, from, mark, intent, rate>>

Spec == Init /\ [][Next]_vars
=============================================================================
