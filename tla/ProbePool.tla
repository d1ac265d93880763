------------------------------- MODULE ProbePool -------------------------------
(***************************************************************************)
(* The pool that probes the accounts of one cycle (runProbes in            *)
(* monitor/workers.go): a feeder hands accounts to workers over an         *)
(* unbuffered channel, workers probe and put results into a channel with   *)
(* one place per worker, the cycle collects them until it is closed.       *)
(* Cancelling the context of the cycle may reach each goroutine at any     *)
(* moment.  MonitorCycle starts the pool and takes its results.            *)
(*                                                                         *)
(* Results of different accounts do not depend on their order: the channel *)
(* of results and the collected results are sets.                          *)
(***************************************************************************)
EXTENDS Integers, FiniteSets

CONSTANTS
  Accounts,     \* account ids, positive integers
  Concurrency   \* MONITORING_PROBE_CONCURRENCY

ASSUME PoolAssumption ==
  /\ IsFiniteSet(Accounts) /\ Accounts \subseteq Nat \ {0}
  /\ Concurrency \in Nat \ {0}

VARIABLES
  queue,     \* accounts the feeder still holds
  jobs,      \* the channel of jobs: "open" or "closed"
  worker,    \* what each worker does
  results,   \* the channel of results
  answers,   \* the results collected
  canceled   \* the context of the process is cancelled

pool == <<queue, jobs, worker, results, answers>>

Workers == 1..Concurrency
NoJob == 0

\* What a probe of an account finds; "config": a failure that only a change of
\* the configuration can end (401, 403, missing credential).
ProbeStatus == {"operational", "degraded", "failed", "config"}

\* At the first select, probing, at the second select, or returned.
Ready == [at |-> "ready", job |-> NoJob, found |-> "none"]
Gone  == [at |-> "gone", job |-> NoJob, found |-> "none"]

Result == [job : Accounts, found : ProbeStatus]

PoolTypeOK ==
  /\ queue \subseteq Accounts
  /\ jobs \in {"open", "closed"}
  /\ worker \in [Workers -> [at : {"ready", "probing", "sending", "gone"},
                             job : Accounts \cup {NoJob}, found : ProbeStatus \cup {"none"}]]
  /\ results \subseteq Result /\ answers \subseteq Result
  /\ canceled \in BOOLEAN

PoolInit ==
  /\ queue = {} /\ jobs = "closed" /\ results = {} /\ answers = {}
  /\ worker = [w \in Workers |-> Gone]
  /\ canceled = FALSE

WorkerCount(accounts) ==
  IF Cardinality(accounts) < Concurrency THEN Cardinality(accounts) ELSE Concurrency
Started == {w \in Workers : worker[w].at # "gone"}

StartPool(accounts) ==
  /\ queue' = accounts
  /\ jobs' = "open"
  /\ worker' = [w \in Workers |-> IF w <= WorkerCount(accounts) THEN Ready ELSE Gone]
  /\ results' = {} /\ answers' = {}

\* The process has ended, or collected all results.
NoPool ==
  /\ queue' = {} /\ jobs' = "closed" /\ results' = {} /\ answers' = {}
  /\ worker' = [w \in Workers |-> Gone]

First(accounts) == CHOOSE a \in accounts : \A b \in accounts : a <= b
Rest(accounts) == accounts \ {First(accounts)}

\* feedProbeJobs: the next account meets a worker at its first select.
Give(w) ==
  /\ jobs = "open" /\ queue # {} /\ worker[w].at = "ready"
  /\ worker' = [worker EXCEPT ![w] = [at |-> "probing", job |-> First(queue), found |-> "none"]]
  /\ queue' = Rest(queue)
  /\ UNCHANGED <<jobs, results, answers>>

\* The feeder has no more accounts, or sees the cancellation.
CloseJobs ==
  /\ jobs = "open"
  /\ queue = {} \/ canceled
  /\ jobs' = "closed"
  /\ UNCHANGED <<queue, worker, results, answers>>

\* The probe ends, by its answer or its timeout.
Probe(w, found) ==
  /\ worker[w].at = "probing"
  /\ worker' = [worker EXCEPT ![w].at = "sending", ![w].found = found]
  /\ UNCHANGED <<queue, jobs, results, answers>>

Send(w, capacity) ==
  /\ worker[w].at = "sending"
  /\ Cardinality(results) < capacity
  /\ results' = results \cup {[job |-> worker[w].job, found |-> worker[w].found]}
  /\ worker' = [worker EXCEPT ![w] = Ready]
  /\ UNCHANGED <<queue, jobs, answers>>

Return(w) ==
  /\ \/ worker[w].at = "ready" /\ (jobs = "closed" \/ canceled)
     \/ worker[w].at = "sending" /\ canceled
  /\ worker' = [worker EXCEPT ![w] = Gone]
  /\ UNCHANGED <<queue, jobs, results, answers>>

Collect ==
  \E r \in results :
    /\ results' = results \ {r}
    /\ answers' = answers \cup {r}
    /\ UNCHANGED <<queue, jobs, worker>>

ClosedEarly == queue = {} /\ results = {}
\* The closer has closed the channel of results and it is empty.
Drained == Started = {} /\ results = {}

PoolStep(capacity, outcomes) ==
  \/ \E w \in Workers :
       \/ Give(w) \/ Send(w, capacity) \/ Return(w)
       \/ \E found \in outcomes : Probe(w, found)
  \/ CloseJobs
  \/ Collect
=============================================================================
