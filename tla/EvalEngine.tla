----------------------------- MODULE EvalEngine -----------------------------
(***************************************************************************)
(* The batch engine of account-eval (account-eval/runner.go, store.go and  *)
(* the run handlers of server.go).                                         *)
(*                                                                         *)
(* A run (a batch) is one row of table runs and one row of table results   *)
(* per cell, a cell being one question put to one account.  One loop picks *)
(* the oldest queued run, claims it and executes it with a pool of         *)
(* workers; HTTP handlers create, cancel, retry and delete runs at the     *)
(* same time.  The tables survive a crash, everything else is lost; the    *)
(* process repairs the tables when it opens the store again.               *)
(*                                                                         *)
(* Each SQLite statement or transaction is one step (the store opens one   *)
(* connection, SetMaxOpenConns(1)).  Engine.mu is held by a cancel handler *)
(* from its first read to its call of e.cancel, three steps here; the      *)
(* loop's critical sections are single steps that wait for that lock.      *)
(***************************************************************************)
EXTENDS Integers, FiniteSets

CONSTANTS
  MaxRuns,      \* runs ever submitted (bound; run ids are the seq column)
  Accounts,     \* upstream accounts
  MaxQuestions, \* questions of a suite
  Workers,      \* the goroutines of runBatch: Settings.Concurrency of them
  MaxFaults,    \* database operations of the engine that may fail (bound)
  MaxRestarts,  \* SIGTERMs and crashes (bound)
  None          \* no run

ASSUME EvalAssumption ==
  /\ MaxRuns \in Nat
  /\ MaxQuestions \in Nat \ {0}
  /\ Workers # {}
  /\ MaxFaults \in Nat
  /\ MaxRestarts \in Nat
  /\ None \notin 1..MaxRuns

Runs      == 1..MaxRuns
Questions == 1..MaxQuestions
Cells     == Runs \X Accounts \X Questions
CellsOf(r) == {c \in Cells : c[1] = r}

Active == {"queued", "running", "cancelling"}
Ended  == {"cancelled", "interrupted", "completed", "completed_with_errors"}
RunStatus  == Active \cup Ended \cup {"absent"}
\* "failed" stands for every verdict of evaluate but "completed".
CellStatus == {"absent", "queued", "running", "completed", "failed",
               "interrupted", "cancelled"}

VARIABLES
  run,      \* runs.status by seq; "absent": never created or deleted
  cell,     \* results.status by cell
  parent,   \* Run.ParentID: the run a retry was made from
  nextRun,  \* AUTOINCREMENT of runs.seq
  asked,    \* history: how often a cell was taken to its account
  proc,     \* "down", "opened" (first repair statement done) or "up"
  stopping, \* the service context is cancelled
  engine,   \* where Engine.loop stands
  batch,    \* the loop's local id
  current,  \* Engine.current
  signalled,\* the batch context was cancelled by e.cancel
  failure,  \* runBatch has an error to return
  work,     \* channel of account lists: account -> questions left to take
  pc,       \* where each worker stands
  acct,     \* the account whose list the worker holds
  todo,     \* the rest of that list
  ques,     \* the question being asked
  out,      \* out.Status
  cancelPc, \* the cancel handler that holds Engine.mu
  cancelId, \* its run
  retry,    \* the retry handler: [of, cells] it has read, or None
  faults, restarts

tables  == <<run, cell, parent, nextRun>>
loop    == <<engine, batch, current>>
context == <<stopping, signalled, failure>>
pool    == <<work, pc, acct, todo, ques, out>>
handler == <<cancelPc, cancelId, retry>>
budget  == <<faults, restarts>>
vars == <<tables, asked, proc, loop, context, pool, handler, budget>>

EnginePc == {"idle", "picked", "claimed", "working", "clearing", "stopped"}
WorkerPc == {"take", "cell", "asking", "saving", "done"}

TablesTyped ==
  /\ run \in [Runs -> RunStatus]
  /\ cell \in [Cells -> CellStatus]
  /\ parent \in [Runs -> Runs \cup {None}]
  /\ nextRun \in 1..(MaxRuns + 1)
LoopTyped ==
  /\ proc \in {"down", "opened", "up"}
  /\ engine \in EnginePc
  /\ batch \in Runs \cup {None}
  /\ current \in Runs \cup {None}
ContextTyped ==
  /\ stopping \in BOOLEAN
  /\ signalled \in BOOLEAN
  /\ failure \in BOOLEAN
PoolTyped ==
  /\ work \in [Accounts -> SUBSET Questions]
  /\ pc \in [Workers -> WorkerPc]
  /\ acct \in [Workers -> Accounts \cup {None}]
  /\ todo \in [Workers -> SUBSET Questions]
  /\ ques \in [Workers -> Questions]
  /\ out \in [Workers -> CellStatus]
HandlerTyped ==
  /\ cancelPc \in {"free", "loaded", "committed"}
  /\ cancelId \in Runs \cup {None}
  /\ retry \in [of : Runs, cells : SUBSET (Accounts \X Questions)] \cup {None}
BudgetTyped == faults \in 0..MaxFaults /\ restarts \in 0..MaxRestarts

TypeOK ==
  /\ TablesTyped /\ LoopTyped /\ ContextTyped /\ PoolTyped /\ HandlerTyped
  /\ BudgetTyped
  /\ asked \in [Cells -> Nat]

-----------------------------------------------------------------------------
(* Memory of a process that has just started or has just died.             *)

NoWork    == [a \in Accounts |-> {}]
NoWorkers == [w \in Workers |-> "done"]
NoAccount == [w \in Workers |-> None]
NoTodo    == [w \in Workers |-> {}]
NoQues    == [w \in Workers |-> 1]
NoOut     == [w \in Workers |-> "queued"]

FreshMemory ==
  /\ stopping = FALSE /\ signalled = FALSE /\ failure = FALSE
  /\ engine = "idle" /\ batch = None /\ current = None
  /\ work = NoWork /\ pc = NoWorkers /\ acct = NoAccount
  /\ todo = NoTodo /\ ques = NoQues /\ out = NoOut
  /\ cancelPc = "free" /\ cancelId = None /\ retry = None

MemoryLost ==
  /\ stopping' = FALSE /\ signalled' = FALSE /\ failure' = FALSE
  /\ engine' = "idle" /\ batch' = None /\ current' = None
  /\ work' = NoWork /\ pc' = NoWorkers /\ acct' = NoAccount
  /\ todo' = NoTodo /\ ques' = NoQues /\ out' = NoOut
  /\ cancelPc' = "free" /\ cancelId' = None /\ retry' = None

Init ==
  /\ run = [r \in Runs |-> "absent"]
  /\ cell = [c \in Cells |-> "absent"]
  /\ parent = [r \in Runs |-> None]
  /\ nextRun = 1
  /\ asked = [c \in Cells |-> 0]
  /\ proc = "up"
  /\ FreshMemory
  /\ faults = 0 /\ restarts = 0

\* Every cell of run r whose status is in `from` moves to `to`.
MoveCells(r, from, to) ==
  [c \in Cells |-> IF c[1] = r /\ cell[c] \in from THEN to ELSE cell[c]]

\* The two statements of openStore; they share no transaction.  What was
\* executing when the process died ends as interrupted, it is not resumed.
ResumedStatus == "queued"
RepairedStatus == "interrupted"

CellsRepairedIfRunning ==
  [c \in Cells |-> IF cell[c] = "running" /\ run[c[1]] \in {"running", "cancelling"}
                   THEN RepairedStatus ELSE cell[c]]
RepairedCells ==
  [c \in Cells |-> IF /\ cell[c] \in {"queued", "running"}
                      /\ run[c[1]] \in {"running", "cancelling"}
                   THEN RepairedStatus ELSE cell[c]]

RunsRepairedIfRunning ==
  [r \in Runs |-> IF run[r] = "running" THEN RepairedStatus ELSE run[r]]
RunsRepairedIfCancelling ==
  [r \in Runs |-> IF run[r] = "cancelling" THEN RepairedStatus ELSE run[r]]
RunsRepairedAsFailed ==
  [r \in Runs |-> IF run[r] \in {"running", "cancelling"} THEN "failed" ELSE run[r]]
RepairedRuns ==
  [r \in Runs |-> IF run[r] \in {"running", "cancelling"}
                  THEN RepairedStatus ELSE run[r]]

\* Engine.mu can be taken by the loop.
NoLock == TRUE
MuFree == cancelPc = "free"

\* workerCtx.Err() # nil: service stop, e.cancel, or failed() of a worker.
WorkerCtxDone == stopping \/ signalled \/ failure
BatchCtxDone  == stopping \/ signalled

\* The SELECT of the loop.
Oldest(r) == run[r] = "queued" /\ \A o \in Runs : run[o] = "queued" => r <= o

\* Which runs cancelRun accepts, which of their cells it cancels, and which
\* runs retryRun accepts.
Cancellable(r) == run[r] \in Active
WaitingStatus == {"queued"}
Started(r) == run[r] \notin {"absent", "queued"}
Retryable(r) == run[r] \in Ended

\* UPDATE results ... WHERE id=? AND status='queued' matches its row.
AnyCell(c) == TRUE
Claimable(c) == cell[c] = "queued"

SomeWorkerDone == \E w \in Workers : pc[w] = "done"
AllWorkersDone == \A w \in Workers : pc[w] = "done"

\* One database operation of the engine fails.
Fault == faults < MaxFaults /\ faults' = faults + 1 /\ UNCHANGED restarts
NoFault == UNCHANGED budget

-----------------------------------------------------------------------------
(* HTTP handlers.                                                          *)

\* Store.createRun: the run and all its cells in one transaction.
InsertRun(items, of) ==
  /\ nextRun \in Runs
  /\ run' = [run EXCEPT ![nextRun] = "queued"]
  /\ cell' = [c \in Cells |->
                IF c[1] = nextRun /\ <<c[2], c[3]>> \in items
                THEN "queued" ELSE cell[c]]
  /\ parent' = [parent EXCEPT ![nextRun] = of]
  /\ nextRun' = nextRun + 1

\* Server.createRun: every selected account with every question of the suite.
CreateRun(accounts, questions) ==
  /\ proc = "up"
  /\ accounts # {}
  /\ InsertRun(accounts \X (1..questions), None)
  /\ UNCHANGED <<asked, proc, loop, context, pool, handler, budget>>

\* Engine.cancelRun up to its status test, Engine.mu now held.
CancelLoad(r) ==
  /\ proc = "up" /\ MuFree
  /\ Cancellable(r)
  /\ cancelPc' = "loaded" /\ cancelId' = r
  /\ UNCHANGED <<tables, asked, proc, loop, context, pool, retry, budget>>

\* Its transaction.
CancelCommit ==
  /\ proc = "up" /\ cancelPc = "loaded"
  /\ run' = [run EXCEPT ![cancelId] = IF cancelId = current
                                      THEN "cancelling" ELSE "cancelled"]
  /\ cell' = MoveCells(cancelId, WaitingStatus, "cancelled")
  /\ cancelPc' = "committed"
  /\ UNCHANGED <<parent, nextRun, asked, proc, loop, context, pool,
                 cancelId, retry, budget>>

\* The transaction fails (client gone, database error) and is rolled back.
CancelAbort ==
  /\ proc = "up" /\ cancelPc = "loaded"
  /\ cancelPc' = "free" /\ cancelId' = None
  /\ UNCHANGED <<tables, asked, proc, loop, context, pool, retry, budget>>

\* e.cancel() when the run is still the current one, then Engine.mu is released.
CancelSignal ==
  /\ proc = "up" /\ cancelPc = "committed"
  /\ signalled' = (signalled \/ cancelId = current)
  /\ cancelPc' = "free" /\ cancelId' = None
  /\ UNCHANGED <<tables, asked, proc, loop, stopping, failure, pool, retry, budget>>

\* Server.retryRun: read the ended run and its cells that are not completed.
RetryRead(r) ==
  LET left == {i \in Accounts \X Questions :
                 cell[<<r, i[1], i[2]>>] \notin {"absent", "completed"}}
  IN /\ proc = "up" /\ retry = None
     /\ Retryable(r)
     /\ left # {}
     /\ retry' = [of |-> r, cells |-> left]
     /\ UNCHANGED <<tables, asked, proc, loop, context, pool, cancelPc, cancelId, budget>>

\* Server.retryRun: insert the new run; other handlers may have run in between.
RetryCreate ==
  /\ proc = "up" /\ retry # None
  /\ InsertRun(retry.cells, retry.of)
  /\ retry' = None
  /\ UNCHANGED <<asked, proc, loop, context, pool, cancelPc, cancelId, budget>>

\* Store.deleteRuns: one transaction; an active run among them rolls all back.
DeleteRuns(ids) ==
  /\ proc = "up"
  /\ \A r \in ids : run[r] \notin Active
  /\ \E r \in ids : run[r] # "absent"
  /\ run' = [r \in Runs |-> IF r \in ids THEN "absent" ELSE run[r]]
  /\ cell' = [c \in Cells |-> IF c[1] \in ids THEN "absent" ELSE cell[c]]
  /\ UNCHANGED <<parent, nextRun, asked, proc, loop, context, pool, handler, budget>>

-----------------------------------------------------------------------------
(* Engine.loop and the frame of runBatch.                                  *)

\* loop and runBatch return an error: main stops the service.
LoopFails ==
  /\ engine' = "stopped"
  /\ stopping' = TRUE
  /\ UNCHANGED <<batch, current, signalled, failure>>

LoopStep(from) == proc = "up" /\ engine = from /\ UNCHANGED <<asked, proc, handler>>

\* SELECT the oldest queued run, with the service context.
LoopPick ==
  /\ LoopStep("idle")
  /\ UNCHANGED <<tables, pool>>
  /\ \/ /\ ~stopping
        /\ \E r \in Runs :
             /\ Oldest(r)
             /\ batch' = r
        /\ engine' = "picked"
        /\ UNCHANGED <<current, context>> /\ NoFault
     \/ /\ ~stopping /\ Fault
        /\ LoopFails
     \/ /\ stopping /\ NoFault
        /\ engine' = "stopped"
        /\ UNCHANGED <<batch, current, context>>

\* Nothing is queued: wait for wake or for the ticker.
LoopWait ==
  /\ LoopStep("idle")
  /\ ~stopping /\ \A r \in Runs : run[r] # "queued"
  /\ UNCHANGED vars

\* UPDATE ... WHERE status='queued' under Engine.mu; the id may be stale by now.
LoopClaim ==
  /\ LoopStep("picked") /\ MuFree
  /\ UNCHANGED <<cell, parent, nextRun, pool>>
  /\ \/ /\ ~stopping /\ NoFault
        /\ run[batch] = "queued"
        /\ run' = [run EXCEPT ![batch] = "running"]
        /\ current' = batch
        /\ signalled' = FALSE
        /\ engine' = "claimed"
        /\ UNCHANGED <<batch, stopping, failure>>
     \/ /\ ~stopping /\ NoFault
        /\ run[batch] # "queued"
        /\ engine' = "idle"
        /\ batch' = None
        /\ UNCHANGED <<run, current, context>>
     \/ /\ IF stopping THEN NoFault ELSE Fault
        /\ LoopFails
        /\ UNCHANGED run

\* runBatch reads the run and its queued cells, fills the channel of account
\* lists, closes it and starts the workers.
BatchStart ==
  /\ LoopStep("claimed")
  /\ UNCHANGED <<tables, batch, current>>
  /\ \/ /\ work' = [a \in Accounts |->
                    {q \in Questions : cell[<<batch, a, q>>] = "queued"}]
        /\ pc' = [w \in Workers |-> "take"]
        /\ engine' = "working"
        /\ UNCHANGED <<acct, todo, ques, out, context>> /\ NoFault
     \/ /\ Fault
        /\ failure' = TRUE
        /\ engine' = "clearing"
        /\ UNCHANGED <<pool, stopping, signalled>>

\* wg.Wait() has returned.  Under Engine.mu, the final status of the run, in
\* one transaction; a failure of a worker or of the transaction is returned
\* instead and leaves the run as it is.
AllCompleted(r) == \A c \in CellsOf(r) : cell[c] \in {"absent", "completed"}

Finalize ==
  /\ LoopStep("working") /\ AllWorkersDone
  /\ engine' = "clearing"
  /\ UNCHANGED <<parent, nextRun, batch, current, stopping, signalled, pool>>
  /\ \/ /\ failure
        /\ UNCHANGED <<run, cell, failure>> /\ NoFault
     \/ /\ ~failure /\ MuFree /\ NoFault
        /\ \/ /\ run[batch] = "cancelling"
              /\ run' = [run EXCEPT ![batch] = "cancelled"]
              /\ cell' = MoveCells(batch, {"queued", "interrupted"}, "cancelled")
           \/ /\ run[batch] # "cancelling" /\ BatchCtxDone
              /\ run' = [run EXCEPT ![batch] = "interrupted"]
              /\ cell' = MoveCells(batch, {"queued"}, "interrupted")
           \/ /\ run[batch] # "cancelling" /\ ~BatchCtxDone
              /\ run' = [run EXCEPT ![batch] = IF AllCompleted(batch) THEN "completed"
                                               ELSE "completed_with_errors"]
              /\ UNCHANGED cell
        /\ UNCHANGED failure
     \/ /\ ~failure /\ MuFree /\ Fault
        /\ failure' = TRUE
        /\ UNCHANGED <<run, cell>>

\* runBatch has returned: e.current = "" under Engine.mu, then the error is
\* returned by the loop or the loop goes on.
LoopClear ==
  /\ LoopStep("clearing") /\ MuFree
  /\ current' = None /\ batch' = None /\ signalled' = FALSE
  /\ engine' = IF failure THEN "stopped" ELSE "idle"
  /\ stopping' = (stopping \/ failure)
  /\ UNCHANGED <<tables, failure, pool>> /\ NoFault

-----------------------------------------------------------------------------
(* The workers of runBatch.                                                *)

WorkerStep(w, at) ==
  /\ proc = "up" /\ engine = "working" /\ pc[w] = at
  /\ UNCHANGED <<run, parent, nextRun, proc, loop, stopping, signalled, handler>>

Goto(w, to) == pc' = [pc EXCEPT ![w] = to]

\* for list := range work
TakeList(w) ==
  /\ WorkerStep(w, "take")
  /\ UNCHANGED <<cell, asked, failure, ques, out>> /\ NoFault
  /\ \/ \E a \in Accounts :
          /\ work[a] # {}
          /\ work' = [work EXCEPT ![a] = {}]
          /\ acct' = [acct EXCEPT ![w] = a]
          /\ todo' = [todo EXCEPT ![w] = work[a]]
          /\ Goto(w, "cell")
     \/ /\ \A a \in Accounts : work[a] = {}
        /\ Goto(w, "done")
        /\ UNCHANGED <<work, acct, todo>>

\* The next cell of the list is claimed by UPDATE ... WHERE status='queued',
\* skipped if it is not queued any more; a failed UPDATE stops all workers.
StartCell(w) ==
  /\ WorkerStep(w, "cell")
  /\ todo[w] # {} /\ ~WorkerCtxDone
  /\ UNCHANGED <<work, acct, out>>
  /\ \E q \in todo[w] :
       /\ \A p \in todo[w] : q <= p
       /\ LET c == <<batch, acct[w], q>>
          IN \/ /\ Claimable(c) /\ NoFault
                /\ cell' = [cell EXCEPT ![c] = "running"]
                /\ asked' = [asked EXCEPT ![c] = @ + 1]
                /\ ques' = [ques EXCEPT ![w] = q]
                /\ todo' = [todo EXCEPT ![w] = @ \ {q}]
                /\ Goto(w, "asking")
                /\ UNCHANGED failure
             \/ /\ ~Claimable(c) /\ NoFault
                /\ todo' = [todo EXCEPT ![w] = @ \ {q}]
                /\ UNCHANGED <<cell, asked, ques, pc, failure>>
             \/ /\ Fault
                /\ failure' = TRUE
                /\ Goto(w, "done")
                /\ UNCHANGED <<cell, asked, ques, todo>>

\* The list is exhausted, or the worker context is done.
LeaveList(w) ==
  /\ WorkerStep(w, "cell")
  /\ \/ todo[w] = {} /\ Goto(w, "take")
     \/ todo[w] # {} /\ WorkerCtxDone /\ Goto(w, "done")
  /\ UNCHANGED <<cell, asked, failure, work, acct, todo, ques, out>> /\ NoFault

\* load and evaluate have returned a verdict; the context is looked at once.
Answer(w, verdict) ==
  /\ WorkerStep(w, "asking")
  /\ out' = [out EXCEPT ![w] = IF WorkerCtxDone THEN "interrupted" ELSE verdict]
  /\ Goto(w, "saving")
  /\ UNCHANGED <<cell, asked, failure, work, acct, todo, ques>> /\ NoFault

\* Store.finish with a context of its own: UPDATE ... WHERE status='running'.
SaveAnswer(w) ==
  LET c == <<batch, acct[w], ques[w]>>
  IN /\ WorkerStep(w, "saving")
     /\ UNCHANGED <<asked, work, acct, todo, ques, out>>
     /\ \/ /\ cell[c] = "running" /\ NoFault
           /\ cell' = [cell EXCEPT ![c] = out[w]]
           /\ Goto(w, "cell")
           /\ UNCHANGED failure
        \/ /\ IF cell[c] = "running" THEN Fault ELSE NoFault
           /\ failure' = TRUE
           /\ Goto(w, "done")
           /\ UNCHANGED cell

-----------------------------------------------------------------------------
(* The process.                                                            *)

Restartable == restarts < MaxRestarts /\ restarts' = restarts + 1 /\ UNCHANGED faults

\* SIGTERM: the service context is cancelled; open HTTP requests go on.
Stop ==
  /\ proc = "up" /\ ~stopping /\ Restartable
  /\ stopping' = TRUE
  /\ UNCHANGED <<tables, asked, proc, loop, signalled, failure, pool, handler>>

\* main returns once the loop has returned.
Exit ==
  /\ proc = "up" /\ engine = "stopped" /\ stopping
  /\ proc' = "down"
  /\ MemoryLost
  /\ UNCHANGED <<tables, asked, budget>>

\* The process dies anywhere, the repair of the store included.
Crash ==
  /\ proc # "down" /\ Restartable
  /\ proc' = "down"
  /\ MemoryLost
  /\ UNCHANGED <<tables, asked>>

\* openStore, statement by statement.
RepairCells ==
  /\ proc = "down"
  /\ proc' = "opened"
  /\ cell' = RepairedCells
  /\ UNCHANGED <<run, parent, nextRun, asked, loop, context, pool, handler, budget>>

RepairRuns ==
  /\ proc = "opened"
  /\ proc' = "up"
  /\ run' = RepairedRuns
  /\ UNCHANGED <<cell, parent, nextRun, asked, loop, context, pool, handler, budget>>

-----------------------------------------------------------------------------
Handlers ==
  \/ \E as \in SUBSET Accounts, n \in Questions : CreateRun(as, n)
  \/ \E r \in Runs : CancelLoad(r)
  \/ CancelCommit \/ CancelAbort \/ CancelSignal
  \/ \E r \in Runs : RetryRead(r)
  \/ RetryCreate
  \/ \E ids \in SUBSET Runs : DeleteRuns(ids)

Engine == LoopPick \/ LoopWait \/ LoopClaim \/ BatchStart \/ Finalize \/ LoopClear

Worker(w) ==
  \/ TakeList(w) \/ StartCell(w) \/ LeaveList(w) \/ SaveAnswer(w)
  \/ \E v \in {"completed", "failed"} : Answer(w, v)

Process == Stop \/ Exit \/ Crash \/ RepairCells \/ RepairRuns

Next == Handlers \/ Engine \/ (\E w \in Workers : Worker(w)) \/ Process

Spec == Init /\ [][Next]_vars

(***************************************************************************)
(* Goroutines are scheduled, every question has a timeout                  *)
(* (Settings.Timeout), a handler that holds Engine.mu goes on (or its      *)
(* request times out) and the container restarts (compose.runtime.yml,     *)
(* restart: unless-stopped).  The loop's waits for Engine.mu are strongly  *)
(* fair: sync.Mutex hands the lock to a goroutine that has waited 1 ms.    *)
(* Nobody is obliged to call the API.                                      *)
(***************************************************************************)
Fairness ==
  /\ WF_vars(Engine)
  /\ SF_vars(LoopClaim) /\ SF_vars(Finalize) /\ SF_vars(LoopClear)
  /\ \A w \in Workers : WF_vars(Worker(w))
  /\ WF_vars(CancelCommit \/ CancelAbort) /\ WF_vars(CancelSignal)
  /\ WF_vars(Exit) /\ WF_vars(RepairCells) /\ WF_vars(RepairRuns)

FairSpec == Spec /\ Fairness

-----------------------------------------------------------------------------
(* Safety.                                                                 *)

\* A run that has ended has no cell waiting: whatever mix of cancel, stop,
\* crash and finalisation ended it, cells and run were settled together.
NothingLeftQueued ==
  \A c \in Cells : cell[c] = "queued" => run[c[1]] \in {"queued", "running"}

\* Once the service is up again and its loop is free, no cell is under way: the
\* restart has marked the unfinished cells of the batch that was executing
\* (account-eval/README.md:16).  False after a failed save (EvalOrphan.cfg).
RestartLeavesNothingUnderWay ==
  proc = "up" /\ engine \in {"idle", "picked"} =>
    \A c \in Cells : cell[c] # "running"

\* The final status of a run agrees with its cells: a completed run answered
\* everything, one with errors has a verdict for every cell and a failed one.
StatusOfRuns ==
  \A r \in Runs :
    /\ run[r] = "completed" =>
         \A c \in CellsOf(r) : cell[c] \in {"absent", "completed"}
    /\ run[r] = "completed_with_errors" =>
         /\ \A c \in CellsOf(r) : cell[c] \in {"absent", "completed", "failed"}
         /\ \E c \in CellsOf(r) : cell[c] = "failed"

\* As long as no save has failed, a cell under way belongs to a batch that is
\* still executing, so the restart repair, which looks only at such batches,
\* reaches it.
EndedRunsSettled ==
  faults = 0 =>
    \A c \in Cells : cell[c] = "running" => run[c[1]] \in {"running", "cancelling"}

\* A run never says more than its cells: neither in its final status, nor, unless
\* a save failed, by ending before they do (runner.go:212-236).
StatusMatchesCells == StatusOfRuns /\ EndedRunsSettled

\* Batches execute one at a time, also after a failed save and a restart.
OneBatchAtATime ==
  \A r, s \in Runs :
    run[r] \in {"running", "cancelling"} /\ run[s] \in {"running", "cancelling"} => r = s

\* While the loop is free for the next batch none is left running or in
\* cancelling, which no one would ever finish (runner.go:212).
NoRunLeftBehind ==
  proc = "up" /\ engine \in {"idle", "picked"} =>
    \A r \in Runs : run[r] \notin {"running", "cancelling"}

\* No cell is put to its account twice, across cancels, failures and restarts.
AskedAtMostOnce == \A c \in Cells : asked[c] <= 1

\* A retry holds no cell its original run has completed, although the original
\* is read and the retry written in separate steps.
RetryOnlyUnfinished ==
  \A c \in Cells :
    cell[c] # "absent" /\ parent[c[1]] # None =>
      cell[<<parent[c[1]], c[2], c[3]>>] # "completed"

-----------------------------------------------------------------------------
(* Action properties.                                                      *)

\* A completed answer stays until an administrator deletes its run, a run that
\* ended stays as it ended, and a cell that was cancelled, or interrupted by a
\* restart, is not asked any more.
HistoryKept ==
  [][/\ \A c \in Cells : asked'[c] # asked[c] =>
          cell[c] = "queued" /\ run[c[1]] = "running"
     /\ \A c \in Cells : cell[c] = "completed" =>
          cell'[c] = "completed" \/ run'[c[1]] = "absent"
     /\ \A r \in Runs : run[r] \in Ended => run'[r] \in {run[r], "absent"}]_vars

-----------------------------------------------------------------------------
(* Liveness.                                                               *)

\* Every submitted batch ends: no lock, full channel or lost wake-up stalls
\* the queue, a restart takes up what was still waiting, and no batch stays in
\* cancelling.
EveryBatchEnds ==
  \A r \in Runs : run[r] = "queued" ~> run[r] \in Ended \cup {"absent"}

=============================================================================
