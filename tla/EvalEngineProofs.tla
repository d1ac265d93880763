-------------------------- MODULE EvalEngineProofs --------------------------
(***************************************************************************)
(* Theorems of EvalEngine for every number of runs, accounts, questions    *)
(* and workers and for every number of failures and restarts: its types,   *)
(* one batch at a time and none left behind, no ended run with waiting     *)
(* cells, no cell asked twice, no retry of a completed cell, no run that   *)
(* says more than its cells, and a history that is kept.                   *)
(*                                                                         *)
(* None of the safety properties is inductive by itself.  LoopInv ties     *)
(* Engine.current and the position of the loop to the one run that may be  *)
(* executing; QueueInv says where a queued cell of the batch still waits   *)
(* (the channel or a worker's list), so that a batch whose workers are     *)
(* done has none left; HoldInv says which worker a running cell belongs    *)
(* to, so that its guarded UPDATE finds the row and none is running when   *)
(* all are done; CleanInv and FaultInv say which cancellation, stop or     *)
(* failed operation any other state of a cell or run comes from.           *)
(***************************************************************************)
EXTENDS EvalEngine, TLAPS

(***************************************************************************)
(* Type correctness, part by part: an action that does not name a part     *)
(* leaves its variables unchanged.                                         *)
(***************************************************************************)
LEMMA InitTyped == Init => TypeOK
<1> SUFFICES ASSUME Init PROVE TypeOK
  OBVIOUS
<1>1. TablesTyped
  <2>1. run \in [Runs -> RunStatus] /\ cell \in [Cells -> CellStatus]
    BY DEF Init, RunStatus, CellStatus
  <2>2. nextRun \in 1..(MaxRuns + 1) /\ parent \in [Runs -> Runs \cup {None}]
    BY EvalAssumption DEF Init
  <2>. QED BY <2>1, <2>2 DEF TablesTyped
<1>2. LoopTyped
  BY DEF Init, FreshMemory, LoopTyped, EnginePc
<1>3. ContextTyped
  BY DEF Init, FreshMemory, ContextTyped
<1>4. PoolTyped
  BY EvalAssumption
  DEF Init, FreshMemory, PoolTyped, NoWork, NoWorkers, NoAccount, NoTodo, NoQues, NoOut,
      WorkerPc, Questions, CellStatus
<1>5. HandlerTyped
  BY DEF Init, FreshMemory, HandlerTyped
<1>6. BudgetTyped
  BY EvalAssumption DEF Init, BudgetTyped
<1>7. asked \in [Cells -> Nat]
  BY DEF Init
<1>. QED
  BY <1>1, <1>2, <1>3, <1>4, <1>5, <1>6, <1>7 DEF TypeOK

LEMMA MemoryLostTyped ==
  ASSUME MemoryLost
  PROVE  /\ engine' \in EnginePc /\ batch' \in Runs \cup {None}
         /\ current' \in Runs \cup {None}
         /\ ContextTyped' /\ PoolTyped' /\ HandlerTyped'
<1>1. engine' \in EnginePc /\ batch' \in Runs \cup {None} /\ current' \in Runs \cup {None}
  BY DEF MemoryLost, EnginePc
<1>2. ContextTyped'
  BY DEF MemoryLost, ContextTyped
<1>3. PoolTyped'
  BY EvalAssumption
  DEF MemoryLost, PoolTyped, NoWork, NoWorkers, NoAccount, NoTodo, NoQues, NoOut,
      WorkerPc, Questions, CellStatus
<1>4. HandlerTyped'
  BY DEF MemoryLost, HandlerTyped
<1>. QED BY <1>1, <1>2, <1>3, <1>4

LEMMA BudgetStaysTyped ==
  ASSUME BudgetTyped
  PROVE  /\ Fault => BudgetTyped'
         /\ NoFault => BudgetTyped'
         /\ Restartable => BudgetTyped'
BY EvalAssumption DEF BudgetTyped, Fault, NoFault, Restartable, budget

LEMMA InsertRunTyped ==
  ASSUME TablesTyped, NEW items, NEW of \in Runs \cup {None}, InsertRun(items, of)
  PROVE  TablesTyped'
<1>1. run' \in [Runs -> RunStatus] /\ parent' \in [Runs -> Runs \cup {None}]
  BY DEF TablesTyped, InsertRun, RunStatus, Active
<1>2. cell' \in [Cells -> CellStatus]
  BY DEF TablesTyped, InsertRun, CellStatus
<1>3. nextRun' \in 1..(MaxRuns + 1)
  BY EvalAssumption DEF TablesTyped, InsertRun, Runs
<1>. QED BY <1>1, <1>2, <1>3 DEF TablesTyped

LEMMA UnchangedTyped ==
  /\ TablesTyped /\ UNCHANGED tables => TablesTyped'
  /\ LoopTyped /\ UNCHANGED <<proc, loop>> => LoopTyped'
  /\ ContextTyped /\ UNCHANGED context => ContextTyped'
  /\ PoolTyped /\ UNCHANGED pool => PoolTyped'
  /\ HandlerTyped /\ UNCHANGED handler => HandlerTyped'
  /\ BudgetTyped /\ UNCHANGED budget => BudgetTyped'
BY DEF TablesTyped, LoopTyped, ContextTyped, PoolTyped, HandlerTyped, BudgetTyped,
       tables, loop, context, pool, handler, budget

LEMMA HandlersTyped == TypeOK /\ Handlers => TypeOK'
<1> SUFFICES ASSUME TypeOK, Handlers PROVE TypeOK'
  OBVIOUS
<1>0. /\ TablesTyped /\ LoopTyped /\ ContextTyped /\ PoolTyped /\ HandlerTyped
      /\ BudgetTyped /\ asked \in [Cells -> Nat]
  BY DEF TypeOK
<1>1. ASSUME NEW as \in SUBSET Accounts, NEW n \in Questions, CreateRun(as, n)
      PROVE  TypeOK'
  <2>1. TablesTyped'
    BY <1>0, <1>1, InsertRunTyped DEF CreateRun
  <2>. QED BY <1>0, <1>1, <2>1, UnchangedTyped DEF CreateRun, TypeOK
<1>2. ASSUME NEW r \in Runs, CancelLoad(r) PROVE TypeOK'
  <2>1. HandlerTyped'
    BY <1>0, <1>2 DEF CancelLoad, HandlerTyped
  <2>. QED BY <1>0, <1>2, <2>1, UnchangedTyped DEF CancelLoad, TypeOK
<1>3. ASSUME CancelCommit PROVE TypeOK'
  <2>1. cell' \in [Cells -> CellStatus]
    BY <1>0, <1>3 DEF CancelCommit, MoveCells, TablesTyped, CellStatus
  <2>2. run' \in [Runs -> RunStatus]
    BY <1>0, <1>3 DEF CancelCommit, TablesTyped, RunStatus, Active, Ended
  <2>3. TablesTyped'
    BY <1>0, <1>3, <2>1, <2>2 DEF CancelCommit, TablesTyped
  <2>4. HandlerTyped'
    BY <1>0, <1>3 DEF CancelCommit, HandlerTyped
  <2>. QED BY <1>0, <1>3, <2>3, <2>4, UnchangedTyped DEF CancelCommit, TypeOK
<1>4. ASSUME CancelAbort PROVE TypeOK'
  <2>1. HandlerTyped'
    BY <1>0, <1>4 DEF CancelAbort, HandlerTyped
  <2>. QED BY <1>0, <1>4, <2>1, UnchangedTyped DEF CancelAbort, TypeOK
<1>5. ASSUME CancelSignal PROVE TypeOK'
  <2>1. HandlerTyped'
    BY <1>0, <1>5 DEF CancelSignal, HandlerTyped
  <2>2. ContextTyped'
    BY <1>0, <1>5 DEF CancelSignal, ContextTyped
  <2>. QED BY <1>0, <1>5, <2>1, <2>2, UnchangedTyped DEF CancelSignal, TypeOK
<1>6. ASSUME NEW r \in Runs, RetryRead(r) PROVE TypeOK'
  <2>1. HandlerTyped'
    BY <1>0, <1>6 DEF RetryRead, HandlerTyped
  <2>. QED BY <1>0, <1>6, <2>1, UnchangedTyped DEF RetryRead, TypeOK
<1>7. ASSUME RetryCreate PROVE TypeOK'
  <2>1. retry.of \in Runs /\ InsertRun(retry.cells, retry.of)
    BY <1>0, <1>7 DEF RetryCreate, HandlerTyped
  <2>2. TablesTyped'
    BY <1>0, <2>1, InsertRunTyped
  <2>3. HandlerTyped'
    BY <1>0, <1>7 DEF RetryCreate, HandlerTyped
  <2>. QED BY <1>0, <1>7, <2>2, <2>3, UnchangedTyped DEF RetryCreate, TypeOK
<1>8. ASSUME NEW ids \in SUBSET Runs, DeleteRuns(ids) PROVE TypeOK'
  <2>1. cell' \in [Cells -> CellStatus]
    BY <1>0, <1>8 DEF DeleteRuns, TablesTyped, CellStatus
  <2>2. run' \in [Runs -> RunStatus]
    BY <1>0, <1>8 DEF DeleteRuns, TablesTyped, RunStatus
  <2>3. TablesTyped'
    BY <1>0, <1>8, <2>1, <2>2 DEF DeleteRuns, TablesTyped
  <2>. QED BY <1>0, <1>8, <2>3, UnchangedTyped DEF DeleteRuns, TypeOK
<1>. QED
  BY <1>1, <1>2, <1>3, <1>4, <1>5, <1>6, <1>7, <1>8 DEF Handlers

LEMMA EngineTyped == TypeOK /\ Engine => TypeOK'
<1> SUFFICES ASSUME TypeOK, Engine PROVE TypeOK'
  OBVIOUS
<1>0. /\ TablesTyped /\ LoopTyped /\ ContextTyped /\ PoolTyped /\ HandlerTyped
      /\ BudgetTyped /\ asked \in [Cells -> Nat]
  BY DEF TypeOK
<1>1. ASSUME LoopPick PROVE TypeOK'
  <2>1. LoopTyped'
    BY <1>0, <1>1 DEF LoopPick, LoopStep, LoopFails, LoopTyped, EnginePc
  <2>2. ContextTyped'
    BY <1>0, <1>1, UnchangedTyped DEF LoopPick, LoopStep, LoopFails, ContextTyped
  <2>3. BudgetTyped'
    BY <1>0, <1>1, BudgetStaysTyped DEF LoopPick
  <2>. QED BY <1>0, <1>1, <2>1, <2>2, <2>3, UnchangedTyped DEF LoopPick, LoopStep, TypeOK
<1>2. ASSUME LoopWait PROVE TypeOK'
  BY <1>0, <1>2, UnchangedTyped DEF LoopWait, vars, TypeOK, loop
<1>3. ASSUME LoopClaim PROVE TypeOK'
  <2>1. LoopTyped'
    BY <1>0, <1>3 DEF LoopClaim, LoopStep, LoopFails, LoopTyped, EnginePc
  <2>2. ContextTyped'
    BY <1>0, <1>3, UnchangedTyped DEF LoopClaim, LoopStep, LoopFails, ContextTyped
  <2>3. BudgetTyped'
    BY <1>0, <1>3, BudgetStaysTyped DEF LoopClaim
  <2>4. TablesTyped'
    BY <1>0, <1>3 DEF LoopClaim, TablesTyped, RunStatus, Active
  <2>. QED BY <1>0, <1>3, <2>1, <2>2, <2>3, <2>4, UnchangedTyped
       DEF LoopClaim, LoopStep, TypeOK
<1>4. ASSUME BatchStart PROVE TypeOK'
  <2>1. LoopTyped'
    BY <1>0, <1>4 DEF BatchStart, LoopStep, LoopTyped, EnginePc
  <2>2. ContextTyped'
    BY <1>0, <1>4, UnchangedTyped DEF BatchStart, ContextTyped
  <2>3. BudgetTyped'
    BY <1>0, <1>4, BudgetStaysTyped DEF BatchStart
  <2>4. PoolTyped'
    BY <1>0, <1>4 DEF BatchStart, PoolTyped, WorkerPc, pool
  <2>. QED BY <1>0, <1>4, <2>1, <2>2, <2>3, <2>4, UnchangedTyped
       DEF BatchStart, LoopStep, TypeOK
<1>5. ASSUME Finalize PROVE TypeOK'
  <2>1. LoopTyped'
    BY <1>0, <1>5 DEF Finalize, LoopStep, LoopTyped, EnginePc
  <2>2. ContextTyped'
    BY <1>0, <1>5 DEF Finalize, ContextTyped
  <2>3. BudgetTyped'
    BY <1>0, <1>5, BudgetStaysTyped DEF Finalize
  <2>4. run' \in [Runs -> RunStatus]
    BY <1>0, <1>5 DEF Finalize, TablesTyped, RunStatus, Ended
  <2>5. cell' \in [Cells -> CellStatus]
    BY <1>0, <1>5 DEF Finalize, TablesTyped, MoveCells, CellStatus
  <2>6. TablesTyped'
    BY <1>0, <1>5, <2>4, <2>5 DEF Finalize, TablesTyped
  <2>. QED BY <1>0, <1>5, <2>1, <2>2, <2>3, <2>6, UnchangedTyped
       DEF Finalize, LoopStep, TypeOK
<1>6. ASSUME LoopClear PROVE TypeOK'
  <2>1. LoopTyped'
    BY <1>0, <1>6 DEF LoopClear, LoopStep, LoopTyped, EnginePc
  <2>2. ContextTyped'
    BY <1>0, <1>6 DEF LoopClear, ContextTyped
  <2>. QED BY <1>0, <1>6, <2>1, <2>2, UnchangedTyped, BudgetStaysTyped
       DEF LoopClear, LoopStep, TypeOK
<1>. QED
  BY <1>1, <1>2, <1>3, <1>4, <1>5, <1>6 DEF Engine

LEMMA WorkerTyped == ASSUME NEW w \in Workers PROVE TypeOK /\ Worker(w) => TypeOK'
<1> SUFFICES ASSUME TypeOK, Worker(w) PROVE TypeOK'
  OBVIOUS
<1>0. /\ TablesTyped /\ LoopTyped /\ ContextTyped /\ PoolTyped /\ HandlerTyped
      /\ BudgetTyped /\ asked \in [Cells -> Nat]
  BY DEF TypeOK
<1>1. ASSUME TakeList(w) PROVE TypeOK'
  <2>1. PoolTyped'
    BY <1>0, <1>1 DEF TakeList, Goto, PoolTyped, WorkerPc
  <2>2. TablesTyped' /\ LoopTyped' /\ ContextTyped' /\ HandlerTyped'
    BY <1>0, <1>1, UnchangedTyped DEF TakeList, WorkerStep, tables, context
  <2>. QED BY <1>0, <1>1, <2>1, <2>2, BudgetStaysTyped DEF TakeList, TypeOK
<1>2. ASSUME StartCell(w) PROVE TypeOK'
  <2>1. PICK q \in todo[w] :
          LET c == <<batch, acct[w], q>>
          IN \/ /\ Claimable(c) /\ NoFault
                /\ cell' = [cell EXCEPT ![c] = "running"]
                /\ asked' = [asked EXCEPT ![c] = @ + 1]
                /\ ques' = [ques EXCEPT ![w] = q]
                /\ todo' = [todo EXCEPT ![w] = @ \ {q}]
                /\ Goto(w, "asking")
                /\ UNCHANGED failure
             \/ /\ ~Claimable(c) /\ NoFault
                /\ todo' = [todo EXCEPT ![w] = @ \ {q}]
                /\ UNCHANGED <<cell, asked, ques, pc, failure>>
             \/ /\ Fault
                /\ failure' = TRUE
                /\ Goto(w, "done")
                /\ UNCHANGED <<cell, asked, ques, todo>>
    BY <1>2 DEF StartCell
  <2>2. q \in Questions
    BY <1>0, <2>1 DEF PoolTyped
  <2>3. PoolTyped'
    BY <1>0, <1>2, <2>1, <2>2 DEF StartCell, Goto, PoolTyped, WorkerPc
  <2>4. TablesTyped'
    BY <1>0, <1>2, <2>1 DEF StartCell, WorkerStep, TablesTyped, CellStatus
  <2>5. ContextTyped'
    BY <1>0, <1>2, <2>1 DEF StartCell, WorkerStep, ContextTyped
  <2>6. BudgetTyped'
    BY <1>0, <2>1, BudgetStaysTyped
  <2>7. asked' \in [Cells -> Nat]
    BY <1>0, <2>1
  <2>8. LoopTyped' /\ HandlerTyped'
    BY <1>0, <1>2, UnchangedTyped DEF StartCell, WorkerStep
  <2>. QED BY <2>3, <2>4, <2>5, <2>6, <2>7, <2>8 DEF TypeOK
<1>3. ASSUME LeaveList(w) PROVE TypeOK'
  <2>1. PoolTyped'
    BY <1>0, <1>3 DEF LeaveList, Goto, PoolTyped, WorkerPc
  <2>2. TablesTyped' /\ LoopTyped' /\ ContextTyped' /\ HandlerTyped'
    BY <1>0, <1>3, UnchangedTyped DEF LeaveList, WorkerStep, tables, context
  <2>. QED BY <1>0, <1>3, <2>1, <2>2, BudgetStaysTyped DEF LeaveList, TypeOK
<1>4. ASSUME NEW v \in {"completed", "failed"}, Answer(w, v) PROVE TypeOK'
  <2>1. PoolTyped'
    BY <1>0, <1>4 DEF Answer, Goto, PoolTyped, WorkerPc, CellStatus
  <2>2. TablesTyped' /\ LoopTyped' /\ ContextTyped' /\ HandlerTyped'
    BY <1>0, <1>4, UnchangedTyped DEF Answer, WorkerStep, tables, context
  <2>. QED BY <1>0, <1>4, <2>1, <2>2, BudgetStaysTyped DEF Answer, TypeOK
<1>5. ASSUME SaveAnswer(w) PROVE TypeOK'
  <2>1. PoolTyped'
    BY <1>0, <1>5 DEF SaveAnswer, Goto, PoolTyped, WorkerPc
  <2>2. out[w] \in CellStatus
    BY <1>0 DEF PoolTyped
  <2>3. TablesTyped'
    BY <1>0, <1>5, <2>2 DEF SaveAnswer, WorkerStep, TablesTyped
  <2>4. ContextTyped'
    BY <1>0, <1>5 DEF SaveAnswer, WorkerStep, ContextTyped
  <2>5. BudgetTyped'
    BY <1>0, <1>5, BudgetStaysTyped DEF SaveAnswer
  <2>6. LoopTyped' /\ HandlerTyped'
    BY <1>0, <1>5, UnchangedTyped DEF SaveAnswer, WorkerStep
  <2>. QED BY <1>0, <1>5, <2>1, <2>3, <2>4, <2>5, <2>6 DEF SaveAnswer, TypeOK
<1>. QED
  BY <1>1, <1>2, <1>3, <1>4, <1>5 DEF Worker

LEMMA ProcessTyped == TypeOK /\ Process => TypeOK'
<1> SUFFICES ASSUME TypeOK, Process PROVE TypeOK'
  OBVIOUS
<1>0. /\ TablesTyped /\ LoopTyped /\ ContextTyped /\ PoolTyped /\ HandlerTyped
      /\ BudgetTyped /\ asked \in [Cells -> Nat]
  BY DEF TypeOK
<1>1. ASSUME Stop PROVE TypeOK'
  <2>1. ContextTyped'
    BY <1>0, <1>1 DEF Stop, ContextTyped
  <2>. QED BY <1>0, <1>1, <2>1, UnchangedTyped, BudgetStaysTyped DEF Stop, TypeOK
<1>2. ASSUME Exit PROVE TypeOK'
  <2>1. LoopTyped'
    BY <1>2, MemoryLostTyped DEF Exit, LoopTyped
  <2>. QED BY <1>0, <1>2, <2>1, MemoryLostTyped, UnchangedTyped DEF Exit, TypeOK
<1>3. ASSUME Crash PROVE TypeOK'
  <2>1. LoopTyped'
    BY <1>3, MemoryLostTyped DEF Crash, LoopTyped
  <2>. QED BY <1>0, <1>3, <2>1, MemoryLostTyped, UnchangedTyped, BudgetStaysTyped
       DEF Crash, TypeOK
<1>4. ASSUME RepairCells PROVE TypeOK'
  <2>1. cell' \in [Cells -> CellStatus]
    BY <1>0, <1>4 DEF RepairCells, RepairedCells, RepairedStatus, TablesTyped, CellStatus
  <2>2. TablesTyped' /\ LoopTyped'
    BY <1>0, <1>4, <2>1 DEF RepairCells, TablesTyped, LoopTyped, loop
  <2>. QED BY <1>0, <1>4, <2>2, UnchangedTyped DEF RepairCells, TypeOK
<1>5. ASSUME RepairRuns PROVE TypeOK'
  <2>1. run' \in [Runs -> RunStatus]
    BY <1>0, <1>5 DEF RepairRuns, RepairedRuns, RepairedStatus, TablesTyped, RunStatus, Ended
  <2>2. TablesTyped' /\ LoopTyped'
    BY <1>0, <1>5, <2>1 DEF RepairRuns, TablesTyped, LoopTyped, loop
  <2>. QED BY <1>0, <1>5, <2>2, UnchangedTyped DEF RepairRuns, TypeOK
<1>. QED
  BY <1>1, <1>2, <1>3, <1>4, <1>5 DEF Process

LEMMA StutterTyped == TypeOK /\ UNCHANGED vars => TypeOK'
BY UnchangedTyped DEF TypeOK, vars, loop

LEMMA NextTyped == TypeOK /\ [Next]_vars => TypeOK'
BY HandlersTyped, EngineTyped, WorkerTyped, ProcessTyped, StutterTyped DEF Next

\* Every reachable state of the engine is well typed (runner.go, store.go).
THEOREM TypeCorrect == Spec => []TypeOK
BY InitTyped, NextTyped, PTL DEF Spec

-----------------------------------------------------------------------------
Executing(r) == run[r] \in {"running", "cancelling"}
InBatch == engine \in {"claimed", "working", "clearing"}

FreshRows == \A r \in Runs : r >= nextRun => run[r] = "absent"

LoopInv ==
  /\ FreshRows
  /\ OneBatchAtATime
  /\ proc # "up" => engine = "idle" /\ cancelPc = "free" /\ retry = None
  /\ proc = "up" /\ engine \in {"idle", "picked"} => \A r \in Runs : ~Executing(r)
  /\ engine = "picked" => batch \in Runs
  /\ InBatch =>
       /\ batch \in Runs /\ current = batch
       /\ batch < nextRun /\ run[batch] # "queued"
       /\ \A r \in Runs : Executing(r) => r = batch
  /\ ~InBatch => current = None
  /\ engine = "clearing" /\ ~failure => \A r \in Runs : ~Executing(r)
  /\ engine \in {"claimed", "working"} => Executing(batch)
  /\ cancelPc = "loaded" => cancelId \in Runs /\ run[cancelId] \in Active

\* Somewhere question q of account a still waits for a worker.
Waits(a, q) ==
  \/ q \in work[a]
  \/ \E w \in Workers :
       pc[w] \in {"cell", "asking", "saving"} /\ acct[w] = a /\ q \in todo[w]

QueueInv ==
  /\ NothingLeftQueued
  /\ proc = "opened" => \A c \in Cells : cell[c] = "queued" => run[c[1]] = "queued"
  /\ engine = "working" /\ ~WorkerCtxDone =>
       /\ \A a \in Accounts, q \in Questions :
            cell[<<batch, a, q>>] = "queued" => Waits(a, q)
       /\ (\E w \in Workers : pc[w] = "done") => \A a \in Accounts : work[a] = {}
  /\ \A w \in Workers : pc[w] = "saving" => out[w] # "queued"

AskInv ==
  \A c \in Cells :
    /\ asked[c] <= 1
    /\ c[1] >= nextRun => asked[c] = 0 /\ cell[c] = "absent"
    /\ cell[c] = "queued" => asked[c] = 0

SettledRun(r) == r < nextRun /\ run[r] \in Ended \cup {"absent"}

RetryInv ==
  /\ RetryOnlyUnfinished
  /\ \A r \in Runs : r < nextRun /\ parent[r] # None => SettledRun(parent[r])
  /\ retry # None =>
       /\ SettledRun(retry.of)
       /\ \A i \in retry.cells : cell[<<retry.of, i[1], i[2]>>] # "completed"

-----------------------------------------------------------------------------
(* One batch at a time.                                                    *)

LEMMA LoopInit == Init => LoopInv
BY EvalAssumption
DEF Init, FreshMemory, LoopInv, FreshRows, OneBatchAtATime, Executing, InBatch

\* Only these variables matter to LoopInv.
LEMMA LoopFrame ==
  ASSUME LoopInv, UNCHANGED <<run, nextRun, proc, engine, batch, current, cancelPc, cancelId>>,
         failure' = failure \/ engine # "clearing",
         retry = None => retry' = None \/ proc = "up"
  PROVE  LoopInv'
BY DEF LoopInv, FreshRows, OneBatchAtATime, Executing, InBatch

LEMMA InsertKeepsLoopInv ==
  ASSUME TypeOK, LoopInv, proc = "up", NEW items, NEW of, InsertRun(items, of),
         UNCHANGED <<proc, engine, batch, current, failure, cancelPc, cancelId>>
  PROVE  LoopInv'
<1>1. /\ nextRun \in Runs /\ nextRun' = nextRun + 1 /\ run[nextRun] = "absent"
      /\ \A r \in Runs : run'[r] = IF r = nextRun THEN "queued" ELSE run[r]
  BY DEF InsertRun, LoopInv, FreshRows, TypeOK, TablesTyped, Runs
<1>2. \A r \in Runs : Executing(r)' <=> Executing(r)
  BY <1>1 DEF Executing
<1>3. FreshRows'
  BY <1>1, EvalAssumption DEF LoopInv, FreshRows, Runs
<1>4. OneBatchAtATime'
  BY <1>1 DEF LoopInv, OneBatchAtATime
<1>5. InBatch' =>
       /\ batch' \in Runs /\ current' = batch'
       /\ batch' < nextRun' /\ run'[batch'] # "queued"
       /\ \A r \in Runs : Executing(r)' => r = batch'
  BY <1>1, <1>2 DEF LoopInv, InBatch, Runs
<1>6. cancelPc' = "loaded" => cancelId' \in Runs /\ run'[cancelId'] \in Active
  BY <1>1 DEF LoopInv, Active
<1>. QED
  BY <1>2, <1>3, <1>4, <1>5, <1>6 DEF LoopInv, InBatch

LEMMA LoopHandlers == TypeOK /\ LoopInv /\ Handlers => LoopInv'
<1> SUFFICES ASSUME TypeOK, LoopInv, Handlers PROVE LoopInv'
  OBVIOUS
<1>1. ASSUME NEW as \in SUBSET Accounts, NEW n \in Questions, CreateRun(as, n)
      PROVE  LoopInv'
  BY <1>1, InsertKeepsLoopInv DEF CreateRun, loop, context, handler
<1>2. ASSUME NEW r \in Runs, CancelLoad(r) PROVE LoopInv'
  BY <1>2 DEF CancelLoad, Cancellable, tables, loop, context, LoopInv, FreshRows, OneBatchAtATime,
              Executing, InBatch
<1>3. ASSUME CancelCommit PROVE LoopInv'
  <2>1. cancelId \in Runs /\ run[cancelId] \in Active
    BY <1>3 DEF CancelCommit, LoopInv
  <2>2. cancelId < nextRun
    BY <2>1, EvalAssumption DEF LoopInv, FreshRows, Active, TypeOK, TablesTyped, Runs
  <2>3. \A r \in Runs : run'[r] = IF r # cancelId THEN run[r]
                                  ELSE IF cancelId = current THEN "cancelling" ELSE "cancelled"
    BY <1>3, <2>1 DEF CancelCommit, TypeOK, TablesTyped
  <2>4. cancelId = current => InBatch /\ cancelId = batch
    BY <2>1, EvalAssumption DEF LoopInv, Runs
  <2>5. cancelId = current => Executing(cancelId)
    BY <2>1, <2>4 DEF LoopInv, Active, Executing
  <2>6. \A r \in Runs : Executing(r)' => Executing(r)
    BY <2>3, <2>5 DEF Executing
  <2>7. FreshRows'
    BY <1>3, <2>2, <2>3 DEF CancelCommit, LoopInv, FreshRows, Runs, TypeOK, TablesTyped
  <2>8. OneBatchAtATime'
    BY <2>6 DEF LoopInv, OneBatchAtATime, Executing
  <2>9. engine \in {"claimed", "working"} => Executing(batch)'
    <3> SUFFICES ASSUME engine \in {"claimed", "working"} PROVE Executing(batch)'
      OBVIOUS
    <3>1. batch \in Runs /\ current = batch /\ Executing(batch)
      BY DEF LoopInv, InBatch
    <3>2. batch' = batch
      BY <1>3 DEF CancelCommit, loop
    <3>. QED BY <3>1, <3>2, <2>3 DEF Executing
  <2>10. InBatch => run'[batch] # "queued"
    BY <2>3 DEF LoopInv
  <2>. QED
    BY <1>3, <2>6, <2>7, <2>8, <2>9, <2>10 DEF CancelCommit, LoopInv, InBatch, loop, context
<1>4. ASSUME CancelAbort PROVE LoopInv'
  BY <1>4
  DEF CancelAbort, tables, loop, context, LoopInv, FreshRows, OneBatchAtATime, Executing, InBatch
<1>5. ASSUME CancelSignal PROVE LoopInv'
  BY <1>5 DEF CancelSignal, tables, loop, LoopInv, FreshRows, OneBatchAtATime, Executing, InBatch
<1>6. ASSUME NEW r \in Runs, RetryRead(r) PROVE LoopInv'
  BY <1>6, LoopFrame DEF RetryRead, tables, loop, context
<1>7. ASSUME RetryCreate PROVE LoopInv'
  BY <1>7, InsertKeepsLoopInv DEF RetryCreate, loop, context
<1>8. ASSUME NEW ids \in SUBSET Runs, DeleteRuns(ids) PROVE LoopInv'
  <2>1. \A r \in Runs : run'[r] = IF r \in ids THEN "absent" ELSE run[r]
    BY <1>8 DEF DeleteRuns
  <2>2. \A r \in Runs : Executing(r)' <=> Executing(r)
    BY <1>8, <2>1 DEF DeleteRuns, Executing, Active
  <2>3. FreshRows' /\ OneBatchAtATime'
    BY <1>8, <2>1, <2>2 DEF DeleteRuns, LoopInv, FreshRows, OneBatchAtATime, Executing
  <2>4. cancelPc = "loaded" => run'[cancelId] \in Active
    BY <1>8, <2>1 DEF DeleteRuns, LoopInv
  <2>5. InBatch => run'[batch] # "queued"
    BY <2>1 DEF LoopInv
  <2>6. engine \in {"claimed", "working"} => Executing(batch)'
    BY <1>8, <2>2 DEF DeleteRuns, LoopInv, InBatch, loop, Executing
  <2>. QED
    BY <1>8, <2>2, <2>3, <2>4, <2>5, <2>6 DEF DeleteRuns, LoopInv, InBatch, loop, context, handler
<1>. QED
  BY <1>1, <1>2, <1>3, <1>4, <1>5, <1>6, <1>7, <1>8 DEF Handlers

LEMMA LoopEngine == TypeOK /\ LoopInv /\ Engine => LoopInv'
<1> SUFFICES ASSUME TypeOK, LoopInv, Engine PROVE LoopInv'
  OBVIOUS
<1>1. ASSUME LoopPick PROVE LoopInv'
  BY <1>1, EvalAssumption
  DEF LoopPick, LoopStep, LoopFails, Oldest, tables, handler, LoopInv, FreshRows,
      OneBatchAtATime, Executing, InBatch
<1>2. ASSUME LoopWait PROVE LoopInv'
  BY <1>2, LoopFrame DEF LoopWait, LoopStep, vars, tables, loop, context, handler
<1>3. ASSUME LoopClaim PROVE LoopInv'
  <2>1. batch \in Runs /\ \A r \in Runs : ~Executing(r)
    BY <1>3 DEF LoopClaim, LoopStep, LoopInv
  <2>2. CASE UNCHANGED <<run, current>> /\ engine' \in {"idle", "stopped"}
    BY <1>3, <2>1, <2>2
    DEF LoopClaim, LoopStep, LoopFails, handler, LoopInv, FreshRows, OneBatchAtATime,
        Executing, InBatch
  <2>3. CASE run[batch] = "queued" /\ run' = [run EXCEPT ![batch] = "running"]
             /\ current' = batch /\ engine' = "claimed" /\ UNCHANGED batch
    <3>1. batch < nextRun
      BY <2>1, <2>3, EvalAssumption DEF LoopInv, FreshRows, TypeOK, TablesTyped, Runs
    <3>2. \A r \in Runs : run'[r] = IF r = batch THEN "running" ELSE run[r]
      BY <2>1, <2>3 DEF TypeOK, TablesTyped
    <3>3. \A r \in Runs : Executing(r)' <=> r = batch
      BY <2>1, <3>2 DEF Executing
    <3>4. FreshRows' /\ OneBatchAtATime'
      BY <1>3, <3>1, <3>2, <3>3
      DEF LoopClaim, LoopInv, FreshRows, OneBatchAtATime, Executing, TypeOK, TablesTyped, Runs
    <3>5. MuFree /\ UNCHANGED <<proc, nextRun, cancelPc, cancelId>> /\ proc = "up"
      BY <1>3 DEF LoopClaim, LoopStep, handler
    <3>6. Executing(batch)'
      BY <2>1, <2>3, <3>2 DEF Executing
    <3>. QED BY <2>1, <2>3, <3>1, <3>2, <3>3, <3>4, <3>5, <3>6 DEF LoopInv, InBatch, MuFree
  <2>. QED BY <1>3, <2>2, <2>3 DEF LoopClaim, LoopFails
<1>4. ASSUME BatchStart PROVE LoopInv'
  BY <1>4 DEF BatchStart, LoopStep, tables, handler, LoopInv, FreshRows, OneBatchAtATime,
              Executing, InBatch
<1>5. ASSUME Finalize PROVE LoopInv'
  <2>1. /\ engine = "working" /\ InBatch /\ batch \in Runs /\ proc = "up"
        /\ UNCHANGED <<nextRun, proc, batch, current, cancelPc, cancelId, retry>>
        /\ engine' = "clearing"
    BY <1>5 DEF Finalize, LoopStep, LoopInv, InBatch, handler
  <2>2. CASE UNCHANGED run /\ failure'
    BY <2>1, <2>2 DEF LoopInv, FreshRows, OneBatchAtATime, Executing, InBatch
  <2>3. ASSUME NEW s \in Ended, run' = [run EXCEPT ![batch] = s], MuFree
        PROVE  LoopInv'
    <3>1. \A r \in Runs : run'[r] = IF r = batch THEN s ELSE run[r]
      BY <2>1, <2>3 DEF TypeOK, TablesTyped
    <3>2. \A r \in Runs : ~Executing(r)'
      BY <2>1, <3>1 DEF LoopInv, Executing, Ended
    <3>3. FreshRows' /\ OneBatchAtATime'
      BY <2>1, <3>1, <3>2
      DEF LoopInv, FreshRows, OneBatchAtATime, Executing, TypeOK, TablesTyped, Runs
    <3>4. run'[batch] # "queued"
      BY <2>1, <3>1 DEF Ended
    <3>. QED BY <2>1, <2>3, <3>2, <3>3, <3>4 DEF LoopInv, InBatch, MuFree
  <2>. QED
    BY <1>5, <2>2, <2>3 DEF Finalize, Ended
<1>6. ASSUME LoopClear PROVE LoopInv'
  <2>1. failure \/ \A r \in Runs : ~Executing(r)
    BY <1>6 DEF LoopClear, LoopStep, LoopInv
  <2>. QED
    BY <1>6, <2>1 DEF LoopClear, LoopStep, tables, handler, LoopInv, FreshRows, OneBatchAtATime,
                Executing, InBatch
<1>. QED
  BY <1>1, <1>2, <1>3, <1>4, <1>5, <1>6 DEF Engine

LEMMA LoopWorker == ASSUME NEW w \in Workers PROVE LoopInv /\ Worker(w) => LoopInv'
BY LoopFrame DEF Worker, TakeList, StartCell, LeaveList, Answer, SaveAnswer, WorkerStep,
                 loop, handler

LEMMA LoopProcess == TypeOK /\ LoopInv /\ Process => LoopInv'
<1> SUFFICES ASSUME TypeOK, LoopInv, Process PROVE LoopInv'
  OBVIOUS
<1>1. ASSUME Stop PROVE LoopInv'
  BY <1>1, LoopFrame DEF Stop, tables, loop, handler
<1>2. ASSUME MemoryLost, proc' = "down", UNCHANGED <<run, nextRun>> PROVE LoopInv'
  BY <1>2 DEF MemoryLost, LoopInv, FreshRows, OneBatchAtATime, Executing, InBatch
<1>3. ASSUME RepairCells PROVE LoopInv'
  BY <1>3 DEF RepairCells, loop, context, handler, LoopInv, FreshRows, OneBatchAtATime,
              Executing, InBatch
<1>4. ASSUME RepairRuns PROVE LoopInv'
  <2>1. \A r \in Runs : run'[r] = IF Executing(r) THEN "interrupted" ELSE run[r]
    BY <1>4 DEF RepairRuns, RepairedRuns, RepairedStatus, Executing
  <2>2. \A r \in Runs : ~Executing(r)'
    BY <2>1 DEF Executing
  <2>3. FreshRows' /\ OneBatchAtATime'
    BY <1>4, <2>1, <2>2 DEF RepairRuns, LoopInv, FreshRows, OneBatchAtATime, Executing
  <2>4. ~InBatch /\ cancelPc = "free"
    BY <1>4 DEF RepairRuns, LoopInv, InBatch
  <2>. QED
    BY <1>4, <2>2, <2>3, <2>4 DEF RepairRuns, loop, context, handler, LoopInv, InBatch
<1>. QED
  BY <1>1, <1>2, <1>3, <1>4 DEF Process, Exit, Crash, tables

LEMMA LoopStutter == LoopInv /\ UNCHANGED vars => LoopInv'
BY DEF vars, tables, loop, context, handler, LoopInv, FreshRows, OneBatchAtATime, Executing,
       InBatch

\* The loop executes one batch at a time, and what its goroutine holds fits the
\* tables, in every reachable state.
THEOREM LoopInvariant == Spec => []LoopInv
<1>1. TypeOK /\ LoopInv /\ [Next]_vars => LoopInv'
  BY LoopHandlers, LoopEngine, LoopWorker, LoopProcess, LoopStutter DEF Next
<1>. QED
  BY <1>1, LoopInit, TypeCorrect, PTL DEF Spec

\* Batches execute one at a time, across failures, crashes and restarts
\* (runner.go: the claim of Engine.loop; store.go: the repair of openStore).
THEOREM OneBatch == Spec => []OneBatchAtATime
BY LoopInvariant, PTL DEF LoopInv

\* When the loop is free no run is left running or cancelling: Engine.mu keeps
\* a cancel and the finalisation of the same run apart (runner.go:212).
THEOREM NoneLeftBehind == Spec => []NoRunLeftBehind
<1>1. LoopInv => NoRunLeftBehind
  BY DEF LoopInv, NoRunLeftBehind, Executing
<1>. QED
  BY <1>1, LoopInvariant, PTL


-----------------------------------------------------------------------------
(* No waiting cell in an ended run.                                        *)

LEMMA QueueInit == Init => QueueInv
BY DEF Init, FreshMemory, NoWorkers, QueueInv, NothingLeftQueued

\* Steps after which no more cells are queued than before, that move no work.
LEMMA QueueFrame ==
  ASSUME LoopInv, QueueInv,
         \A c \in Cells : cell'[c] = "queued" =>
           /\ cell[c] = "queued"
           /\ run[c[1]] \in {"queued", "running"} => run'[c[1]] \in {run[c[1]], "running"},
         UNCHANGED <<proc, engine, batch, work, pc, acct, todo, out>>,
         proc # "opened", WorkerCtxDone => WorkerCtxDone'
  PROVE  QueueInv'
<1>1. NothingLeftQueued'
  BY DEF QueueInv, NothingLeftQueued
<1>2. ASSUME engine = "working", ~WorkerCtxDone', NEW a \in Accounts, NEW q \in Questions,
             cell'[<<batch, a, q>>] = "queued"
      PROVE  Waits(a, q)'
  <2>1. <<batch, a, q>> \in Cells
    BY <1>2 DEF LoopInv, InBatch, Cells
  <2>2. Waits(a, q)
    BY <1>2, <2>1 DEF QueueInv
  <2>. QED BY <2>2 DEF Waits
<1>. QED
  BY <1>1, <1>2 DEF QueueInv

LEMMA QueueHandlers == TypeOK /\ LoopInv /\ QueueInv /\ Handlers => QueueInv'
<1> SUFFICES ASSUME TypeOK, LoopInv, QueueInv, Handlers PROVE QueueInv'
  OBVIOUS
<1>0. proc = "up" /\ UNCHANGED <<proc, engine, batch, pool, stopping, failure>>
  BY DEF Handlers, CreateRun, CancelLoad, CancelCommit, CancelAbort, CancelSignal, RetryRead,
         RetryCreate, DeleteRuns, loop, context
<1>1. ASSUME NEW items, NEW of, InsertRun(items, of), UNCHANGED signalled PROVE QueueInv'
  <2>1. /\ nextRun \in Runs
        /\ \A r \in Runs : run'[r] = IF r = nextRun THEN "queued" ELSE run[r]
        /\ \A c \in Cells : c[1] # nextRun => cell'[c] = cell[c]
    BY <1>1 DEF InsertRun, TypeOK, TablesTyped
  <2>2. \A c \in Cells : c[1] \in Runs
    BY DEF Cells
  <2>3. NothingLeftQueued'
    BY <2>1, <2>2 DEF QueueInv, NothingLeftQueued
  <2>4. ASSUME engine = "working", ~WorkerCtxDone', NEW a \in Accounts, NEW q \in Questions,
               cell'[<<batch, a, q>>] = "queued"
        PROVE  Waits(a, q)'
    <3>1. <<batch, a, q>> \in Cells /\ batch # nextRun
      BY <2>4, EvalAssumption DEF LoopInv, InBatch, Cells, Runs
    <3>2. cell[<<batch, a, q>>] = "queued"
      BY <2>1, <2>4, <3>1
    <3>3. Waits(a, q)
      BY <1>0, <1>1, <2>4, <3>2 DEF QueueInv, WorkerCtxDone
    <3>. QED BY <1>0, <3>3 DEF Waits, pool
  <2>. QED
    BY <1>0, <1>1, <2>3, <2>4 DEF QueueInv, pool, WorkerCtxDone
<1>2. CASE \E as \in SUBSET Accounts, n \in Questions : CreateRun(as, n)
  BY <1>1, <1>2 DEF CreateRun, context
<1>3. CASE RetryCreate
  BY <1>1, <1>3 DEF RetryCreate, context
<1>4. CASE UNCHANGED <<run, cell>> /\ (signalled => signalled')
  BY <1>0, <1>4, QueueFrame DEF pool, WorkerCtxDone
<1>5. CASE CancelCommit
  <2>1. \A c \in Cells : cell'[c] = "queued" => cell[c] = "queued" /\ c[1] # cancelId
    BY <1>5 DEF CancelCommit, MoveCells, WaitingStatus
  <2>2. \A c \in Cells : c[1] # cancelId => run'[c[1]] = run[c[1]]
    BY <1>5 DEF CancelCommit, TypeOK, TablesTyped, Cells
  <2>. QED
    BY <1>0, <1>5, <2>1, <2>2, QueueFrame DEF CancelCommit, pool, context, WorkerCtxDone
<1>6. CASE \E ids \in SUBSET Runs : DeleteRuns(ids)
  BY <1>0, <1>6, QueueFrame DEF DeleteRuns, pool, context, WorkerCtxDone, Cells, Active
<1>7. CASE CancelAbort \/ (\E r \in Runs : CancelLoad(r) \/ RetryRead(r))
  BY <1>4, <1>7 DEF CancelLoad, CancelAbort, RetryRead, tables, context
<1>8. CASE CancelSignal
  BY <1>4, <1>8 DEF CancelSignal, tables
<1>. QED
  BY <1>2, <1>3, <1>5, <1>6, <1>7, <1>8 DEF Handlers


\* When every worker is done and no context is, nothing of the batch still waits.
LEMMA DoneLeavesNoneQueued ==
  ASSUME QueueInv, engine = "working", ~WorkerCtxDone, AllWorkersDone,
         NEW c \in CellsOf(batch)
  PROVE  cell[c] # "queued"
<1>1. \A a \in Accounts : work[a] = {}
  BY EvalAssumption DEF QueueInv, AllWorkersDone
<1>2. \A a \in Accounts, q \in Questions : ~Waits(a, q)
  BY <1>1 DEF Waits, AllWorkersDone
<1>3. c = <<batch, c[2], c[3]>> /\ c[2] \in Accounts /\ c[3] \in Questions
  BY DEF CellsOf, Cells
<1>. QED
  BY <1>2, <1>3 DEF QueueInv


LEMMA QueueEngine == TypeOK /\ LoopInv /\ QueueInv /\ Engine => QueueInv'
<1> SUFFICES ASSUME TypeOK, LoopInv, QueueInv, Engine PROVE QueueInv'
  OBVIOUS
<1>0. /\ proc = "up" /\ UNCHANGED proc
      /\ \A c \in Cells : c[1] \in Runs
  BY DEF Engine, LoopPick, LoopWait, LoopClaim, BatchStart, Finalize, LoopClear, LoopStep, Cells
\* The loop is outside runBatch afterwards: only the tables and verdicts matter.
<1>1. ASSUME engine' # "working", UNCHANGED <<pc, out>>, NothingLeftQueued' PROVE QueueInv'
  BY <1>0, <1>1 DEF QueueInv
<1>2. CASE LoopPick \/ LoopWait
  BY <1>1, <1>2
  DEF LoopPick, LoopWait, LoopStep, LoopFails, vars, loop, tables, pool, QueueInv, NothingLeftQueued
<1>3. CASE LoopClaim
  <2>1. \A r \in Runs : run'[r] = run[r] \/ (run[r] = "queued" /\ run'[r] = "running")
    BY <1>3 DEF LoopClaim, TypeOK, TablesTyped
  <2>2. NothingLeftQueued'
    BY <1>0, <1>3, <2>1 DEF LoopClaim, QueueInv, NothingLeftQueued
  <2>. QED
    BY <1>1, <1>3, <2>2 DEF LoopClaim, LoopFails, pool
<1>4. CASE BatchStart
  <2>1. NothingLeftQueued'
    BY <1>4 DEF BatchStart, tables, QueueInv, NothingLeftQueued
  <2>2. CASE engine' = "clearing"
    BY <1>1, <1>4, <2>1, <2>2 DEF BatchStart, pool
  <2>3. CASE engine' = "working"
    <3>1. /\ work' = [a \in Accounts |-> {q \in Questions : cell[<<batch, a, q>>] = "queued"}]
          /\ \A w \in Workers : pc'[w] = "take"
      BY <1>4, <2>3 DEF BatchStart
    <3>2. \A a \in Accounts, q \in Questions : cell'[<<batch', a, q>>] = "queued" => q \in work'[a]
      BY <1>4, <3>1 DEF BatchStart, tables
    <3>. QED BY <1>0, <2>1, <3>1, <3>2 DEF QueueInv, Waits
  <2>. QED BY <1>4, <2>2, <2>3 DEF BatchStart
<1>5. CASE Finalize
  <2>1. /\ engine' = "clearing" /\ UNCHANGED <<batch, pool>> /\ batch \in Runs
        /\ \A w \in Workers : pc[w] = "done"
    BY <1>5 DEF Finalize, LoopStep, AllWorkersDone, LoopInv, InBatch
  <2>2. CASE UNCHANGED <<run, cell>>
    BY <1>1, <2>1, <2>2 DEF pool, QueueInv, NothingLeftQueued
  <2>3. ASSUME NEW s \in Ended, run' = [run EXCEPT ![batch] = s],
               \A c \in Cells : cell'[c] = "queued" => c[1] # batch /\ cell[c] = "queued"
        PROVE  QueueInv'
    <3>1. \A r \in Runs : r # batch => run'[r] = run[r]
      BY <2>1, <2>3 DEF TypeOK, TablesTyped
    <3>2. NothingLeftQueued'
      BY <1>0, <2>3, <3>1 DEF QueueInv, NothingLeftQueued
    <3>. QED BY <1>1, <2>1, <3>2 DEF pool
  <2>4. CASE /\ run[batch] = "cancelling" /\ run' = [run EXCEPT ![batch] = "cancelled"]
             /\ cell' = MoveCells(batch, {"queued", "interrupted"}, "cancelled")
    BY <2>3, <2>4 DEF MoveCells, Ended
  <2>5. CASE /\ run' = [run EXCEPT ![batch] = "interrupted"]
             /\ cell' = MoveCells(batch, {"queued"}, "interrupted")
    BY <2>3, <2>5 DEF MoveCells, Ended
  <2>6. CASE /\ ~failure /\ ~BatchCtxDone /\ UNCHANGED cell
             /\ run' = [run EXCEPT ![batch] = IF AllCompleted(batch) THEN "completed"
                                              ELSE "completed_with_errors"]
    <3>1. engine = "working" /\ ~WorkerCtxDone /\ AllWorkersDone
      BY <1>5, <2>6 DEF Finalize, LoopStep, BatchCtxDone, WorkerCtxDone
    <3>2. \A c \in Cells : cell[c] = "queued" => c[1] # batch
      BY <3>1, DoneLeavesNoneQueued DEF CellsOf
    <3>. QED BY <2>3, <2>6, <3>2 DEF Ended
  <2>. QED
    BY <1>5, <2>2, <2>4, <2>5, <2>6 DEF Finalize
<1>6. CASE LoopClear
  BY <1>1, <1>6 DEF LoopClear, LoopStep, tables, pool, QueueInv, NothingLeftQueued
<1>. QED
  BY <1>2, <1>3, <1>4, <1>5, <1>6 DEF Engine


LEMMA QueueWorker ==
  ASSUME NEW w \in Workers, TypeOK, LoopInv, QueueInv, Worker(w) PROVE QueueInv'
<1>0. /\ proc = "up" /\ engine = "working" /\ batch \in Runs
      /\ UNCHANGED <<proc, engine, batch, run, stopping, signalled>>
  BY DEF Worker, TakeList, StartCell, LeaveList, Answer, SaveAnswer, WorkerStep, LoopInv, InBatch,
      loop
<1>1. ASSUME NEW a \in Accounts, NEW q \in Questions PROVE <<batch, a, q>> \in Cells
  BY <1>0 DEF Cells
\* It suffices that no cell gets queued and no waiting cell is dropped while
\* the batch may go on.
<1>2. ASSUME \A c \in Cells : cell'[c] = "queued" => cell[c] = "queued",
             \A v \in Workers : pc'[v] = "saving" => out'[v] # "queued",
             ~WorkerCtxDone' =>
               /\ ~WorkerCtxDone
               /\ \A a \in Accounts, q \in Questions :
                    Waits(a, q) => Waits(a, q)' \/ cell'[<<batch, a, q>>] # "queued"
               /\ (\E v \in Workers : pc'[v] = "done") => \A a \in Accounts : work'[a] = {}
      PROVE  QueueInv'
  BY <1>0, <1>1, <1>2 DEF QueueInv, NothingLeftQueued
<1>3. CASE TakeList(w)
  <2>1. pc[w] = "take" /\ UNCHANGED <<cell, out, failure>>
    BY <1>3 DEF TakeList, WorkerStep
  <2>2. ASSUME NEW a \in Accounts, work[a] # {},
               work' = [work EXCEPT ![a] = {}], acct' = [acct EXCEPT ![w] = a],
               todo' = [todo EXCEPT ![w] = work[a]], pc' = [pc EXCEPT ![w] = "cell"]
        PROVE  QueueInv'
    <3>1. \A b \in Accounts, q \in Questions : Waits(b, q) => Waits(b, q)'
      BY <2>1, <2>2 DEF Waits, TypeOK, PoolTyped
    <3>2. \A b \in Accounts : work[b] = {} => work'[b] = {}
      BY <2>2 DEF TypeOK, PoolTyped
    <3>. QED
      BY <1>0, <1>2, <2>1, <2>2, <3>1, <3>2 DEF QueueInv, WorkerCtxDone, TypeOK, PoolTyped
  <2>3. CASE (\A a \in Accounts : work[a] = {}) /\ pc' = [pc EXCEPT ![w] = "done"]
             /\ UNCHANGED <<work, acct, todo>>
    <3>1. \A b \in Accounts, q \in Questions : Waits(b, q) => Waits(b, q)'
      BY <2>1, <2>3 DEF Waits, TypeOK, PoolTyped
    <3>. QED
      BY <1>0, <1>2, <2>1, <2>3, <3>1 DEF QueueInv, WorkerCtxDone, TypeOK, PoolTyped
  <2>. QED BY <1>3, <2>2, <2>3 DEF TakeList, Goto
<1>4. CASE StartCell(w)
  <2>1. pc[w] = "cell" /\ UNCHANGED <<work, acct, out>>
    BY <1>4 DEF StartCell, WorkerStep
  <2>2. CASE failure'
    <3>1. \A c \in Cells : cell'[c] = "queued" => cell[c] = "queued"
      BY <1>4 DEF StartCell, TypeOK, TablesTyped
    <3>2. \A v \in Workers : pc'[v] = "saving" => pc[v] = "saving"
      BY <1>4 DEF StartCell, Goto, TypeOK, PoolTyped
    <3>. QED BY <1>2, <2>1, <2>2, <3>1, <3>2 DEF QueueInv, WorkerCtxDone
  <2>3. ASSUME NEW q \in Questions, ~failure',
               todo' = [todo EXCEPT ![w] = todo[w] \ {q}],
               \/ /\ cell' = [cell EXCEPT ![<<batch, acct[w], q>>] = "running"]
                  /\ pc' = [pc EXCEPT ![w] = "asking"]
               \/ cell[<<batch, acct[w], q>>] # "queued" /\ UNCHANGED <<cell, pc>>
        PROVE  QueueInv'
    <3>1. /\ \A c \in Cells : cell'[c] = IF c = <<batch, acct[w], q>> /\ cell' # cell
                                         THEN "running" ELSE cell[c]
          /\ \A v \in Workers : v # w => pc'[v] = pc[v] /\ todo'[v] = todo[v]
          /\ pc'[w] \in {"cell", "asking"} /\ todo'[w] = todo[w] \ {q}
      BY <2>1, <2>3 DEF TypeOK, TablesTyped, PoolTyped
    <3>2. acct[w] \in Accounts => cell'[<<batch, acct[w], q>>] # "queued"
      BY <1>1, <2>3, <3>1 DEF TypeOK, TablesTyped
    <3>3. ASSUME NEW a \in Accounts, NEW p \in Questions, Waits(a, p),
                 cell'[<<batch, a, p>>] = "queued"
          PROVE  Waits(a, p)'
      <4>1. ~(a = acct[w] /\ p = q)
        BY <3>2, <3>3
      <4>. QED BY <2>1, <3>1, <3>3, <4>1 DEF Waits
    <3>4. ~failure
      BY <1>4 DEF StartCell, WorkerCtxDone
    <3>. QED
      BY <1>0, <1>2, <2>1, <2>3, <3>1, <3>3, <3>4 DEF QueueInv, WorkerCtxDone
  <2>. QED
    BY <1>4, <2>2, <2>3 DEF StartCell, Claimable, Goto, TypeOK, PoolTyped, WorkerCtxDone
<1>5. CASE LeaveList(w)
  <2>1. /\ pc[w] = "cell" /\ UNCHANGED <<cell, failure, work, acct, todo, out>>
        /\ \/ todo[w] = {} /\ pc' = [pc EXCEPT ![w] = "take"]
           \/ WorkerCtxDone' /\ pc' = [pc EXCEPT ![w] = "done"]
    BY <1>0, <1>5 DEF LeaveList, WorkerStep, Goto, WorkerCtxDone
  <2>2. \A v \in Workers : v # w => pc'[v] = pc[v]
    BY <2>1 DEF TypeOK, PoolTyped
  <2>3. pc'[w] \in {"take", "done"}
    BY <2>1 DEF TypeOK, PoolTyped
  <2>4. ASSUME ~WorkerCtxDone' PROVE pc'[w] = "take" /\ todo[w] = {} /\ ~WorkerCtxDone
    BY <1>0, <2>1, <2>4 DEF WorkerCtxDone, TypeOK, PoolTyped
  <2>5. ASSUME ~WorkerCtxDone', NEW a \in Accounts, NEW q \in Questions, Waits(a, q)
        PROVE  Waits(a, q)'
    BY <2>1, <2>2, <2>4, <2>5 DEF Waits
  <2>6. ASSUME ~WorkerCtxDone', NEW v \in Workers, pc'[v] = "done"
        PROVE  \A a \in Accounts : work'[a] = {}
    <3>1. pc[v] = "done"
      BY <2>2, <2>4, <2>6
    <3>. QED BY <1>0, <2>1, <2>4, <2>6, <3>1 DEF QueueInv
  <2>7. \A v \in Workers : pc'[v] = "saving" => out'[v] # "queued"
    BY <2>1, <2>2, <2>3 DEF QueueInv
  <2>. QED BY <1>2, <2>1, <2>4, <2>5, <2>6, <2>7
<1>6. CASE \E v \in {"completed", "failed"} : Answer(w, v)
  <2>1. /\ pc[w] = "asking" /\ UNCHANGED <<cell, failure, work, acct, todo>>
        /\ \A v \in Workers : v # w => pc'[v] = pc[v] /\ out'[v] = out[v]
        /\ pc'[w] = "saving" /\ out'[w] # "queued"
    BY <1>6 DEF Answer, WorkerStep, Goto, TypeOK, PoolTyped
  <2>2. \A a \in Accounts, q \in Questions : Waits(a, q) => Waits(a, q)'
    BY <2>1 DEF Waits
  <2>. QED BY <1>0, <1>2, <2>1, <2>2 DEF QueueInv, WorkerCtxDone
<1>7. CASE SaveAnswer(w)
  <2>1. /\ pc[w] = "saving" /\ out[w] # "queued" /\ UNCHANGED <<work, acct, todo, out>>
        /\ \A v \in Workers : v # w => pc'[v] = pc[v]
        /\ \/ pc'[w] = "cell" /\ UNCHANGED failure
           \/ pc'[w] = "done" /\ failure'
    BY <1>7 DEF SaveAnswer, WorkerStep, Goto, QueueInv, TypeOK, PoolTyped
  <2>2. \A c \in Cells : cell'[c] = "queued" => cell[c] = "queued"
    BY <1>7, <2>1 DEF SaveAnswer, TypeOK, TablesTyped
  <2>3. ASSUME ~failure', NEW a \in Accounts, NEW q \in Questions, Waits(a, q)
        PROVE  Waits(a, q)'
    BY <2>1, <2>3 DEF Waits
  <2>. QED BY <1>0, <1>2, <2>1, <2>2, <2>3 DEF QueueInv, WorkerCtxDone
<1>. QED
  BY <1>3, <1>4, <1>5, <1>6, <1>7 DEF Worker


LEMMA QueueProcess == TypeOK /\ LoopInv /\ QueueInv /\ Process => QueueInv'
<1> SUFFICES ASSUME TypeOK, LoopInv, QueueInv, Process PROVE QueueInv'
  OBVIOUS
<1>1. CASE Stop
  BY <1>1, QueueFrame DEF Stop, tables, loop, pool, WorkerCtxDone, LoopInv
<1>2. ASSUME MemoryLost, proc' = "down", UNCHANGED <<run, cell>> PROVE QueueInv'
  BY <1>2 DEF MemoryLost, NoWorkers, QueueInv, NothingLeftQueued
<1>3. CASE RepairCells
  <2>1. \A c \in Cells : cell'[c] = "queued" =>
          cell[c] = "queued" /\ run[c[1]] \notin {"running", "cancelling"}
    BY <1>3 DEF RepairCells, RepairedCells, RepairedStatus
  <2>2. \A c \in Cells : cell'[c] = "queued" => run'[c[1]] = "queued"
    BY <1>3, <2>1 DEF RepairCells, QueueInv, NothingLeftQueued
  <2>3. engine' # "working" /\ UNCHANGED pool
    BY <1>3 DEF RepairCells, loop, LoopInv
  <2>. QED BY <2>2, <2>3 DEF QueueInv, NothingLeftQueued, pool
<1>4. CASE RepairRuns
  <2>1. \A r \in Runs : run[r] = "queued" => run'[r] = "queued"
    BY <1>4 DEF RepairRuns, RepairedRuns
  <2>2. \A c \in Cells : cell'[c] = "queued" => run'[c[1]] = "queued"
    BY <1>4, <2>1 DEF RepairRuns, QueueInv, Cells
  <2>3. engine' # "working" /\ UNCHANGED pool
    BY <1>4 DEF RepairRuns, loop, LoopInv
  <2>. QED BY <2>2, <2>3 DEF QueueInv, NothingLeftQueued, pool
<1>. QED
  BY <1>1, <1>2, <1>3, <1>4 DEF Process, Exit, Crash, tables

LEMMA QueueStutter == QueueInv /\ UNCHANGED vars => QueueInv'
BY DEF vars, tables, loop, context, pool, QueueInv, NothingLeftQueued, Waits, WorkerCtxDone

\* No cell waits in a batch that has ended, in every reachable state.
THEOREM QueueInvariant == Spec => []QueueInv
<1>1. TypeOK /\ LoopInv /\ QueueInv /\ [Next]_vars => QueueInv'
  BY QueueHandlers, QueueEngine, QueueWorker, QueueProcess, QueueStutter DEF Next
<1>. QED
  BY <1>1, QueueInit, TypeCorrect, LoopInvariant, PTL DEF Spec

\* A batch that has ended, however it ended, has no cell left waiting
\* (runner.go: cancelRun and the finalisation of runBatch; store.go: openStore).
THEOREM EndedLeavesNoneWaiting == Spec => []NothingLeftQueued
BY QueueInvariant, PTL DEF QueueInv


-----------------------------------------------------------------------------
(* What a step can do to a cell.                                           *)

Inserted(c) == c[1] = nextRun /\ nextRun' = nextRun + 1 /\ cell'[c] = "queued"
Deleted(c)  == cell'[c] = "absent" /\ run'[c[1]] = "absent"
GivenUp(c)  == /\ cell[c] \in {"queued", "running", "interrupted"}
               /\ cell'[c] \in {"cancelled", "interrupted"} /\ run'[c[1]] # "queued"
Taken(c)    == /\ cell[c] = "queued" /\ Executing(c[1])
               /\ cell'[c] = "running" /\ asked'[c] = asked[c] + 1
Answered(c) == cell[c] = "running" /\ cell'[c] # "queued" /\ Executing(c[1])

CellMoves(c) ==
  /\ cell'[c] = cell[c] \/ Inserted(c) \/ Deleted(c) \/ GivenUp(c) \/ Taken(c) \/ Answered(c)
  /\ asked'[c] = asked[c] \/ Taken(c)

LEMMA StepMovesCells ==
  ASSUME TypeOK, LoopInv, QueueInv, [Next]_vars, NEW c \in Cells
  PROVE  CellMoves(c)
<1>1. CASE UNCHANGED vars
  BY <1>1 DEF vars, tables, CellMoves
<1>2. CASE Handlers
  <2>1. UNCHANGED asked
    BY <1>2 DEF Handlers, CreateRun, CancelLoad, CancelCommit, CancelAbort, CancelSignal,
                RetryRead, RetryCreate, DeleteRuns
  <2>2. ASSUME NEW items, NEW of, InsertRun(items, of) PROVE CellMoves(c)
    BY <2>1, <2>2 DEF InsertRun, CellMoves, Inserted
  <2>3. CASE UNCHANGED cell
    BY <2>1, <2>3 DEF CellMoves
  <2>4. CASE CancelCommit
    <3>1. cancelId \in Runs /\ run'[cancelId] # "queued"
      BY <2>4 DEF CancelCommit, LoopInv, TypeOK, TablesTyped
    <3>. QED BY <2>1, <2>4, <3>1 DEF CancelCommit, MoveCells, WaitingStatus, CellMoves, GivenUp
  <2>5. ASSUME NEW ids \in SUBSET Runs, DeleteRuns(ids) PROVE CellMoves(c)
    BY <2>1, <2>5 DEF DeleteRuns, CellMoves, Deleted, Cells
  <2>. QED
    BY <1>2, <2>2, <2>3, <2>4, <2>5
    DEF Handlers, CreateRun, CancelLoad, CancelAbort, CancelSignal, RetryRead, RetryCreate, tables
<1>3. CASE Engine
  <2>1. UNCHANGED asked
    BY <1>3 DEF Engine, LoopPick, LoopWait, LoopClaim, BatchStart, Finalize, LoopClear, LoopStep
  <2>2. UNCHANGED cell \/ Finalize
    BY <1>3 DEF Engine, LoopPick, LoopWait, LoopClaim, BatchStart, LoopClear, tables, vars
  <2>3. CASE Finalize
    <3>1. batch \in Runs
      BY <2>3 DEF Finalize, LoopStep, LoopInv, InBatch
    <3>2. UNCHANGED cell \/ run'[batch] \in Ended
      BY <2>3, <3>1 DEF Finalize, TypeOK, TablesTyped, Ended
    <3>. QED BY <2>1, <2>3, <3>2 DEF Finalize, MoveCells, CellMoves, GivenUp, Ended
  <2>. QED BY <2>1, <2>2, <2>3 DEF CellMoves
<1>4. ASSUME NEW w \in Workers, Worker(w) PROVE CellMoves(c)
  <2>1. CASE UNCHANGED <<cell, asked>>
    BY <2>1 DEF CellMoves
  <2>2. ASSUME NEW d \in Cells, cell[d] = "queued", Executing(d[1]),
               cell' = [cell EXCEPT ![d] = "running"],
               asked' = [asked EXCEPT ![d] = @ + 1]
        PROVE  CellMoves(c)
    BY <2>2 DEF TypeOK, TablesTyped, CellMoves, Taken
  <2>3. CASE StartCell(w)
    <3>1. batch \in Runs /\ Executing(batch)
      BY <2>3 DEF StartCell, WorkerStep, LoopInv, InBatch
    <3>2. ASSUME NEW q \in todo[w], Claimable(<<batch, acct[w], q>>)
          PROVE  <<batch, acct[w], q>> \in Cells \/ acct[w] \notin Accounts
      BY <3>1 DEF Cells, TypeOK, PoolTyped
    <3>3. ASSUME acct[w] \notin Accounts, NEW q \in todo[w],
                 cell' = [cell EXCEPT ![<<batch, acct[w], q>>] = "running"],
                 asked' = [asked EXCEPT ![<<batch, acct[w], q>>] = @ + 1]
          PROVE  UNCHANGED <<cell, asked>>
      <4>1. <<batch, acct[w], q>> \notin Cells
        BY <3>3 DEF Cells
      <4>. QED BY <3>3, <4>1 DEF TypeOK, TablesTyped
    <3>. QED
      BY <2>1, <2>2, <2>3, <3>1, <3>2, <3>3 DEF StartCell, Claimable
  <2>4. CASE SaveAnswer(w)
    <3>1. /\ out[w] # "queued" /\ Executing(batch) /\ UNCHANGED asked
          /\ c[1] = batch \/ c # <<batch, acct[w], ques[w]>>
      BY <2>4 DEF SaveAnswer, WorkerStep, QueueInv, LoopInv
    <3>. QED
      BY <2>4, <3>1 DEF SaveAnswer, CellMoves, Answered, TypeOK, TablesTyped
  <2>. QED
    BY <1>4, <2>1, <2>3, <2>4 DEF Worker, TakeList, LeaveList, Answer
<1>5. CASE Process
  <2>1. UNCHANGED asked /\ (UNCHANGED cell \/ RepairCells)
    BY <1>5 DEF Process, Stop, Exit, Crash, RepairCells, RepairRuns, tables
  <2>2. CASE RepairCells
    BY <2>1, <2>2 DEF RepairCells, RepairedCells, RepairedStatus, CellMoves, GivenUp, Cells
  <2>. QED BY <2>1, <2>2 DEF CellMoves
<1>. QED
  BY <1>1, <1>2, <1>3, <1>4, <1>5 DEF Next


LEMMA RunNumbersGrow ==
  ASSUME TypeOK, [Next]_vars PROVE nextRun' \in {nextRun, nextRun + 1}
BY DEF Next, Handlers, Engine, Worker, Process, CreateRun, CancelLoad, CancelCommit, CancelAbort,
       CancelSignal, RetryRead, RetryCreate, DeleteRuns, InsertRun, LoopPick, LoopWait, LoopClaim,
       BatchStart, Finalize, LoopClear, LoopStep, TakeList, StartCell, LeaveList, Answer,
       SaveAnswer, WorkerStep, Stop, Exit, Crash, RepairCells, RepairRuns, vars, tables

-----------------------------------------------------------------------------
(* No cell is asked twice.                                                 *)

LEMMA AskInit == Init => AskInv
BY DEF Init, AskInv

LEMMA AskStep ==
  ASSUME TypeOK, LoopInv, QueueInv, AskInv, [Next]_vars PROVE AskInv'
<1> SUFFICES ASSUME NEW c \in Cells
             PROVE  /\ asked'[c] <= 1
                    /\ c[1] >= nextRun' => asked'[c] = 0 /\ cell'[c] = "absent"
                    /\ cell'[c] = "queued" => asked'[c] = 0
  BY DEF AskInv
<1>1. CellMoves(c) /\ nextRun' \in {nextRun, nextRun + 1}
  BY StepMovesCells, RunNumbersGrow
<1>2. asked[c] \in Nat /\ nextRun \in Nat /\ c[1] \in Nat
  BY EvalAssumption DEF TypeOK, TablesTyped, Cells, Runs
<1>3. /\ asked[c] <= 1
      /\ c[1] >= nextRun => asked[c] = 0 /\ cell[c] = "absent"
      /\ cell[c] = "queued" => asked[c] = 0
  BY DEF AskInv
<1>. QED
  BY <1>1, <1>2, <1>3 DEF CellMoves, Inserted, Deleted, GivenUp, Taken, Answered

\* No cell is asked twice, and what a worker holds is not yet asked, always.
THEOREM AskInvariant == Spec => []AskInv
<1>1. TypeOK /\ LoopInv /\ QueueInv /\ AskInv /\ [Next]_vars => AskInv'
  BY AskStep
<1>. QED
  BY <1>1, AskInit, TypeCorrect, LoopInvariant, QueueInvariant, PTL DEF Spec

\* No question is put to its account twice, whatever is cancelled, fails or
\* crashes (runner.go: the guarded UPDATE of a worker; store.go: the repair).
THEOREM NeverAskedTwice == Spec => []AskedAtMostOnce
<1>1. AskInv => AskedAtMostOnce
  BY DEF AskInv, AskedAtMostOnce
<1>. QED
  BY <1>1, AskInvariant, PTL

-----------------------------------------------------------------------------
(* A retry asks only what its original did not complete.                   *)

\* A settled run stays as it ended, or is deleted.
LEMMA SettledMoves ==
  ASSUME TypeOK, LoopInv, [Next]_vars, NEW r \in Runs, SettledRun(r)
  PROVE  run'[r] \in {run[r], "absent"}
<1>1. CASE UNCHANGED run
  BY <1>1
<1>2. ASSUME NEW items, NEW of, InsertRun(items, of) PROVE run'[r] = run[r]
  BY <1>2 DEF InsertRun, SettledRun, TypeOK, TablesTyped, Runs
<1>3. ASSUME NEW s \in Runs, s # r, NEW x, run' = [run EXCEPT ![s] = x] PROVE run'[r] = run[r]
  BY <1>3 DEF TypeOK, TablesTyped
<1>4. CASE Handlers
  <2>1. CASE CancelCommit
    BY <1>3, <2>1 DEF CancelCommit, LoopInv, SettledRun, Active, Ended
  <2>2. ASSUME NEW ids \in SUBSET Runs, DeleteRuns(ids) PROVE run'[r] \in {run[r], "absent"}
    BY <2>2 DEF DeleteRuns
  <2>. QED
    BY <1>1, <1>2, <1>4, <2>1, <2>2
    DEF Handlers, CreateRun, CancelLoad, CancelAbort, CancelSignal, RetryRead, RetryCreate, tables
<1>5. CASE Engine
  <2>1. CASE LoopClaim
    BY <1>1, <1>3, <2>1 DEF LoopClaim, LoopStep, LoopInv, SettledRun, Ended
  <2>2. CASE Finalize
    <3>1. batch \in Runs /\ batch # r
      BY <2>2 DEF Finalize, LoopStep, LoopInv, InBatch, Executing, SettledRun, Ended
    <3>. QED BY <1>1, <1>3, <2>2, <3>1 DEF Finalize
  <2>. QED
    BY <1>1, <1>5, <2>1, <2>2
    DEF Engine, LoopPick, LoopWait, BatchStart, LoopClear, tables, vars
<1>6. ASSUME NEW w \in Workers, Worker(w) PROVE run' = run
  BY <1>6 DEF Worker, TakeList, StartCell, LeaveList, Answer, SaveAnswer, WorkerStep
<1>7. CASE Process
  BY <1>1, <1>7 DEF Process, Stop, Exit, Crash, RepairCells, RepairRuns, RepairedRuns,
                    tables, SettledRun, Ended
<1>. QED
  BY <1>1, <1>4, <1>5, <1>6, <1>7 DEF Next, vars, tables

LEMMA SettledStays ==
  ASSUME TypeOK, LoopInv, [Next]_vars, NEW r \in Runs, SettledRun(r)
  PROVE  SettledRun(r)'
<1>1. r < nextRun'
  BY RunNumbersGrow DEF SettledRun, TypeOK, TablesTyped, Runs
<1>. QED
  BY <1>1, SettledMoves DEF SettledRun

\* A cell of a settled run does not become completed any more.
LEMMA SettledUnanswered ==
  ASSUME TypeOK, LoopInv, QueueInv, [Next]_vars, NEW c \in Cells,
         SettledRun(c[1]), cell[c] # "completed"
  PROVE  cell'[c] # "completed"
BY StepMovesCells
DEF CellMoves, Inserted, Deleted, GivenUp, Taken, Answered, SettledRun, Executing, Ended


LEMMA RetryInit == Init => RetryInv
BY DEF Init, FreshMemory, RetryInv, RetryOnlyUnfinished

\* Where parent and retry come from.
LEMMA ParentFrame ==
  ASSUME TypeOK, [Next]_vars
  PROVE  /\ retry' \in {retry, None} \/ \E r \in Runs : RetryRead(r)
         /\ \/ UNCHANGED <<parent, nextRun>>
            \/ nextRun \in Runs /\ nextRun' = nextRun + 1
               /\ parent' = [parent EXCEPT ![nextRun] = None]
            \/ RetryCreate
BY DEF Next, Handlers, Engine, Worker, Process, CreateRun, CancelLoad, CancelCommit, CancelAbort,
       CancelSignal, RetryRead, RetryCreate, DeleteRuns, InsertRun, LoopPick, LoopWait, LoopClaim,
       BatchStart, Finalize, LoopClear, LoopStep, TakeList, StartCell, LeaveList, Answer,
       SaveAnswer, WorkerStep, Stop, Exit, Crash, MemoryLost, RepairCells, RepairRuns, vars,
       tables, handler

LEMMA RetryStep ==
  ASSUME TypeOK, LoopInv, QueueInv, AskInv, RetryInv, [Next]_vars PROVE RetryInv'
<1>1. nextRun \in Nat /\ nextRun' \in {nextRun, nextRun + 1} /\ \A r \in Runs : r \in Nat
  BY RunNumbersGrow, EvalAssumption DEF TypeOK, TablesTyped, Runs
<1>2. \A r \in Runs : parent[r] \in Runs \cup {None}
  BY DEF TypeOK, TablesTyped
<1>3. \A r \in Runs : r < nextRun => parent'[r] = parent[r]
  BY <1>1, ParentFrame DEF RetryCreate, InsertRun, TypeOK, TablesTyped
<1>4. retry # None => /\ retry.of \in Runs /\ SettledRun(retry.of)
                      /\ \A i \in retry.cells : i \in Accounts \X Questions
                                                /\ cell[<<retry.of, i[1], i[2]>>] # "completed"
  BY DEF TypeOK, HandlerTyped, RetryInv
\* A new row: only a retry has a parent, the run it has read.
<1>5. ASSUME NEW r \in Runs, r >= nextRun, r < nextRun', parent'[r] # None
      PROVE  RetryCreate /\ r = nextRun /\ parent'[r] = retry.of /\ retry # None
  <2>1. r = nextRun /\ nextRun' # nextRun
    BY <1>1, <1>5
  <2>2. RetryCreate
    BY <1>1, <1>5, <2>1, ParentFrame DEF TypeOK, TablesTyped
  <2>. QED
    BY <1>5, <2>1, <2>2 DEF RetryCreate, InsertRun, TypeOK, TablesTyped
<1>6. ASSUME NEW r \in Runs, r < nextRun', parent'[r] # None PROVE SettledRun(parent[r])'
  <2>1. CASE r < nextRun
    BY <1>2, <1>3, <1>6, <2>1, SettledStays DEF RetryInv, SettledRun
  <2>2. CASE r >= nextRun
    BY <1>4, <1>5, <1>6, <2>2, SettledStays DEF SettledRun
  <2>. QED BY <1>1, <2>1, <2>2
<1>7. ASSUME NEW c \in Cells, cell'[c] # "absent", parent'[c[1]] # None
      PROVE  cell'[<<parent'[c[1]], c[2], c[3]>>] # "completed"
  <2>0. c[1] \in Runs /\ c[2] \in Accounts /\ c[3] \in Questions /\ c = <<c[1], c[2], c[3]>>
    BY DEF Cells
  <2>1. CASE cell[c] # "absent"
    <3>1. c[1] < nextRun
      BY <1>1, <2>0, <2>1 DEF AskInv
    <3>2. /\ parent'[c[1]] = parent[c[1]] /\ parent[c[1]] \in Runs
          /\ SettledRun(parent[c[1]])
          /\ cell[<<parent[c[1]], c[2], c[3]>>] # "completed"
      BY <1>2, <1>3, <1>7, <2>0, <2>1, <3>1 DEF RetryInv, RetryOnlyUnfinished
    <3>3. <<parent[c[1]], c[2], c[3]>> \in Cells
      BY <2>0, <3>2 DEF Cells
    <3>. QED BY <3>2, <3>3, SettledUnanswered
  <2>2. CASE cell[c] = "absent"
    <3>1. Inserted(c)
      BY <1>7, <2>2, StepMovesCells DEF CellMoves, Deleted, GivenUp, Taken, Answered
    <3>2. RetryCreate /\ parent'[c[1]] = retry.of /\ retry # None
      BY <1>1, <1>5, <1>7, <2>0, <3>1 DEF Inserted
    <3>3. <<c[2], c[3]>> \in retry.cells
      BY <2>2, <3>1, <3>2 DEF Inserted, RetryCreate, InsertRun
    <3>4. /\ <<retry.of, c[2], c[3]>> \in Cells
          /\ cell[<<retry.of, c[2], c[3]>>] # "completed"
      BY <1>4, <2>0, <3>2, <3>3 DEF Cells
    <3>. QED BY <1>4, <3>2, <3>4, SettledUnanswered
  <2>. QED BY <2>1, <2>2
<1>8. ASSUME retry' # None
      PROVE  /\ SettledRun(retry.of)'
             /\ \A i \in retry'.cells : cell'[<<retry'.of, i[1], i[2]>>] # "completed"
  <2>1. CASE retry' = retry
    <3>1. \A i \in retry.cells : <<retry.of, i[1], i[2]>> \in Cells
      BY <1>4, <1>8, <2>1 DEF Cells
    <3>. QED BY <1>4, <1>8, <2>1, <3>1, SettledStays, SettledUnanswered DEF SettledRun
  <2>2. ASSUME NEW r \in Runs, RetryRead(r)
        PROVE  /\ SettledRun(retry.of)'
               /\ \A i \in retry'.cells : cell'[<<retry'.of, i[1], i[2]>>] # "completed"
    <3>1. r < nextRun
      BY <1>1, <2>2 DEF RetryRead, Retryable, LoopInv, FreshRows, Ended
    <3>. QED BY <2>2, <3>1 DEF RetryRead, Retryable, SettledRun, tables
  <2>. QED BY <1>8, <2>1, <2>2, ParentFrame
<1>. QED
  BY <1>6, <1>7, <1>8 DEF RetryInv, RetryOnlyUnfinished

\* What a retry reads and holds of its original run is unfinished there, always.
THEOREM RetryInvariant == Spec => []RetryInv
<1>1. TypeOK /\ LoopInv /\ QueueInv /\ AskInv /\ RetryInv /\ [Next]_vars => RetryInv'
  BY RetryStep
<1>. QED
  BY <1>1, RetryInit, TypeCorrect, LoopInvariant, QueueInvariant, AskInvariant, PTL DEF Spec

\* A retry never holds a question its original run has answered, although the
\* original is read and the retry written separately (server.go: retryRun).
THEOREM RetriesOnlyUnfinished == Spec => []RetryOnlyUnfinished
<1>1. RetryInv => RetryOnlyUnfinished
  BY DEF RetryInv
<1>. QED
  BY <1>1, RetryInvariant, PTL

-----------------------------------------------------------------------------
(* Which cells are under way.                                              *)

Holds(w)  == pc[w] \in {"cell", "asking", "saving"}
Busy(w)   == pc[w] \in {"asking", "saving"}
CellOf(w) == <<batch, acct[w], ques[w]>>
Verdicts  == {"completed", "failed"}

\* Workers hold the lists of different accounts; while none has failed, the
\* cells under way are those the workers are busy with.
HoldInv ==
  engine = "working" =>
    /\ \A w \in Workers : Holds(w) => acct[w] \in Accounts /\ work[acct[w]] = {}
    /\ \A v, w \in Workers : Holds(v) /\ Holds(w) /\ acct[v] = acct[w] => v = w
    /\ \A w \in Workers : Busy(w) => cell[CellOf(w)] = "running"
    /\ \A w \in Workers : pc[w] = "saving" => out[w] \in Verdicts \cup {"interrupted"}
    /\ ~failure => \A c \in CellsOf(batch) : cell[c] = "running" =>
                     \E w \in Workers : Busy(w) /\ CellOf(w) = c

\* A batch starts with cells that were never asked; until its run or its
\* context is cancelled none of them is given up.
WaitingClean == \A c \in Cells : run[c[1]] = "queued" => cell[c] \in {"absent", "queued"}
ClaimedClean ==
  engine = "claimed" =>
    \A c \in CellsOf(batch) :
      cell[c] \in {"absent", "queued"} \/ (cell[c] = "cancelled" /\ run[batch] = "cancelling")
WorkingClean ==
  engine = "working" /\ run[batch] = "running" /\ ~WorkerCtxDone =>
    /\ \A c \in CellsOf(batch) : cell[c] \notin {"cancelled", "interrupted"}
    /\ \A w \in Workers : pc[w] = "saving" => out[w] \in Verdicts
CleanInv == WaitingClean /\ ClaimedClean /\ WorkingClean

LEMMA HoldInit == Init => HoldInv
BY DEF Init, FreshMemory, HoldInv

\* What a handler does to the cells of the executing batch.
LEMMA HandlersKeepRunning ==
  ASSUME TypeOK, LoopInv, Handlers, engine \in {"claimed", "working"}, NEW c \in CellsOf(batch)
  PROVE  \/ cell'[c] = cell[c]
         \/ cell[c] = "queued" /\ cell'[c] = "cancelled" /\ run'[batch] = "cancelling"
<1>0. /\ batch \in Runs /\ batch < nextRun /\ current = batch /\ Executing(batch)
      /\ c \in Cells /\ c[1] = batch
  BY DEF LoopInv, InBatch, CellsOf
<1>1. ASSUME NEW items, NEW of, InsertRun(items, of) PROVE cell'[c] = cell[c]
  BY <1>0, <1>1, EvalAssumption DEF InsertRun, Runs
<1>2. ASSUME NEW ids \in SUBSET Runs, DeleteRuns(ids) PROVE cell'[c] = cell[c]
  BY <1>0, <1>2 DEF DeleteRuns, Executing, Active
<1>3. CASE CancelCommit
  BY <1>0, <1>3 DEF CancelCommit, MoveCells, WaitingStatus, TypeOK, TablesTyped
<1>. QED
  BY <1>1, <1>2, <1>3
  DEF Handlers, CreateRun, CancelLoad, CancelAbort, CancelSignal, RetryRead, RetryCreate, tables

LEMMA HoldHandlers == TypeOK /\ LoopInv /\ HoldInv /\ Handlers => HoldInv'
<1> SUFFICES ASSUME TypeOK, LoopInv, HoldInv, Handlers, engine' = "working" PROVE HoldInv'
  BY DEF HoldInv
<1>1. UNCHANGED <<engine, batch, work, pc, acct, ques, out, failure>>
  BY DEF Handlers, CreateRun, CancelLoad, CancelCommit, CancelAbort, CancelSignal, RetryRead,
         RetryCreate, DeleteRuns, loop, context, pool
<1>2. \A c \in CellsOf(batch) : cell'[c] = "running" <=> cell[c] = "running"
  BY <1>1, HandlersKeepRunning
<1>3. \A w \in Workers : Busy(w) => CellOf(w) \in CellsOf(batch)
  BY <1>1 DEF HoldInv, Busy, Holds, CellOf, CellsOf, Cells, LoopInv, InBatch, TypeOK, PoolTyped
<1>. QED
  BY <1>1, <1>2, <1>3 DEF HoldInv, Holds, Busy, CellOf, CellsOf

LEMMA HoldEngine == TypeOK /\ LoopInv /\ CleanInv /\ HoldInv /\ Engine => HoldInv'
<1> SUFFICES ASSUME TypeOK, LoopInv, CleanInv, Engine, engine' = "working" PROVE HoldInv'
  BY DEF HoldInv
<1>1. /\ engine = "claimed" /\ UNCHANGED <<cell, batch>>
      /\ \A w \in Workers : pc'[w] = "take"
  BY DEF Engine, LoopPick, LoopWait, LoopClaim, BatchStart, Finalize, LoopClear, LoopStep,
         LoopFails, tables, vars, loop
<1>2. \A c \in CellsOf(batch) : cell[c] # "running"
  BY <1>1 DEF CleanInv, ClaimedClean
<1>. QED
  BY <1>1, <1>2 DEF HoldInv, Holds, Busy, CellsOf

LEMMA HoldWorker ==
  ASSUME NEW w \in Workers, TypeOK, LoopInv, HoldInv, Worker(w) PROVE HoldInv'
<1>0. /\ engine = "working" /\ batch \in Runs /\ UNCHANGED <<engine, batch>>
  BY DEF Worker, TakeList, StartCell, LeaveList, Answer, SaveAnswer, WorkerStep, LoopInv, InBatch,
      loop
<1>1. /\ \A v \in Workers : Holds(v) => acct[v] \in Accounts /\ work[acct[v]] = {}
      /\ \A u, v \in Workers : Holds(u) /\ Holds(v) /\ acct[u] = acct[v] => u = v
      /\ \A v \in Workers : Busy(v) => cell[CellOf(v)] = "running"
      /\ \A v \in Workers : pc[v] = "saving" => out[v] \in Verdicts \cup {"interrupted"}
      /\ ~failure => \A c \in CellsOf(batch) : cell[c] = "running" =>
                       \E v \in Workers : Busy(v) /\ CellOf(v) = c
  BY <1>0 DEF HoldInv
<1>2. \A v \in Workers : Busy(v) => Holds(v) /\ CellOf(v) \in CellsOf(batch)
  BY <1>0, <1>1 DEF Busy, Holds, CellOf, CellsOf, Cells, TypeOK, PoolTyped
<1>3. CASE TakeList(w)
  <2>1. /\ pc[w] = "take" /\ UNCHANGED <<cell, failure, ques, out>>
        /\ \A v \in Workers : v # w => pc'[v] = pc[v] /\ acct'[v] = acct[v]
        /\ ~Busy(w) /\ ~Busy(w)'
    BY <1>3 DEF TakeList, WorkerStep, Goto, TypeOK, PoolTyped, Busy
  <2>2. \A v \in Workers : (Busy(v)' <=> Busy(v)) /\ (Busy(v) => CellOf(v)' = CellOf(v))
    BY <1>0, <2>1 DEF Busy, CellOf
  <2>3. /\ \A v \in Workers : Holds(v)' => acct'[v] \in Accounts /\ work'[acct'[v]] = {}
        /\ \A u, v \in Workers : Holds(u)' /\ Holds(v)' /\ acct'[u] = acct'[v] => u = v
    <3>1. ASSUME NEW a \in Accounts, work[a] # {},
                 work' = [work EXCEPT ![a] = {}], acct' = [acct EXCEPT ![w] = a],
                 pc' = [pc EXCEPT ![w] = "cell"]
          PROVE  <2>3!:
      <4>1. acct'[w] = a /\ \A b \in Accounts : work[b] = {} => work'[b] = {}
        BY <3>1 DEF TypeOK, PoolTyped
      <4>2. work'[a] = {}
        BY <3>1 DEF TypeOK, PoolTyped
      <4>. QED BY <1>1, <2>1, <3>1, <4>1, <4>2 DEF Holds
    <3>2. CASE pc' = [pc EXCEPT ![w] = "done"] /\ UNCHANGED <<work, acct>>
      BY <1>1, <2>1, <3>2 DEF Holds, TypeOK, PoolTyped
    <3>. QED BY <1>3, <3>1, <3>2 DEF TakeList, Goto
  <2>4. \A v \in Workers : pc'[v] = "saving" => pc[v] = "saving"
    BY <2>1, <2>2 DEF Busy
  <2>. QED BY <1>0, <1>1, <2>1, <2>2, <2>3, <2>4 DEF HoldInv, CellsOf
\* The other steps leave the lists to their holders.
<1>4. ASSUME UNCHANGED <<work, acct>>, pc[w] \in {"cell", "asking", "saving"},
             \A v \in Workers : v # w => pc'[v] = pc[v] /\ ques'[v] = ques[v] /\ out'[v] = out[v],
             Busy(w)' => cell'[CellOf(w)'] = "running",
             pc'[w] = "saving" => out'[w] \in Verdicts \cup {"interrupted"},
             \A c \in CellsOf(batch) : cell'[c] # cell[c] => c[2] = acct[w],
             ~failure' => ~failure /\ \A c \in CellsOf(batch) : 
                            c[2] = acct[w] /\ cell'[c] = "running" => Busy(w)' /\ CellOf(w)' = c
      PROVE  HoldInv'
  <2>1. \A v \in Workers : Holds(v)' => Holds(v)
    BY <1>4 DEF Holds
  <2>2. ASSUME NEW v \in Workers, v # w
        PROVE  /\ Busy(v)' <=> Busy(v)
               /\ Busy(v) => CellOf(v)' = CellOf(v) /\ CellOf(v)[2] # acct[w]
                             /\ cell'[CellOf(v)] = cell[CellOf(v)]
    <3>1. Busy(v) => acct[v] # acct[w]
      BY <1>1, <1>2, <1>4, <2>2 DEF Holds
    <3>. QED BY <1>0, <1>2, <1>4, <2>2, <3>1 DEF Busy, CellOf
  <2>3. \A v \in Workers : Busy(v)' => cell'[CellOf(v)'] = "running"
    BY <1>1, <1>4, <2>2
  <2>4. ASSUME ~failure', NEW c \in CellsOf(batch), cell'[c] = "running"
        PROVE  \E v \in Workers : Busy(v)' /\ CellOf(v)' = c
    <3>1. CASE c[2] = acct[w]
      BY <1>4, <2>4, <3>1
    <3>2. CASE c[2] # acct[w]
      <4>1. PICK v \in Workers : Busy(v) /\ CellOf(v) = c
        BY <1>1, <1>4, <2>4, <3>2
      <4>2. v # w
        BY <3>2, <4>1 DEF CellOf
      <4>. QED BY <2>2, <4>1, <4>2
    <3>. QED BY <3>1, <3>2
  <2>5. \A v \in Workers : pc'[v] = "saving" => out'[v] \in Verdicts \cup {"interrupted"}
    BY <1>1, <1>4
  <2>. QED BY <1>0, <1>1, <1>4, <2>1, <2>3, <2>4, <2>5 DEF HoldInv, CellsOf
\* What is under way for the account of w is its own cell.
<1>5. ASSUME Holds(w), ~failure, NEW c \in CellsOf(batch), c[2] = acct[w], cell[c] = "running"
      PROVE  Busy(w) /\ CellOf(w) = c
  <2>1. PICK v \in Workers : Busy(v) /\ CellOf(v) = c
    BY <1>1, <1>5
  <2>2. v = w
    BY <1>1, <1>2, <1>5, <2>1 DEF CellOf
  <2>. QED BY <2>1, <2>2
<1>6. CASE StartCell(w)
  <2>1. pc[w] = "cell" /\ Holds(w) /\ ~Busy(w) /\ UNCHANGED <<work, acct, out>> /\ ~failure
    BY <1>6 DEF StartCell, WorkerStep, Holds, Busy, WorkerCtxDone
  <2>2. ASSUME NEW q \in Questions, cell[<<batch, acct[w], q>>] = "queued",
               cell' = [cell EXCEPT ![<<batch, acct[w], q>>] = "running"],
               ques' = [ques EXCEPT ![w] = q], pc' = [pc EXCEPT ![w] = "asking"],
               UNCHANGED failure
        PROVE  HoldInv'
    <3>1. <<batch, acct[w], q>> \in CellsOf(batch)
      BY <1>0, <1>1, <2>1 DEF CellsOf, Cells
    <3>2. /\ pc'[w] = "asking" /\ ques'[w] = q /\ CellOf(w)' = <<batch, acct[w], q>>
          /\ \A v \in Workers : v # w => pc'[v] = pc[v] /\ ques'[v] = ques[v]
      BY <1>0, <2>1, <2>2 DEF CellOf, TypeOK, PoolTyped
    <3>3. \A c \in CellsOf(batch) :
             cell'[c] = IF c = <<batch, acct[w], q>> THEN "running" ELSE cell[c]
      BY <2>2 DEF CellsOf, TypeOK, TablesTyped
    <3>. QED BY <1>4, <1>5, <2>1, <2>2, <3>1, <3>2, <3>3 DEF Busy
  <2>3. CASE /\ UNCHANGED <<cell, ques>>
             /\ \/ UNCHANGED <<pc, failure>>
                \/ failure' /\ pc' = [pc EXCEPT ![w] = "done"]
    <3>1. /\ \A v \in Workers : v # w => pc'[v] = pc[v]
          /\ pc'[w] \in {"cell", "done"}
      BY <2>1, <2>3 DEF TypeOK, PoolTyped
    <3>2. ~failure' => UNCHANGED failure
      BY <2>1, <2>3
    <3>. QED BY <1>4, <1>5, <2>1, <2>3, <3>1, <3>2 DEF Busy
  <2>. QED BY <1>6, <2>2, <2>3 DEF StartCell, Claimable, Goto, TypeOK, PoolTyped
<1>7. CASE LeaveList(w)
  <2>1. /\ pc[w] = "cell" /\ Holds(w) /\ ~Busy(w)
        /\ UNCHANGED <<cell, work, acct, ques, out, failure>>
        /\ \A v \in Workers : v # w => pc'[v] = pc[v]
        /\ pc'[w] \in {"take", "done"}
    BY <1>7 DEF LeaveList, WorkerStep, Goto, Holds, Busy, TypeOK, PoolTyped
  <2>. QED BY <1>4, <1>5, <2>1 DEF Busy
<1>8. ASSUME NEW verdict \in Verdicts, Answer(w, verdict) PROVE HoldInv'
  <2>1. /\ pc[w] = "asking" /\ Holds(w) /\ Busy(w)
        /\ UNCHANGED <<cell, work, acct, ques, failure>>
        /\ \A v \in Workers : v # w => pc'[v] = pc[v] /\ out'[v] = out[v]
        /\ pc'[w] = "saving" /\ out'[w] \in Verdicts \cup {"interrupted"}
    BY <1>8 DEF Answer, WorkerStep, Goto, Holds, Busy, TypeOK, PoolTyped
  <2>2. CellOf(w)' = CellOf(w)
    BY <1>0, <2>1 DEF CellOf
  <2>. QED BY <1>1, <1>4, <1>5, <2>1, <2>2 DEF Busy
<1>9. CASE SaveAnswer(w)
  <2>1. /\ pc[w] = "saving" /\ Holds(w) /\ Busy(w)
        /\ UNCHANGED <<work, acct, ques, out>>
        /\ out[w] \in Verdicts \cup {"interrupted"}
        /\ \A v \in Workers : v # w => pc'[v] = pc[v]
        /\ pc'[w] \in {"cell", "done"}
    BY <1>1, <1>9 DEF SaveAnswer, WorkerStep, Goto, Holds, Busy, TypeOK, PoolTyped
  <2>2. CASE failure' /\ UNCHANGED cell
    BY <1>4, <2>1, <2>2 DEF Busy
  <2>3. CASE UNCHANGED failure /\ cell' = [cell EXCEPT ![CellOf(w)] = out[w]]
    <3>1. CellOf(w) \in CellsOf(batch) /\ CellOf(w)[2] = acct[w]
      BY <1>2, <2>1 DEF CellOf
    <3>2. \A c \in CellsOf(batch) : cell'[c] = IF c = CellOf(w) THEN out[w] ELSE cell[c]
      BY <2>3, <3>1 DEF CellsOf, TypeOK, TablesTyped
    <3>3. ~failure' => \A c \in CellsOf(batch) : c[2] = acct[w] => cell'[c] # "running"
      BY <1>5, <2>1, <2>3, <3>2 DEF Verdicts
    <3>. QED BY <1>4, <2>1, <2>3, <3>1, <3>2, <3>3 DEF Busy
  <2>. QED BY <1>9, <2>2, <2>3 DEF SaveAnswer, CellOf
<1>. QED
  BY <1>3, <1>6, <1>7, <1>8, <1>9 DEF Worker, Verdicts
LEMMA HoldStep == TypeOK /\ LoopInv /\ CleanInv /\ HoldInv /\ [Next]_vars => HoldInv'
<1> SUFFICES ASSUME TypeOK, LoopInv, CleanInv, HoldInv, [Next]_vars PROVE HoldInv'
  OBVIOUS
<1>1. CASE UNCHANGED vars
  BY <1>1 DEF vars, tables, loop, context, pool, HoldInv, Holds, Busy, CellOf, CellsOf
<1>2. CASE Process
  <2>1. CASE Stop
    BY <2>1 DEF Stop, tables, loop, pool, HoldInv, Holds, Busy, CellOf, CellsOf
  <2>. QED
    BY <1>2, <2>1
    DEF Process, Exit, Crash, MemoryLost, RepairCells, RepairRuns, loop, LoopInv, HoldInv
<1>. QED
  BY <1>1, <1>2, HoldHandlers, HoldEngine, HoldWorker DEF Next

\* Where a run comes to wait.
LEMMA QueuedRuns ==
  ASSUME TypeOK, LoopInv, [Next]_vars, NEW r \in Runs, run'[r] = "queued"
  PROVE  run[r] = "queued" \/ r = nextRun
<1>1. ASSUME NEW s \in Runs, NEW x, x # "queued", run' = [run EXCEPT ![s] = x]
      PROVE  run[r] = "queued"
  BY <1>1 DEF TypeOK, TablesTyped
<1>2. ASSUME NEW items, NEW of, InsertRun(items, of) PROVE run[r] = "queued" \/ r = nextRun
  BY <1>2 DEF InsertRun, TypeOK, TablesTyped
<1>3. CASE Handlers
  <2>1. CASE CancelCommit
    BY <1>1, <2>1 DEF CancelCommit, LoopInv
  <2>2. ASSUME NEW ids \in SUBSET Runs, DeleteRuns(ids) PROVE run[r] = "queued"
    BY <2>2 DEF DeleteRuns
  <2>. QED
    BY <1>2, <1>3, <2>1, <2>2
    DEF Handlers, CreateRun, CancelLoad, CancelAbort, CancelSignal, RetryRead, RetryCreate, tables
<1>4. CASE Engine
  <2>1. CASE Finalize
    BY <1>1, <2>1 DEF Finalize, LoopStep, LoopInv, InBatch
  <2>2. CASE LoopClaim
    BY <1>1, <2>2 DEF LoopClaim, LoopStep, LoopInv
  <2>. QED
    BY <1>4, <2>1, <2>2 DEF Engine, LoopPick, LoopWait, BatchStart, LoopClear, tables, vars
<1>5. CASE Process
  BY <1>5
  DEF Process, Stop, Exit, Crash, RepairCells, RepairRuns, RepairedRuns, RepairedStatus, tables
<1>6. ASSUME NEW w \in Workers, Worker(w) PROVE UNCHANGED run
  BY <1>6 DEF Worker, TakeList, StartCell, LeaveList, Answer, SaveAnswer, WorkerStep
<1>. QED
  BY <1>3, <1>4, <1>5, <1>6 DEF Next, vars, tables

\* What a handler does to the executing run.
LEMMA HandlersKeepBatch ==
  ASSUME TypeOK, LoopInv, Handlers, engine \in {"claimed", "working"}
  PROVE  run'[batch] \in {run[batch], "cancelling"}
<1>0. batch \in Runs /\ batch < nextRun /\ current = batch /\ Executing(batch)
  BY DEF LoopInv, InBatch
<1>1. ASSUME NEW items, NEW of, InsertRun(items, of) PROVE run'[batch] = run[batch]
  BY <1>0, <1>1, EvalAssumption DEF InsertRun, Runs, TypeOK, TablesTyped
<1>2. ASSUME NEW ids \in SUBSET Runs, DeleteRuns(ids) PROVE run'[batch] = run[batch]
  BY <1>0, <1>2 DEF DeleteRuns, Executing, Active
<1>3. CASE CancelCommit
  BY <1>0, <1>3 DEF CancelCommit, TypeOK, TablesTyped
<1>. QED
  BY <1>1, <1>2, <1>3
  DEF Handlers, CreateRun, CancelLoad, CancelAbort, CancelSignal, RetryRead, RetryCreate, tables

LEMMA CleanInit == Init => CleanInv
BY DEF Init, FreshMemory, CleanInv, WaitingClean, ClaimedClean, WorkingClean

\* The cells of a waiting run.
LEMMA WaitingRunIsClean ==
  ASSUME TypeOK, LoopInv, QueueInv, AskInv, CleanInv, [Next]_vars,
         NEW c \in Cells, run'[c[1]] = "queued"
  PROVE  cell'[c] \in {"absent", "queued"}
<1>1. c[1] \in Runs
  BY DEF Cells
<1>2. cell[c] \in {"absent", "queued"}
  BY <1>1, QueuedRuns, EvalAssumption DEF CleanInv, WaitingClean, AskInv, TypeOK, TablesTyped, Runs
<1>3. ~Executing(c[1])
  <2>1. run[c[1]] = "queued" \/ c[1] = nextRun
    BY <1>1, QueuedRuns
  <2>. QED BY <1>1, <2>1, EvalAssumption
           DEF LoopInv, FreshRows, Executing, TypeOK, TablesTyped, Runs
<1>. QED
  BY <1>1, <1>2, <1>3, StepMovesCells DEF CellMoves, Inserted, Deleted, GivenUp, Taken, Answered

LEMMA CleanHandlers == TypeOK /\ LoopInv /\ CleanInv /\ Handlers => ClaimedClean' /\ WorkingClean'
<1> SUFFICES ASSUME TypeOK, LoopInv, CleanInv, Handlers PROVE ClaimedClean' /\ WorkingClean'
  OBVIOUS
<1>0. UNCHANGED <<engine, batch, pc, out, failure, stopping>>
  BY DEF Handlers, CreateRun, CancelLoad, CancelCommit, CancelAbort, CancelSignal, RetryRead,
         RetryCreate, DeleteRuns, loop, context, pool
<1>1. signalled => signalled'
  <2>1. UNCHANGED signalled \/ CancelSignal
    BY DEF Handlers, CreateRun, CancelLoad, CancelCommit, CancelAbort, RetryRead, RetryCreate,
           DeleteRuns, context
  <2>. QED BY <2>1 DEF CancelSignal
<1>2. ASSUME engine \in {"claimed", "working"}
      PROVE  /\ run'[batch] \in {run[batch], "cancelling"}
             /\ \A c \in CellsOf(batch) :
                  \/ cell'[c] = cell[c]
                  \/ cell[c] = "queued" /\ cell'[c] = "cancelled" /\ run'[batch] = "cancelling"
  BY <1>2, HandlersKeepRunning, HandlersKeepBatch
<1>3. ClaimedClean'
  BY <1>0, <1>2 DEF CleanInv, ClaimedClean, CellsOf
<1>4. WorkingClean'
  BY <1>0, <1>1, <1>2 DEF CleanInv, WorkingClean, WorkerCtxDone, CellsOf
<1>. QED
  BY <1>3, <1>4

LEMMA CleanEngine == TypeOK /\ LoopInv /\ CleanInv /\ Engine => ClaimedClean' /\ WorkingClean'
<1> SUFFICES ASSUME TypeOK, LoopInv, CleanInv, Engine PROVE ClaimedClean' /\ WorkingClean'
  OBVIOUS
<1>1. CASE engine' = "claimed"
  <2>1. /\ run[batch] = "queued" /\ UNCHANGED <<cell, batch>>
    BY <1>1 DEF Engine, LoopPick, LoopWait, LoopClaim, BatchStart, Finalize, LoopClear, LoopStep,
                LoopFails, tables, vars, loop
  <2>2. \A c \in CellsOf(batch) : cell[c] \in {"absent", "queued"}
    BY <2>1 DEF CleanInv, WaitingClean, CellsOf
  <2>. QED BY <1>1, <2>1, <2>2 DEF ClaimedClean, WorkingClean, CellsOf
<1>2. CASE engine' = "working"
  <2>1. /\ engine = "claimed" /\ UNCHANGED <<cell, batch, run>>
        /\ \A w \in Workers : pc'[w] = "take"
    BY <1>2 DEF Engine, LoopPick, LoopWait, LoopClaim, BatchStart, Finalize, LoopClear, LoopStep,
                LoopFails, tables, vars, loop
  <2>. QED BY <1>2, <2>1 DEF CleanInv, ClaimedClean, WorkingClean, CellsOf
<1>3. CASE engine' \notin {"claimed", "working"}
  BY <1>3 DEF ClaimedClean, WorkingClean
<1>. QED
  BY <1>1, <1>2, <1>3

LEMMA CleanWorker ==
  ASSUME NEW w \in Workers, TypeOK, LoopInv, HoldInv, CleanInv, Worker(w)
  PROVE  ClaimedClean' /\ WorkingClean'
<1>0. /\ engine = "working" /\ batch \in Runs
      /\ UNCHANGED <<engine, batch, run, stopping, signalled>>
  BY DEF Worker, TakeList, StartCell, LeaveList, Answer, SaveAnswer, WorkerStep, LoopInv, InBatch,
      loop
<1> SUFFICES ASSUME run[batch] = "running", ~WorkerCtxDone'
             PROVE  /\ \A c \in CellsOf(batch) : cell'[c] \notin {"cancelled", "interrupted"}
                    /\ \A v \in Workers : pc'[v] = "saving" => out'[v] \in Verdicts
  BY <1>0 DEF ClaimedClean, WorkingClean, CellsOf
<1>1. ~failure' /\ ~failure /\ ~WorkerCtxDone
  BY <1>0 DEF WorkerCtxDone, Worker, TakeList, StartCell, LeaveList, Answer, SaveAnswer, WorkerStep
<1>2. /\ \A c \in CellsOf(batch) : cell[c] \notin {"cancelled", "interrupted"}
      /\ \A v \in Workers : pc[v] = "saving" => out[v] \in Verdicts
  BY <1>0, <1>1 DEF CleanInv, WorkingClean
<1>3. \A c \in CellsOf(batch) : cell'[c] \in {cell[c], "running"} \cup Verdicts
  BY <1>0, <1>1, <1>2
  DEF Worker, TakeList, StartCell, LeaveList, Answer, SaveAnswer, WorkerStep, CellsOf, TypeOK,
      TablesTyped
<1>4. ASSUME NEW v \in Workers, pc'[v] = "saving" PROVE out'[v] \in Verdicts
  <2>1. CASE pc[v] = "saving" /\ out'[v] = out[v]
    BY <1>2, <2>1
  <2>2. CASE \E verdict \in Verdicts : Answer(w, verdict)
    BY <1>1, <1>2, <1>4, <2>2 DEF Answer, WorkerStep, Goto, TypeOK, PoolTyped
  <2>. QED
    BY <1>4, <2>1, <2>2
    DEF Worker, TakeList, StartCell, LeaveList, SaveAnswer, WorkerStep, Goto, TypeOK, PoolTyped,
        Verdicts
<1>. QED
  BY <1>2, <1>3, <1>4 DEF Verdicts

LEMMA CleanStep ==
  TypeOK /\ LoopInv /\ QueueInv /\ AskInv /\ HoldInv /\ CleanInv /\ [Next]_vars => CleanInv'
<1> SUFFICES ASSUME TypeOK, LoopInv, QueueInv, AskInv, HoldInv, CleanInv, [Next]_vars
             PROVE  CleanInv'
  OBVIOUS
<1>1. WaitingClean'
  BY WaitingRunIsClean DEF WaitingClean
<1>2. CASE UNCHANGED vars
  BY <1>1, <1>2 DEF vars, tables, loop, context, pool, CleanInv, ClaimedClean, WorkingClean,
                    WorkerCtxDone, CellsOf
<1>3. CASE Process
  <2>1. CASE Stop
    BY <1>1, <2>1
    DEF Stop, tables, loop, pool, CleanInv, ClaimedClean, WorkingClean, WorkerCtxDone, CellsOf
  <2>. QED
    BY <1>1, <1>3, <2>1
    DEF Process, Exit, Crash, MemoryLost, RepairCells, RepairRuns, loop, LoopInv, CleanInv,
        ClaimedClean, WorkingClean
<1>. QED
  BY <1>1, <1>2, <1>3, CleanHandlers, CleanEngine, CleanWorker DEF Next, CleanInv

\* The two hold together.
THEOREM HoldInvariant == Spec => [](HoldInv /\ CleanInv)
<1>1. TypeOK /\ LoopInv /\ QueueInv /\ AskInv /\ HoldInv /\ CleanInv /\ [Next]_vars
      => (HoldInv /\ CleanInv)'
  BY HoldStep, CleanStep
<1>. QED
  BY <1>1, HoldInit, CleanInit, TypeCorrect, LoopInvariant, QueueInvariant, AskInvariant, PTL
  DEF Spec

-----------------------------------------------------------------------------
(* The status of a run and its cells.                                      *)

\* Only a database operation that failed leaves a run executing that no loop
\* executes; and the repair goes through the cells first.
FaultInv ==
  /\ failure => faults > 0
  /\ faults = 0 /\ engine = "stopped" => \A r \in Runs : ~Executing(r)
  /\ proc = "opened" => \A c \in Cells : cell[c] = "running" => ~Executing(c[1])

LEMMA FaultInit == Init => FaultInv
BY DEF Init, FreshMemory, FaultInv

\* What a handler does to runs that are not executing.
LEMMA HandlersStartNothing ==
  ASSUME TypeOK, LoopInv, Handlers, NEW r \in Runs, Executing(r)'
  PROVE  Executing(r)
<1>1. ASSUME NEW items, NEW of, InsertRun(items, of) PROVE Executing(r)
  BY <1>1 DEF InsertRun, Executing, TypeOK, TablesTyped
<1>2. CASE CancelCommit
  <2>1. cancelId = current /\ cancelId \in Runs => Executing(cancelId)
    BY <1>2, EvalAssumption DEF CancelCommit, LoopInv, InBatch, Active, Executing, Runs
  <2>. QED BY <1>2, <2>1 DEF CancelCommit, LoopInv, Executing, TypeOK, TablesTyped
<1>3. ASSUME NEW ids \in SUBSET Runs, DeleteRuns(ids) PROVE Executing(r)
  BY <1>3 DEF DeleteRuns, Executing
<1>. QED
  BY <1>1, <1>2, <1>3
  DEF Handlers, CreateRun, CancelLoad, CancelAbort, CancelSignal, RetryRead, RetryCreate, tables,
      Executing

LEMMA FaultsGrow ==
  ASSUME TypeOK, [Next]_vars PROVE faults \in Nat /\ faults' \in {faults, faults + 1}
<1>1. faults \in Nat
  BY EvalAssumption DEF TypeOK, BudgetTyped
<1>2. CASE Handlers \/ Process \/ UNCHANGED vars
  BY <1>1, <1>2
  DEF Handlers, Process, CreateRun, CancelLoad, CancelCommit, CancelAbort, CancelSignal,
      RetryRead, RetryCreate, DeleteRuns, Stop, Exit, Crash, RepairCells, RepairRuns,
      Restartable, budget, vars
<1>3. CASE Engine
  BY <1>1, <1>3 DEF Engine, LoopPick, LoopWait, LoopClaim, BatchStart, Finalize, LoopClear,
              Fault, NoFault, budget, vars
<1>4. ASSUME NEW w \in Workers, Worker(w) PROVE faults' \in {faults, faults + 1}
  BY <1>4 DEF Worker, TakeList, StartCell, LeaveList, Answer, SaveAnswer, Fault, NoFault, budget
<1>. QED BY <1>1, <1>2, <1>3, <1>4 DEF Next

LEMMA FaultStep ==
  TypeOK /\ LoopInv /\ HoldInv /\ FaultInv /\ [Next]_vars => FaultInv'
<1> SUFFICES ASSUME TypeOK, LoopInv, HoldInv, FaultInv, [Next]_vars PROVE FaultInv'
  OBVIOUS
<1>0. faults \in Nat /\ faults' \in {faults, faults + 1} /\ \A c \in Cells : c[1] \in Runs
  BY FaultsGrow DEF Cells
<1>1. failure' => failure \/ faults' = faults + 1
  <2>1. ASSUME NEW w \in Workers, SaveAnswer(w), failure', ~failure PROVE faults' = faults + 1
    BY <2>1 DEF SaveAnswer, WorkerStep, HoldInv, Busy, CellOf, Fault
  <2>. QED
    BY <2>1
    DEF Next, Handlers, Engine, Worker, Process, CreateRun, CancelLoad, CancelCommit,
        CancelAbort, CancelSignal, RetryRead, RetryCreate, DeleteRuns, LoopPick, LoopWait,
        LoopClaim, BatchStart, Finalize, LoopClear, LoopFails, TakeList, StartCell, LeaveList,
        Answer, Stop, Exit, Crash, MemoryLost, RepairCells, RepairRuns, Fault, vars, context
<1>2. ASSUME faults' = 0, engine' = "stopped", NEW r \in Runs PROVE ~Executing(r)'
  <2>1. faults = 0 /\ ~failure
    BY <1>0, <1>2 DEF FaultInv
  <2>2. ~Executing(r)
    BY <1>2, <2>1
    DEF FaultInv, LoopInv, InBatch, Next, Handlers, Engine, Worker, Process, CreateRun,
        CancelLoad, CancelCommit, CancelAbort, CancelSignal, RetryRead, RetryCreate, DeleteRuns,
        LoopPick, LoopWait, LoopClaim, BatchStart, Finalize, LoopClear, LoopStep, LoopFails,
        TakeList, StartCell, LeaveList, Answer, SaveAnswer, WorkerStep, Stop, Exit, Crash,
        MemoryLost, RepairCells, RepairRuns, vars, loop
  <2>3. Handlers \/ UNCHANGED run
    BY <1>2
    DEF FaultInv, LoopInv, Next, Engine, Worker, Process, LoopPick, LoopWait, LoopClaim,
        BatchStart, Finalize, LoopClear, LoopFails, TakeList, StartCell, LeaveList, Answer,
        SaveAnswer, WorkerStep, Stop, Exit, Crash, MemoryLost, RepairCells, RepairRuns, vars,
        tables, loop
  <2>. QED BY <2>2, <2>3, HandlersStartNothing DEF Executing
<1>3. ASSUME proc' = "opened", NEW c \in Cells, cell'[c] = "running" PROVE ~Executing(c[1])'
  <2>1. RepairCells \/ (UNCHANGED <<run, cell>> /\ proc = "opened")
    BY <1>3
    DEF Next, Handlers, Engine, Worker, Process, CreateRun, CancelLoad, CancelCommit,
        CancelAbort, CancelSignal, RetryRead, RetryCreate, DeleteRuns, LoopPick, LoopWait,
        LoopClaim, BatchStart, Finalize, LoopClear, LoopStep, TakeList, StartCell, LeaveList,
        Answer, SaveAnswer, WorkerStep, Stop, Exit, Crash, RepairRuns, vars, tables
  <2>. QED
    BY <1>0, <1>3, <2>1 DEF RepairCells, RepairedCells, RepairedStatus, Executing, FaultInv
<1>. QED
  BY <1>0, <1>1, <1>2, <1>3 DEF FaultInv
\* What the loop and its workers may leave in the tables, with and without failed
\* operations, in every reachable state.
THEOREM FaultInvariant == Spec => []FaultInv
<1>1. TypeOK /\ LoopInv /\ HoldInv /\ FaultInv /\ [Next]_vars => FaultInv'
  BY FaultStep
<1>. QED
  BY <1>1, FaultInit, TypeCorrect, LoopInvariant, HoldInvariant, PTL DEF Spec

\* The last branch of Finalize: the batch went through to its end.
Completes ==
  /\ Finalize /\ ~failure /\ ~BatchCtxDone /\ run[batch] # "cancelling"
  /\ run' = [run EXCEPT ![batch] = IF AllCompleted(batch) THEN "completed"
                                   ELSE "completed_with_errors"]
  /\ UNCHANGED cell

\* Only a batch that went through becomes completed.
LEMMA WhoCompletes ==
  ASSUME TypeOK, LoopInv, [Next]_vars, NEW r \in Runs,
         run'[r] \in {"completed", "completed_with_errors"}
  PROVE  run[r] = run'[r] \/ (r = batch /\ Completes)
<1>1. ASSUME NEW s \in Runs, NEW x, run' = [run EXCEPT ![s] = x],
             x \notin {"completed", "completed_with_errors"}
      PROVE  run[r] = run'[r]
  BY <1>1 DEF TypeOK, TablesTyped
<1>2. ASSUME NEW items, NEW of, InsertRun(items, of) PROVE run[r] = run'[r]
  BY <1>2 DEF InsertRun, TypeOK, TablesTyped
<1>3. CASE Handlers
  <2>1. CASE CancelCommit
    BY <1>1, <2>1 DEF CancelCommit, LoopInv
  <2>2. ASSUME NEW ids \in SUBSET Runs, DeleteRuns(ids) PROVE run[r] = run'[r]
    BY <2>2 DEF DeleteRuns
  <2>. QED
    BY <1>2, <1>3, <2>1, <2>2
    DEF Handlers, CreateRun, CancelLoad, CancelAbort, CancelSignal, RetryRead, RetryCreate, tables
<1>4. CASE Engine
  <2>1. CASE Finalize
    <3>1. batch \in Runs
      BY <2>1 DEF Finalize, LoopStep, LoopInv, InBatch
    <3>2. CASE Completes
      BY <3>1, <3>2 DEF Completes, TypeOK, TablesTyped
    <3>. QED BY <1>1, <2>1, <3>1, <3>2 DEF Finalize, Completes
  <2>2. CASE LoopClaim
    BY <1>1, <2>2 DEF LoopClaim, LoopStep, LoopInv
  <2>. QED
    BY <1>4, <2>1, <2>2 DEF Engine, LoopPick, LoopWait, BatchStart, LoopClear, tables, vars
<1>5. CASE Process
  BY <1>5
  DEF Process, Stop, Exit, Crash, RepairCells, RepairRuns, RepairedRuns, RepairedStatus, tables
<1>6. ASSUME NEW w \in Workers, Worker(w) PROVE UNCHANGED run
  BY <1>6 DEF Worker, TakeList, StartCell, LeaveList, Answer, SaveAnswer, WorkerStep
<1>. QED
  BY <1>3, <1>4, <1>5, <1>6 DEF Next, vars, tables

\* A batch that went through has a verdict for every cell.
LEMMA CompletedHasVerdicts ==
  ASSUME TypeOK, LoopInv, QueueInv, HoldInv, CleanInv, Completes, NEW c \in CellsOf(batch)
  PROVE  cell[c] \in {"absent", "completed", "failed"}
<1>1. engine = "working" /\ ~WorkerCtxDone /\ AllWorkersDone /\ run[batch] = "running"
  BY DEF Completes, Finalize, LoopStep, BatchCtxDone, WorkerCtxDone, LoopInv, Executing
<1>2. cell[c] # "queued"
  BY <1>1, DoneLeavesNoneQueued
<1>3. cell[c] # "running"
  BY <1>1 DEF HoldInv, AllWorkersDone, Busy, WorkerCtxDone
<1>4. cell[c] \notin {"cancelled", "interrupted"}
  BY <1>1 DEF CleanInv, WorkingClean
<1>. QED
  BY <1>2, <1>3, <1>4 DEF TypeOK, TablesTyped, CellsOf, CellStatus

\* The cells of a run that has ended and stays.
LEMMA EndedCellsStay ==
  ASSUME TypeOK, LoopInv, QueueInv, [Next]_vars, NEW c \in Cells,
         SettledRun(c[1]), cell[c] \in {"absent", "completed", "failed"}
  PROVE  cell'[c] = cell[c] \/ run'[c[1]] = "absent"
<1>1. ~Inserted(c)
  BY EvalAssumption DEF Inserted, SettledRun, TypeOK, TablesTyped, Runs
<1>. QED
  BY <1>1, StepMovesCells DEF CellMoves, Deleted, GivenUp, Taken, Answered

LEMMA StatusOfRunsStep ==
  TypeOK /\ LoopInv /\ QueueInv /\ HoldInv /\ CleanInv /\ StatusOfRuns /\ [Next]_vars
    => StatusOfRuns'
<1> SUFFICES ASSUME TypeOK, LoopInv, QueueInv, HoldInv, CleanInv, StatusOfRuns, [Next]_vars,
                    NEW r \in Runs, run'[r] \in {"completed", "completed_with_errors"}
             PROVE  /\ run'[r] = "completed" =>
                         \A c \in CellsOf(r) : cell'[c] \in {"absent", "completed"}
                    /\ run'[r] = "completed_with_errors" =>
                         /\ \A c \in CellsOf(r) : cell'[c] \in {"absent", "completed", "failed"}
                         /\ \E c \in CellsOf(r) : cell'[c] = "failed"
  BY DEF StatusOfRuns
<1>1. CASE run'[r] = run[r]
  <2>1. SettledRun(r)
    BY <1>1, EvalAssumption DEF SettledRun, LoopInv, FreshRows, Ended, TypeOK, TablesTyped, Runs
  <2>2. \A c \in CellsOf(r) : cell[c] \in {"absent", "completed", "failed"}
    BY <1>1 DEF StatusOfRuns
  <2>3. \A c \in CellsOf(r) : cell'[c] = cell[c]
    BY <2>1, <2>2, EndedCellsStay DEF CellsOf
  <2>. QED BY <1>1, <2>3 DEF StatusOfRuns
<1>2. CASE r = batch /\ Completes
  <2>1. /\ \A c \in CellsOf(r) : cell[c] \in {"absent", "completed", "failed"}
        /\ cell' = cell
    BY <1>2, CompletedHasVerdicts DEF Completes
  <2>2. run'[r] = IF AllCompleted(r) THEN "completed" ELSE "completed_with_errors"
    BY <1>2 DEF Completes, TypeOK, TablesTyped
  <2>. QED BY <2>1, <2>2 DEF AllCompleted
<1>. QED
  BY <1>1, <1>2, WhoCompletes

\* How an executing run ends.
LEMMA HowRunsEnd ==
  ASSUME TypeOK, LoopInv, [Next]_vars, NEW r \in Runs, Executing(r), ~Executing(r)'
  PROVE  \/ RepairRuns
         \/ r = batch /\ Finalize /\ ~failure'
         \/ proc = "up" /\ engine = "stopped"
<1>1. CASE Handlers
  <2>1. ASSUME NEW items, NEW of, InsertRun(items, of) PROVE FALSE
    BY <2>1 DEF InsertRun, Executing, LoopInv, FreshRows, TypeOK, TablesTyped, Runs
  <2>2. ASSUME NEW ids \in SUBSET Runs, DeleteRuns(ids) PROVE FALSE
    BY <2>2 DEF DeleteRuns, Executing, Active
  <2>3. CASE CancelCommit
    <3>1. cancelId = r /\ r # current /\ proc = "up"
      BY <2>3 DEF CancelCommit, LoopInv, Executing, TypeOK, TablesTyped
    <3>2. engine = "stopped"
      BY <3>1 DEF LoopInv, InBatch, TypeOK, LoopTyped, EnginePc
    <3>. QED BY <3>1, <3>2
  <2>. QED
    BY <1>1, <2>1, <2>2, <2>3
    DEF Handlers, CreateRun, CancelLoad, CancelAbort, CancelSignal, RetryRead, RetryCreate,
        tables, Executing
<1>2. CASE Engine
  <2>1. CASE Finalize
    <3>1. /\ batch \in Runs
          /\ \/ UNCHANGED run
             \/ ~failure' /\ \A s \in Runs : s # batch => run'[s] = run[s]
      BY <2>1 DEF Finalize, LoopStep, LoopInv, InBatch, TypeOK, TablesTyped
    <3>. QED BY <2>1, <3>1 DEF Executing
  <2>2. CASE LoopClaim
    BY <2>2 DEF LoopClaim, LoopStep, LoopInv
  <2>. QED
    BY <1>2, <2>1, <2>2
    DEF Engine, LoopPick, LoopWait, BatchStart, LoopClear, tables, vars, Executing
<1>3. CASE Process
  BY <1>3 DEF Process, Stop, Exit, Crash, RepairCells, tables, Executing
<1>4. ASSUME NEW w \in Workers, Worker(w) PROVE FALSE
  BY <1>4 DEF Worker, TakeList, StartCell, LeaveList, Answer, SaveAnswer, WorkerStep, Executing
<1>. QED
  BY <1>1, <1>2, <1>3, <1>4 DEF Next, vars, tables, Executing

LEMMA EndedRunsSettledStep ==
  TypeOK /\ LoopInv /\ QueueInv /\ HoldInv /\ FaultInv /\ FaultInv' /\ EndedRunsSettled
    /\ [Next]_vars
  => EndedRunsSettled'
<1> SUFFICES ASSUME TypeOK, LoopInv, QueueInv, HoldInv, FaultInv, FaultInv', EndedRunsSettled,
                    [Next]_vars, faults' = 0, NEW c \in Cells, cell'[c] = "running",
                    ~Executing(c[1])'
             PROVE  FALSE
  BY DEF EndedRunsSettled, Executing
<1>1. faults = 0 /\ c[1] \in Runs
  BY FaultsGrow DEF Cells
<1>2. Executing(c[1])
  BY <1>1, StepMovesCells
  DEF EndedRunsSettled, Executing, CellMoves, Inserted, Deleted, GivenUp, Taken, Answered
<1>3. CASE RepairRuns
  BY <1>2, <1>3 DEF RepairRuns, FaultInv
<1>4. CASE c[1] = batch /\ Finalize /\ ~failure'
  <2>1. engine = "working" /\ AllWorkersDone /\ ~failure /\ c \in CellsOf(batch)
    BY <1>4 DEF Finalize, LoopStep, CellsOf
  <2>2. cell[c] # "running"
    BY <2>1 DEF HoldInv, AllWorkersDone, Busy
  <2>. QED BY <1>4, <2>2 DEF Finalize, MoveCells
<1>5. CASE proc = "up" /\ engine = "stopped"
  BY <1>1, <1>2, <1>5 DEF FaultInv
<1>. QED
  BY <1>1, <1>2, <1>3, <1>4, <1>5, HowRunsEnd

LEMMA StatusInit == Init => StatusMatchesCells
BY DEF Init, StatusMatchesCells, StatusOfRuns, EndedRunsSettled

\* A run never says more than its cells: a completed batch has a verdict for
\* every question, and unless a database operation failed a batch ends after its
\* cells (runner.go: finalisation of runBatch, cancelRun; store.go: openStore).
THEOREM StatusAgrees == Spec => []StatusMatchesCells
<1>1. TypeOK /\ LoopInv /\ QueueInv /\ HoldInv /\ CleanInv /\ FaultInv /\ FaultInv'
      /\ StatusMatchesCells /\ [Next]_vars => StatusMatchesCells'
  BY StatusOfRunsStep, EndedRunsSettledStep DEF StatusMatchesCells
<1>. QED
  BY <1>1, StatusInit, TypeCorrect, LoopInvariant, QueueInvariant, HoldInvariant, FaultInvariant,
     PTL DEF Spec

-----------------------------------------------------------------------------
(* History.                                                                *)

\* What is answered, ended or given up stays so, step by step (the guarded
\* UPDATEs of runner.go and store.go).
THEOREM HistoryIsKept == Spec => HistoryKept
<1> DEFINE Kept ==
      /\ \A c \in Cells : asked'[c] # asked[c] => cell[c] = "queued" /\ run[c[1]] = "running"
      /\ \A c \in Cells : cell[c] = "completed" =>
           cell'[c] = "completed" \/ run'[c[1]] = "absent"
      /\ \A r \in Runs : run[r] \in Ended => run'[r] \in {run[r], "absent"}
<1>1. TypeOK /\ LoopInv /\ QueueInv /\ AskInv /\ [Next]_vars => [Kept]_vars
  <2> SUFFICES ASSUME TypeOK, LoopInv, QueueInv, AskInv, [Next]_vars PROVE Kept
    OBVIOUS
  <2>1. ASSUME NEW c \in Cells, asked'[c] # asked[c]
        PROVE  cell[c] = "queued" /\ run[c[1]] = "running"
    BY <2>1, StepMovesCells DEF CellMoves, Taken, QueueInv, NothingLeftQueued, Executing
  <2>2. ASSUME NEW c \in Cells, cell[c] = "completed"
        PROVE  cell'[c] = "completed" \/ run'[c[1]] = "absent"
    <3>1. ~Inserted(c)
      BY <2>2, EvalAssumption DEF Inserted, AskInv, TypeOK, TablesTyped
    <3>. QED BY <2>2, <3>1, StepMovesCells DEF CellMoves, Deleted, GivenUp, Taken, Answered
  <2>3. ASSUME NEW r \in Runs, run[r] \in Ended PROVE run'[r] \in {run[r], "absent"}
    <3>1. SettledRun(r)
      BY <2>3, EvalAssumption DEF SettledRun, LoopInv, FreshRows, Ended, TypeOK, TablesTyped, Runs
    <3>. QED BY <3>1, SettledMoves
  <2>. QED BY <2>1, <2>2, <2>3
<1>. QED
  BY <1>1, TypeCorrect, LoopInvariant, QueueInvariant, AskInvariant, PTL DEF Spec, HistoryKept
=============================================================================
