------------------------ MODULE AgentRuntime_proofs ------------------------
(***************************************************************************)
(* Theorems about AgentRuntime, for every number of runs, attempts, days,  *)
(* handlers, every limit and every set of estimates and costs.             *)
(*                                                                         *)
(* The fence holds under all races (FenceInv).  What run, task, budget and *)
(* ledger say of each other holds as long as no request wrote over rows it *)
(* had not seen: run and task agree, and a cancel in flight has read a run *)
(* that was not over (RunInv); a period has reserved what its runs hold,   *)
(* and a cancel that read a queued run has the reservation the run still   *)
(* has (BudgetInv); the periods were charged what the runs paid, and a run *)
(* that was settled is over (SpendInv).                                    *)
(*                                                                         *)
(* A step changes one row, so both sums change by the difference of that   *)
(* row.  This is the section on sums: a sum over a finite set is the one   *)
(* the library's fold computes, which is shown by looking at a smallest    *)
(* set for which it is not.                                                *)
(***************************************************************************)
EXTENDS AgentRuntime, FiniteSetTheorems, TLAPS

USE DEF Runs, Periods

\* The rows the actions write have the types of their tables.
LEMMA RowTypes ==
  /\ AbsentRun \in RunRow
  /\ AbsentTask \in TaskRow
  /\ Idle \in Op
  /\ \A kind \in OpKind, ids \in SUBSET Runs : Holding(kind, ids) \in Op
  /\ \A row \in LedgerRow, cost \in Nat :
       Settled(row, cost) \in LedgerRow /\ Failing(row, cost) \in LedgerRow
  /\ \A row \in TaskRow : RequeuedTask(row) \in TaskRow
  /\ \A row \in RunRow : Cancelled(row) \in RunRow
<1>1. AbsentRun \in RunRow
  BY RunsAssumption DEF AbsentRun, RunRow, RunStatus
<1>2. AbsentTask \in TaskRow
  BY AttemptsAssumption DEF AbsentTask, TaskRow, TaskStatus
<1>3. \A kind \in OpKind, ids \in SUBSET Runs : Holding(kind, ids) \in Op
  BY <1>1, RunsAssumption, AttemptsAssumption DEF Holding, Op, OpKind
<1>4. Idle \in Op
  BY <1>3 DEF Idle, OpKind
<1>5. \A row \in LedgerRow, cost \in Nat :
        Settled(row, cost) \in LedgerRow /\ Failing(row, cost) \in LedgerRow
  BY DEF Settled, Failing, LedgerRow
<1>6. \A row \in TaskRow : RequeuedTask(row) \in TaskRow
  BY AttemptsAssumption DEF RequeuedTask, TaskRow, TaskStatus
<1>7. \A row \in RunRow : Cancelled(row) \in RunRow
  BY DEF Cancelled, RunRow, RunStatus
<1> QED
  BY <1>1, <1>2, <1>3, <1>4, <1>5, <1>6, <1>7

\* An admission writes a run row.
LEMMA AdmittedType ==
  ASSUME TypeOK, NEW status \in RunStatus, NEW e \in Nat
  PROVE  Admitted(status, e) \in RunRow
BY DEF TypeOK, Admitted, RunRow

\* What a handler keeps of its SELECT is an operation.
LEMMA SeenType ==
  ASSUME TypeOK, NEW kind \in OpKind, NEW r \in Runs, NEW k \in 0..MaxAttempts
  PROVE  Seen(kind, r, k) \in Op
BY RunsAssumption, AttemptsAssumption DEF TypeOK, Seen, Op, TaskRow

LEMMA TypeInit == Init => TypeOK
<1> SUFFICES ASSUME Init PROVE TypeOK
  OBVIOUS
<1>1. day \in Periods /\ reserved \in [Periods -> Int] /\ spent \in [Periods -> Nat]
  BY RunsAssumption DEF Init
<1>2. run \in [Runs -> RunRow] /\ task \in [Runs -> TaskRow]
  BY RowTypes DEF Init
<1>3. attempt \in [Runs -> [1..MaxAttempts -> AttemptStatus]]
  BY DEF Init, AttemptStatus
<1>4. ledger \in [Runs -> LedgerRow]
  BY DEF Init, LedgerRow
<1>5. worker \in [Runs -> [1..MaxAttempts -> WorkerPhase]]
  BY DEF Init, WorkerPhase
<1>6. op \in [Handlers -> Op] /\ torn \in BOOLEAN
  BY RowTypes DEF Init
<1> QED
  BY <1>1, <1>2, <1>3, <1>4, <1>5, <1>6 DEF TypeOK

-----------------------------------------------------------------------------
(* Types, action by action *)

LEMMA TypeCreate ==
  ASSUME TypeOK, NEW r \in Runs, CreateAgentRun(r)
  PROVE  TypeOK'
<1>1. PICK e \in Estimates :
        \/ /\ reserved' = [reserved EXCEPT ![day] = @ + e]
           /\ run' = [run EXCEPT ![r] = Admitted("queued", e)]
           /\ InsertAgentTask(r)
        \/ /\ run' = [run EXCEPT ![r] = Admitted("budget_blocked", 0)]
           /\ UNCHANGED <<reserved, task>>
  BY DEF CreateAgentRun
<1>2. e \in Nat
  BY BudgetAssumption
<1>3. reserved' \in [Periods -> Int]
  BY <1>1, <1>2 DEF TypeOK
<1>4. run' \in [Runs -> RunRow]
  BY <1>1, <1>2, AdmittedType DEF TypeOK, RunStatus
<1>5. task' \in [Runs -> TaskRow]
  BY <1>1 DEF TypeOK, InsertAgentTask, TaskRow, TaskStatus
<1> QED
  BY <1>3, <1>4, <1>5 DEF TypeOK, CreateAgentRun

LEMMA TypeRelease ==
  ASSUME TypeOK, NEW h \in Handlers, BeginRelease(h) \/ ReleaseCommit(h)
  PROVE  TypeOK'
<1>1. CASE BeginRelease(h)
  <2>1. Holding("release", {r \in Runs : run[r].status = "budget_blocked"}) \in Op
    BY RowTypes DEF OpKind
  <2> QED
    BY <1>1, <2>1 DEF TypeOK, BeginRelease, budgetVars, rowVars
<1>2. CASE ReleaseCommit(h)
  <2>1. PICK r \in op[h].ids, e \in Estimates :
          \/ /\ reserved' = [reserved EXCEPT ![day] = @ + e]
             /\ QueueReleased(r, e)
             /\ InsertAgentTask(r)
             /\ op' = [op EXCEPT ![h] = IF op[h].ids = {r} THEN Idle
                                        ELSE Holding("release", op[h].ids \ {r})]
             /\ torn' = (torn \/ run[r].status # "budget_blocked")
          \/ /\ op' = [op EXCEPT ![h] = Idle]
             /\ UNCHANGED <<reserved, run, task, torn>>
    BY <1>2 DEF ReleaseCommit
  <2>2. r \in Runs /\ e \in Nat
    BY BudgetAssumption DEF TypeOK, Op
  <2>3. reserved' \in [Periods -> Int]
    BY <2>1, <2>2 DEF TypeOK
  <2>4. run' \in [Runs -> RunRow]
    BY <2>1, <2>2, AdmittedType DEF TypeOK, QueueReleased, RunStatus
  <2>5. task' \in [Runs -> TaskRow]
    BY <2>1, <2>2 DEF TypeOK, InsertAgentTask, TaskRow, TaskStatus
  <2>6. op' \in [Handlers -> Op]
    <3>1. Holding("release", op[h].ids \ {r}) \in Op
      BY RowTypes DEF TypeOK, Op, OpKind
    <3> QED
      BY <2>1, <3>1, RowTypes DEF TypeOK
  <2>7. torn' \in BOOLEAN
    BY <2>1 DEF TypeOK
  <2> QED
    BY <1>2, <2>3, <2>4, <2>5, <2>6, <2>7 DEF TypeOK, ReleaseCommit
<1> QED
  BY <1>1, <1>2

LEMMA TypeClaim ==
  ASSUME TypeOK, NEW h \in Handlers, NEW r \in Runs,
         ExpireExhausted(h, r) \/ NothingExhausted(h) \/ ClaimTask(h, r)
  PROVE  TypeOK'
<1>1. Holding("claim", {}) \in Op /\ Idle \in Op
  BY RowTypes DEF OpKind
<1>5. \A k \in 1..MaxAttempts : attempt[r][k] \in AttemptStatus
  BY DEF TypeOK
<1>2. CASE ExpireExhausted(h, r)
  <2>1. task' \in [Runs -> TaskRow]
    BY <1>2 DEF ExpireExhausted, TypeOK, TaskRow, TaskStatus
  <2>2. attempt' \in [Runs -> [1..MaxAttempts -> AttemptStatus]]
    <3>1. ExpiredAttempts(r) \in [1..MaxAttempts -> AttemptStatus]
      BY <1>5 DEF ExpiredAttempts, AttemptStatus
    <3> QED
      BY <1>2, <3>1 DEF ExpireExhausted, TypeOK
  <2>3. run' \in [Runs -> RunRow]
    BY <1>2 DEF ExpireExhausted, TypeOK, RunRow, RunStatus
  <2>4. run[r].period \in Periods /\ run[r].reservation \in Nat
    BY DEF TypeOK, RunRow
  <2>5. reserved' \in [Periods -> Int]
    BY <1>2, <2>4 DEF ExpireExhausted, TypeOK
  <2> QED
    BY <1>1, <1>2, <2>1, <2>2, <2>3, <2>5 DEF ExpireExhausted, TypeOK
<1>3. CASE NothingExhausted(h)
  BY <1>1, <1>3 DEF NothingExhausted, TypeOK, budgetVars, rowVars
<1>4. CASE ClaimTask(h, r)
  <2> DEFINE f == task[r].attempts + 1
  <2>1. f \in 1..MaxAttempts
    BY <1>4, AttemptsAssumption DEF ClaimTask, Claimable, TypeOK, TaskRow
  <2>2. task' \in [Runs -> TaskRow]
    BY <1>4, <2>1 DEF ClaimTask, TypeOK, TaskRow, TaskStatus
  <2>3. ClaimedAttempts(r, f) \in [1..MaxAttempts -> AttemptStatus]
    BY <1>5 DEF ClaimedAttempts, AttemptStatus
  <2>4. attempt' \in [Runs -> [1..MaxAttempts -> AttemptStatus]]
    BY <1>4, <2>3 DEF ClaimTask, TypeOK
  <2>5. run' \in [Runs -> RunRow]
    BY <1>4 DEF ClaimTask, TypeOK, RunRow, RunStatus
  <2>6. worker' \in [Runs -> [1..MaxAttempts -> WorkerPhase]]
    BY <1>4, <2>1 DEF ClaimTask, TypeOK, WorkerPhase
  <2> QED
    BY <1>1, <1>4, <2>2, <2>4, <2>5, <2>6 DEF ClaimTask, TypeOK, budgetVars
<1> QED
  BY <1>2, <1>3, <1>4

LEMMA TypeLease ==
  ASSUME TypeOK, NEW r \in Runs, NEW k \in 1..MaxAttempts,
         Heartbeat(r) \/ WorkerGone(r, k) \/ LeaseExpires(r)
  PROVE  TypeOK'
<1>1. CASE Heartbeat(r)
  BY <1>1 DEF Heartbeat, TypeOK, TaskRow, budgetVars
<1>2. CASE WorkerGone(r, k)
  BY <1>2 DEF WorkerGone, TypeOK, WorkerPhase, budgetVars, rowVars
<1>3. CASE LeaseExpires(r)
  BY <1>3 DEF LeaseExpires, TypeOK, TaskRow, budgetVars
<1> QED
  BY <1>1, <1>2, <1>3

LEMMA TypeBegin ==
  ASSUME TypeOK, NEW h \in Handlers, NEW r \in Runs, NEW k \in 1..MaxAttempts,
         BeginComplete(h, r, k) \/ BeginFail(h, r, k) \/ BeginCancel(h, r)
  PROVE  TypeOK'
<1>1. Seen("complete", r, k) \in Op /\ Seen("fail", r, k) \in Op
  BY SeenType, AttemptsAssumption DEF OpKind
<1>2. Seen("cancel", r, 0) \in Op
  BY SeenType, AttemptsAssumption DEF OpKind
<1>3. CASE BeginComplete(h, r, k)
  BY <1>1, <1>3 DEF BeginComplete, TypeOK, WorkerPhase, budgetVars, rowVars
<1>4. CASE BeginFail(h, r, k)
  BY <1>1, <1>4 DEF BeginFail, TypeOK, WorkerPhase, budgetVars, rowVars
<1>5. CASE BeginCancel(h, r)
  BY <1>2, <1>5 DEF BeginCancel, TypeOK, budgetVars, rowVars
<1> QED
  BY <1>3, <1>4, <1>5

\* What CompleteCommit and FailCommit share: the rows a settlement of o touches.
LEMMA SettlementTypes ==
  ASSUME TypeOK, NEW o \in Op
  PROVE  /\ \A cost \in Nat :
              [spent EXCEPT ![o.saw.period] = @ + cost] \in [Periods -> Nat]
         /\ [reserved EXCEPT ![o.saw.period] = @ - o.saw.reservation] \in [Periods -> Int]
         /\ \A s \in AttemptStatus :
              [attempt EXCEPT ![o.run][o.fence] = s]
                \in [Runs -> [1..MaxAttempts -> AttemptStatus]]
         /\ \A s \in RunStatus : [run EXCEPT ![o.run].status = s] \in [Runs -> RunRow]
         /\ \A s \in TaskStatus :
              [task EXCEPT ![o.run] = [task[o.run] EXCEPT !.status = s]] \in [Runs -> TaskRow]
         /\ [task EXCEPT ![o.run] = RequeuedTask(task[o.run])] \in [Runs -> TaskRow]
         /\ [run EXCEPT ![o.run] = Cancelled(run[o.run])] \in [Runs -> RunRow]
         /\ \A cost \in Nat :
              /\ [ledger EXCEPT ![o.run] = Settled(ledger[o.run], cost)] \in [Runs -> LedgerRow]
              /\ [ledger EXCEPT ![o.run] = Failing(ledger[o.run], cost)] \in [Runs -> LedgerRow]
              /\ [ledger EXCEPT ![o.run] = Settled(Failing(ledger[o.run], cost), 0)]
                   \in [Runs -> LedgerRow]
<1>1. o.saw.period \in Periods /\ o.saw.reservation \in Nat
  BY DEF Op, RunRow
<1>2. \A cost \in Nat : [spent EXCEPT ![o.saw.period] = @ + cost] \in [Periods -> Nat]
  BY <1>1 DEF TypeOK
<1>3. [reserved EXCEPT ![o.saw.period] = @ - o.saw.reservation] \in [Periods -> Int]
  BY <1>1 DEF TypeOK
<1>4. \A s \in AttemptStatus :
        [attempt EXCEPT ![o.run][o.fence] = s] \in [Runs -> [1..MaxAttempts -> AttemptStatus]]
  BY DEF TypeOK
<1>5. \A s \in RunStatus : [run EXCEPT ![o.run].status = s] \in [Runs -> RunRow]
  BY DEF TypeOK, RunRow
<1>6. \A s \in TaskStatus :
        [task EXCEPT ![o.run] = [task[o.run] EXCEPT !.status = s]] \in [Runs -> TaskRow]
  BY DEF TypeOK, TaskRow
<1>7. [task EXCEPT ![o.run] = RequeuedTask(task[o.run])] \in [Runs -> TaskRow]
  BY RowTypes DEF TypeOK
<1>8. [run EXCEPT ![o.run] = Cancelled(run[o.run])] \in [Runs -> RunRow]
  BY RowTypes DEF TypeOK
<1>9. ASSUME NEW cost \in Nat
      PROVE  /\ [ledger EXCEPT ![o.run] = Settled(ledger[o.run], cost)] \in [Runs -> LedgerRow]
             /\ [ledger EXCEPT ![o.run] = Failing(ledger[o.run], cost)] \in [Runs -> LedgerRow]
             /\ [ledger EXCEPT ![o.run] = Settled(Failing(ledger[o.run], cost), 0)]
                  \in [Runs -> LedgerRow]
  <2>1. \A row \in LedgerRow : /\ Settled(row, cost) \in LedgerRow
                               /\ Failing(row, cost) \in LedgerRow
                               /\ Settled(Failing(row, cost), 0) \in LedgerRow
    BY RowTypes
  <2> QED
    BY <2>1 DEF TypeOK
<1> QED
  BY <1>2, <1>3, <1>4, <1>5, <1>6, <1>7, <1>8, <1>9

LEMMA TypeComplete ==
  ASSUME TypeOK, NEW h \in Handlers, CompleteCommit(h)
  PROVE  TypeOK'
<1> DEFINE o == op[h]
<1>1. o \in Op
  BY DEF TypeOK
<1>2. Costs \subseteq Nat
  BY BudgetAssumption
<1>3. PICK cost \in Costs :
        /\ spent' = [spent EXCEPT ![o.saw.period] = @ + cost]
        /\ ledger' = [ledger EXCEPT ![o.run] = Settled(ledger[o.run], cost)]
  BY DEF CompleteCommit
<1>4. spent' \in [Periods -> Nat] /\ ledger' \in [Runs -> LedgerRow]
  BY <1>1, <1>2, <1>3, SettlementTypes
<1>5. attempt' \in [Runs -> [1..MaxAttempts -> AttemptStatus]]
  BY <1>1, SettlementTypes DEF CompleteCommit, FinishAttempt, AttemptStatus
<1>6. run' \in [Runs -> RunRow]
  BY <1>1, SettlementTypes DEF CompleteCommit, RunStatus
<1>7. task' \in [Runs -> TaskRow]
  <2>1. [task EXCEPT ![o.run] = [task[o.run] EXCEPT !.status = "completed"]] \in [Runs -> TaskRow]
    BY <1>1, SettlementTypes DEF TaskStatus
  <2> QED
    BY <2>1 DEF CompleteCommit, UpdateFencedTask, TypeOK
<1>8. reserved' \in [Periods -> Int]
  BY <1>1, SettlementTypes DEF CompleteCommit, ReleaseReservation
<1>9. op' \in [Handlers -> Op] /\ torn' \in BOOLEAN
  BY RowTypes DEF CompleteCommit, TypeOK
<1> QED
  BY <1>4, <1>5, <1>6, <1>7, <1>8, <1>9 DEF CompleteCommit, TypeOK

LEMMA TypeFail ==
  ASSUME TypeOK, NEW h \in Handlers, FailCommit(h)
  PROVE  TypeOK'
<1> DEFINE o == op[h]
<1>1. o \in Op
  BY DEF TypeOK
<1>2. Costs \subseteq Nat
  BY BudgetAssumption
<1>3. PICK cost \in Costs :
        /\ spent' = [spent EXCEPT ![o.saw.period] = @ + cost]
        /\ FailRetry(o, cost) \/ FailTerminal(o, cost)
  BY DEF FailCommit
<1>4. spent' \in [Periods -> Nat]
  BY <1>1, <1>2, <1>3, SettlementTypes
<1>5. attempt' \in [Runs -> [1..MaxAttempts -> AttemptStatus]]
  BY <1>1, SettlementTypes DEF FailCommit, FinishAttempt, AttemptStatus
<1>6. /\ run' \in [Runs -> RunRow] /\ task' \in [Runs -> TaskRow]
      /\ ledger' \in [Runs -> LedgerRow] /\ reserved' \in [Periods -> Int]
  <2>1. CASE FailRetry(o, cost)
    <3>1. run' \in [Runs -> RunRow]
      BY <1>1, <2>1, SettlementTypes DEF FailRetry, RunStatus
    <3>2. task' \in [Runs -> TaskRow]
      BY <1>1, <2>1, SettlementTypes DEF FailRetry, UpdateFencedTask, TypeOK
    <3>3. ledger' \in [Runs -> LedgerRow]
      BY <1>1, <1>2, <2>1, SettlementTypes DEF FailRetry
    <3> QED
      BY <2>1, <3>1, <3>2, <3>3 DEF FailRetry, TypeOK
  <2>2. CASE FailTerminal(o, cost)
    <3> DEFINE status == IF o.saw.cancelRequested THEN "cancelled" ELSE "failed"
    <3>1. status \in RunStatus /\ status \in TaskStatus
      BY DEF RunStatus, TaskStatus
    <3>2. run' = [run EXCEPT ![o.run].status = status]
      BY <2>2 DEF FailTerminal
    <3>3. run' \in [Runs -> RunRow]
      BY <1>1, <3>1, <3>2, SettlementTypes
    <3>4. UpdateFencedTask(o, [task[o.run] EXCEPT !.status = status])
      BY <2>2 DEF FailTerminal
    <3>5. task' \in [Runs -> TaskRow]
      <4>1. [task EXCEPT ![o.run] = [task[o.run] EXCEPT !.status = status]] \in [Runs -> TaskRow]
        BY <1>1, <3>1, SettlementTypes
      <4> QED
        BY <3>4, <4>1 DEF UpdateFencedTask, TypeOK
    <3>6. ledger' \in [Runs -> LedgerRow]
      BY <1>1, <1>2, <2>2, SettlementTypes DEF FailTerminal
    <3>7. reserved' \in [Periods -> Int]
      BY <1>1, <2>2, SettlementTypes DEF FailTerminal, ReleaseReservation
    <3> QED
      BY <3>3, <3>5, <3>6, <3>7
  <2> QED
    BY <1>3, <2>1, <2>2
<1>7. op' \in [Handlers -> Op] /\ torn' \in BOOLEAN
  BY RowTypes DEF FailCommit, TypeOK
<1> QED
  BY <1>4, <1>5, <1>6, <1>7 DEF FailCommit, TypeOK

LEMMA TypeCancel ==
  ASSUME TypeOK, NEW h \in Handlers, RequestCancel(h) \/ CancelCommit(h)
  PROVE  TypeOK'
<1> DEFINE o == op[h]
<1>1. o \in Op /\ Idle \in Op
  BY RowTypes DEF TypeOK
<1>2. CASE RequestCancel(h)
  <2>1. run' \in [Runs -> RunRow]
    BY <1>2 DEF RequestCancel, TypeOK, RunRow
  <2> QED
    BY <1>1, <1>2, <2>1 DEF RequestCancel, TypeOK, budgetVars
<1>3. CASE CancelCommit(h)
  <2>1. run' \in [Runs -> RunRow]
    BY <1>1, <1>3, SettlementTypes DEF CancelCommit
  <2>2. task' \in [Runs -> TaskRow]
    BY ZenonT(60), <1>3 DEF CancelCommit, CancelTask, TypeOK, TaskRow, TaskStatus
  <2>3. reserved' \in [Periods -> Int]
    BY <1>1, <1>3, SettlementTypes DEF CancelCommit, ReleaseReservation
  <2> QED
    BY <1>1, <1>3, <2>1, <2>2, <2>3 DEF CancelCommit, TypeOK
<1> QED
  BY <1>2, <1>3

-----------------------------------------------------------------------------
(* Type correctness *)

LEMMA TypeStep == TypeOK /\ [Next]_vars => TypeOK'
<1> SUFFICES ASSUME TypeOK, [Next]_vars PROVE TypeOK'
  OBVIOUS
<1>1. CASE UNCHANGED vars
  BY <1>1 DEF vars, TypeOK
<1>2. ASSUME NEW r \in Runs,
             \/ CreateAgentRun(r) \/ Heartbeat(r) \/ LeaseExpires(r)
             \/ \E k \in 1..MaxAttempts : WorkerGone(r, k)
      PROVE  TypeOK'
  <2>1. 1 \in 1..MaxAttempts
    BY AttemptsAssumption
  <2> QED
    BY <1>2, <2>1, TypeCreate, TypeLease
<1>3. ASSUME NEW h \in Handlers, NothingExhausted(h)
      PROVE  TypeOK'
  BY <1>3, RowTypes DEF NothingExhausted, TypeOK, budgetVars, rowVars, OpKind
<1>4. ASSUME NEW h \in Handlers, BeginRelease(h) \/ Commit(h)
      PROVE  TypeOK'
  BY <1>4, TypeRelease, TypeComplete, TypeFail, TypeCancel DEF Commit
<1>5. ASSUME NEW h \in Handlers, Rollback(h)
      PROVE  TypeOK'
  BY <1>5, RowTypes DEF Rollback, TypeOK, budgetVars, rowVars
<1>6. ASSUME NEW h \in Handlers, NEW r \in Runs, Handle(h, r)
      PROVE  TypeOK'
  <2>1. 1 \in 1..MaxAttempts
    BY AttemptsAssumption
  <2> QED
    BY <1>6, <2>1, TypeClaim, TypeBegin DEF Handle
<1>7. CASE NextDay
  BY <1>7, RunsAssumption DEF NextDay, TypeOK, budgetVars, rowVars
<1> QED
  BY <1>1, <1>2, <1>3, <1>4, <1>5, <1>6, <1>7 DEF Next

\* Every reachable state is well typed: in particular no attempt number ever
\* passes max_attempts (ClaimAgentRuntimeTask) and spending is never negative.
THEOREM TypeCorrect == Spec => []TypeOK
<1>1. Init => TypeOK
  BY TypeInit
<1>2. TypeOK /\ [Next]_vars => TypeOK'
  BY TypeStep
<1> QED
  BY <1>1, <1>2, PTL DEF Spec

-----------------------------------------------------------------------------
(* The fence *)

LEMMA FenceInit == Init => FenceInv
<1> SUFFICES ASSUME Init PROVE FenceInv
  OBVIOUS
<1>1. TypeOK
  BY TypeInit
<1>2. \A r \in Runs : RunFenced(r)
  BY DEF Init, AbsentTask, RunFenced
<1>3. \A h \in Handlers : OpNames(h)
  BY DEF Init, Idle, Holding, OpNames
<1> QED
  BY <1>1, <1>2, <1>3 DEF FenceInv

\* A step that keeps every run fenced, every attempts counter at least as high
\* and starts no settlement keeps the invariant.
LEMMA FenceFrame ==
  ASSUME FenceInv, TypeOK',
         \A r \in Runs : RunFenced(r)' /\ task'[r].attempts >= task[r].attempts,
         \A h \in Handlers :
           \/ op'[h] = op[h]
           \/ op'[h].kind \notin {"complete", "fail"}
           \/ OpNames(h)'
  PROVE  FenceInv'
<1>1. ASSUME NEW h \in Handlers PROVE OpNames(h)'
  <2>1. \A r \in Runs : task[r].attempts \in Nat /\ task'[r].attempts \in Nat
    BY DEF FenceInv, TypeOK, TaskRow
  <2>2. CASE op'[h] = op[h]
    BY <2>1, <2>2 DEF FenceInv, OpNames
  <2>3. CASE op'[h].kind \notin {"complete", "fail"}
    BY <2>3 DEF OpNames
  <2> QED
    BY <2>2, <2>3
<1> QED
  BY <1>1 DEF FenceInv

LEMMA FenceUnchanged ==
  ASSUME FenceInv, UNCHANGED <<task, attempt>>
  PROVE  \A s \in Runs : RunFenced(s)' /\ task'[s].attempts >= task[s].attempts
BY DEF FenceInv, TypeOK, TaskRow, RunFenced

\* Queueing a task that did not exist gives it no fence.
LEMMA FenceInsert ==
  ASSUME FenceInv, NEW r \in Runs, InsertAgentTask(r), UNCHANGED attempt
  PROVE  \A s \in Runs : RunFenced(s)' /\ task'[s].attempts >= task[s].attempts
BY DEF FenceInv, TypeOK, InsertAgentTask, RunFenced, TaskRow

LEMMA FenceCreate ==
  ASSUME FenceInv, NEW r \in Runs, CreateAgentRun(r)
  PROVE  FenceInv'
<1>1. TypeOK'
  BY TypeCreate DEF FenceInv
<1>2. UNCHANGED <<attempt, op>> /\ (InsertAgentTask(r) \/ UNCHANGED task)
  BY DEF CreateAgentRun
<1>3. \A s \in Runs : RunFenced(s)' /\ task'[s].attempts >= task[s].attempts
  BY <1>2, FenceInsert, FenceUnchanged
<1> QED
  BY <1>1, <1>2, <1>3, FenceFrame

LEMMA FenceRelease ==
  ASSUME FenceInv, NEW h \in Handlers, BeginRelease(h) \/ ReleaseCommit(h)
  PROVE  FenceInv'
<1>1. TypeOK'
  BY TypeRelease DEF FenceInv
<1>2. /\ UNCHANGED attempt
      /\ UNCHANGED task \/ \E r \in Runs : InsertAgentTask(r)
  BY DEF BeginRelease, ReleaseCommit, rowVars, FenceInv, TypeOK, Op
<1>3. \A s \in Runs : RunFenced(s)' /\ task'[s].attempts >= task[s].attempts
  BY <1>2, FenceInsert, FenceUnchanged
<1>4. \A g \in Handlers : op'[g] = op[g] \/ op'[g].kind \notin {"complete", "fail"}
  BY DEF BeginRelease, ReleaseCommit, Holding, Idle, FenceInv, TypeOK
<1> QED
  BY <1>1, <1>3, <1>4, FenceFrame

LEMMA FenceClaim ==
  ASSUME FenceInv, NEW h \in Handlers, NEW r \in Runs,
         ExpireExhausted(h, r) \/ ClaimTask(h, r)
  PROVE  FenceInv'
<1>1. TypeOK'
  BY TypeClaim DEF FenceInv
<1>2. \A g \in Handlers : op'[g] = op[g] \/ op'[g].kind \notin {"complete", "fail"}
  <2>1. \E new \in {Holding("claim", {}), Idle} : op' = [op EXCEPT ![h] = new]
    BY DEF ExpireExhausted, ClaimTask
  <2>2. \A new \in {Holding("claim", {}), Idle} : new.kind \notin {"complete", "fail"}
    BY DEF Holding, Idle
  <2> QED
    BY <2>1, <2>2 DEF FenceInv, TypeOK
<1>3. \A s \in Runs \ {r} : task'[s] = task[s] /\ attempt'[s] = attempt[s]
  BY DEF ExpireExhausted, ClaimTask, FenceInv, TypeOK
<1>4. \A s \in Runs \ {r} : RunFenced(s)' /\ task'[s].attempts >= task[s].attempts
  BY <1>3 DEF FenceInv, TypeOK, TaskRow, RunFenced
<1>5. RunFenced(r)' /\ task'[r].attempts >= task[r].attempts
  <2>1. CASE ExpireExhausted(h, r)
    <3>1. task'[r] = [task[r] EXCEPT !.status = "failed"]
      BY <2>1 DEF ExpireExhausted, FenceInv, TypeOK
    <3>2. attempt'[r] = ExpiredAttempts(r)
      BY <2>1 DEF ExpireExhausted, FenceInv, TypeOK
    <3> QED
      BY <3>1, <3>2 DEF ExpiredAttempts, FenceInv, TypeOK, TaskRow, RunFenced
  <2>2. CASE ClaimTask(h, r)
    <3> DEFINE f == task[r].attempts + 1
    <3>1. task'[r] = [status |-> "running", attempts |-> f, fence |-> f, expired |-> FALSE]
      BY <2>2 DEF ClaimTask, FenceInv, TypeOK
    <3>2. attempt'[r] = ClaimedAttempts(r, f)
      BY <2>2 DEF ClaimTask, FenceInv, TypeOK
    <3>3. task[r].status # "running" => \A k \in 1..MaxAttempts : attempt[r][k] # "running"
      BY <2>2 DEF ClaimTask, Claimable, FenceInv, RunFenced
    <3>4. task[r].attempts \in Nat
      BY DEF FenceInv, TypeOK, TaskRow
    <3>5. \A k \in 1..MaxAttempts :
            /\ attempt'[r][k] = "running" => k = f
            /\ k > f => attempt'[r][k] = "absent"
      BY <3>2, <3>3, <3>4 DEF ClaimedAttempts, FenceInv, RunFenced
    <3> QED
      BY <3>1, <3>4, <3>5 DEF RunFenced
  <2> QED
    BY <2>1, <2>2
<1> QED
  BY <1>1, <1>2, <1>4, <1>5, FenceFrame

LEMMA FenceBegin ==
  ASSUME FenceInv, NEW h \in Handlers, NEW r \in Runs, NEW k \in 1..MaxAttempts,
         BeginComplete(h, r, k) \/ BeginFail(h, r, k)
  PROVE  FenceInv'
<1>1. TypeOK'
  BY TypeBegin DEF FenceInv
<1>2. UNCHANGED <<task, attempt>>
  BY DEF BeginComplete, BeginFail, rowVars
<1>3. \A s \in Runs : RunFenced(s)' /\ task'[s].attempts >= task[s].attempts
  BY <1>2, FenceUnchanged
<1>4. k \in 1..task[r].attempts
  BY DEF BeginComplete, BeginFail, FenceInv, TypeOK, TaskRow, RunFenced
<1>5. \A g \in Handlers \ {h} : op'[g] = op[g]
  BY DEF BeginComplete, BeginFail, FenceInv, TypeOK
<1>6. op'[h].run = r /\ op'[h].fence = k
  BY DEF BeginComplete, BeginFail, Seen, FenceInv, TypeOK
<1>7. OpNames(h)'
  BY <1>2, <1>4, <1>6 DEF OpNames
<1> QED
  BY <1>1, <1>3, <1>5, <1>7, FenceFrame

\* A settlement ends the attempt it names, so the task may keep its fence or, if
\* it is the one the settlement carries, give it up.
LEMMA FenceSettle ==
  ASSUME FenceInv, TypeOK', NEW h \in Handlers,
         op[h].kind \in {"complete", "fail"},
         op' = [op EXCEPT ![h] = Idle],
         NEW status \in {"completed", "failed"}, FinishAttempt(op[h], status),
         NEW row \in TaskRow, UpdateFencedTask(op[h], row),
         row.attempts = task[op[h].run].attempts,
         \/ row.status = "queued" /\ row.fence = 0
         \/ row.status \in Terminal /\ row.fence = task[op[h].run].fence
  PROVE  FenceInv'
<1>1. PICK r \in Runs, k \in 1..MaxAttempts :
        r = op[h].run /\ k = op[h].fence /\ k <= task[r].attempts
  <2>1. op[h].run \in Runs /\ op[h].fence \in 1..task[op[h].run].attempts
    BY DEF FenceInv, OpNames
  <2>2. task[op[h].run].attempts \in 0..MaxAttempts
    BY <2>1 DEF FenceInv, TypeOK, TaskRow
  <2> QED
    BY <2>1, <2>2, AttemptsAssumption
<1>2. \A g \in Handlers : op'[g] = op[g] \/ op'[g].kind \notin {"complete", "fail"}
  BY DEF Idle, Holding, FenceInv, TypeOK
<1>3. \A i \in Runs \ {r} : task'[i] = task[i] /\ attempt'[i] = attempt[i]
  BY <1>1 DEF UpdateFencedTask, FinishAttempt, FenceInv, TypeOK
<1>4. \A i \in Runs \ {r} : RunFenced(i)' /\ task'[i].attempts >= task[i].attempts
  BY SMTT(60), <1>3 DEF FenceInv, TypeOK, TaskRow, RunFenced
<1>5. /\ attempt'[r][k] = status
      /\ \A j \in 1..MaxAttempts \ {k} : attempt'[r][j] = attempt[r][j]
  BY <1>1 DEF FinishAttempt, FenceInv, TypeOK
<1>6. /\ task'[r].attempts = task[r].attempts
      /\ \/ task'[r] = task[r]
         \/ task'[r].status \in Terminal /\ task'[r].fence = task[r].fence
         \/ task[r].fence = k /\ task'[r].fence = 0
  BY <1>1 DEF UpdateFencedTask, FenceInv, TypeOK
<1>7. RunFenced(r)
  BY <1>1 DEF FenceInv
<1>8. task[r].attempts \in Nat
  BY <1>1 DEF FenceInv, TypeOK, TaskRow
<1>9. RunFenced(r)'
  <2>1. task'[r].status \in {"absent", "queued"} => task'[r].fence = 0
    BY <1>6, <1>7 DEF RunFenced, Terminal
  <2>2. ASSUME NEW j \in 1..MaxAttempts, attempt'[r][j] = "running"
        PROVE  task'[r].fence = j /\ task'[r].attempts = j
    <3>1. j # k /\ attempt[r][j] = "running"
      BY <1>5, <2>2
    <3>2. task[r].fence = j /\ task[r].attempts = j
      BY <1>7, <3>1 DEF RunFenced
    <3> QED
      BY <1>6, <3>1, <3>2
  <2>3. ASSUME NEW j \in 1..MaxAttempts, j > task'[r].attempts
        PROVE  attempt'[r][j] = "absent"
    <3>1. j # k /\ j > task[r].attempts
      BY <1>1, <1>6, <1>8, <2>3, AttemptsAssumption
    <3> QED
      BY <1>5, <1>7, <3>1 DEF RunFenced
  <2> QED
    BY <2>1, <2>2, <2>3 DEF RunFenced
<1>10. \A i \in Runs : RunFenced(i)' /\ task'[i].attempts >= task[i].attempts
  BY <1>4, <1>6, <1>8, <1>9
<1> QED
  BY <1>2, <1>10, FenceFrame

LEMMA FenceComplete ==
  ASSUME FenceInv, NEW h \in Handlers, CompleteCommit(h)
  PROVE  FenceInv'
<1> DEFINE row == [task[op[h].run] EXCEPT !.status = "completed"]
<1>1. TypeOK'
  BY TypeComplete DEF FenceInv
<1>2. /\ op[h].kind = "complete" /\ op' = [op EXCEPT ![h] = Idle]
      /\ FinishAttempt(op[h], "completed")
      /\ UpdateFencedTask(op[h], row)
  BY DEF CompleteCommit
<1>3. task[op[h].run] \in TaskRow
  BY <1>2 DEF FenceInv, OpNames, TypeOK
<1>4. /\ row \in TaskRow /\ row.status \in Terminal
      /\ row.attempts = task[op[h].run].attempts /\ row.fence = task[op[h].run].fence
  BY <1>3 DEF TaskRow, TaskStatus, Terminal
<1> QED
  BY <1>1, <1>2, <1>4, FenceSettle

LEMMA FenceFail ==
  ASSUME FenceInv, NEW h \in Handlers, FailCommit(h)
  PROVE  FenceInv'
<1>1. TypeOK'
  BY TypeFail DEF FenceInv
<1>2. /\ op[h].kind = "fail" /\ op' = [op EXCEPT ![h] = Idle]
      /\ FinishAttempt(op[h], "failed")
  BY DEF FailCommit
<1>3. PICK cost \in Costs : FailRetry(op[h], cost) \/ FailTerminal(op[h], cost)
  BY DEF FailCommit
<1>4. task[op[h].run] \in TaskRow
  BY <1>2 DEF FenceInv, OpNames, TypeOK
<1>5. CASE FailRetry(op[h], cost)
  <2> DEFINE row == RequeuedTask(task[op[h].run])
  <2>1. UpdateFencedTask(op[h], row)
    BY <1>5 DEF FailRetry
  <2>2. row \in TaskRow
    BY <1>4, RowTypes
  <2>3. row.attempts = task[op[h].run].attempts /\ row.status = "queued" /\ row.fence = 0
    BY DEF RequeuedTask
  <2> QED
    BY <1>1, <1>2, <2>1, <2>2, <2>3, FenceSettle
<1>6. CASE FailTerminal(op[h], cost)
  <2>1. PICK s \in {"failed", "cancelled"} :
          UpdateFencedTask(op[h], [task[op[h].run] EXCEPT !.status = s])
    BY <1>6 DEF FailTerminal
  <2> DEFINE row == [task[op[h].run] EXCEPT !.status = s]
  <2>2. /\ row \in TaskRow /\ row.status \in Terminal
        /\ row.attempts = task[op[h].run].attempts /\ row.fence = task[op[h].run].fence
    BY <1>4 DEF TaskRow, TaskStatus, Terminal
  <2> QED
    BY <1>1, <1>2, <2>1, <2>2, FenceSettle
<1> QED
  BY <1>3, <1>5, <1>6

\* Leases, cancellations and the other requests leave fences and attempts alone.
LEMMA FenceOther ==
  ASSUME FenceInv, TypeOK', UNCHANGED attempt,
         \A r \in Runs : /\ task'[r].attempts = task[r].attempts
                         /\ task'[r].fence = task[r].fence
                         /\ task'[r].status \in {"absent", "queued"} =>
                              task'[r].status = task[r].status,
         \A g \in Handlers : op'[g] = op[g] \/ op'[g].kind \notin {"complete", "fail"}
  PROVE  FenceInv'
<1>1. \A r \in Runs : RunFenced(r)' /\ task'[r].attempts >= task[r].attempts
  BY DEF FenceInv, TypeOK, TaskRow, RunFenced
<1> QED
  BY <1>1, FenceFrame

LEMMA FenceLease ==
  ASSUME FenceInv, NEW r \in Runs, NEW k \in 1..MaxAttempts,
         Heartbeat(r) \/ WorkerGone(r, k) \/ LeaseExpires(r)
  PROVE  FenceInv'
<1>1. TypeOK'
  BY TypeLease DEF FenceInv
<1>2. UNCHANGED <<attempt, op>>
  BY DEF Heartbeat, WorkerGone, LeaseExpires, rowVars
<1>3. \A s \in Runs : /\ task'[s].attempts = task[s].attempts
                      /\ task'[s].fence = task[s].fence
                      /\ task'[s].status = task[s].status
  <2>1. task' = task \/ \E late \in BOOLEAN : task' = [task EXCEPT ![r].expired = late]
    BY DEF Heartbeat, WorkerGone, LeaseExpires, rowVars
  <2>2. task \in [Runs -> TaskRow]
    BY DEF FenceInv, TypeOK
  <2>3. \A s \in Runs :
          task'[s] = task[s] \/ \E late \in BOOLEAN : task'[s] = [task[s] EXCEPT !.expired = late]
    BY <2>1, <2>2
  <2>4. \A row \in TaskRow, late \in BOOLEAN :
          LET new == [row EXCEPT !.expired = late]
          IN  new.attempts = row.attempts /\ new.fence = row.fence /\ new.status = row.status
    BY DEF TaskRow
  <2> TAKE s \in Runs
  <2>5. task[s] \in TaskRow
    BY <2>2
  <2>6. CASE task'[s] = task[s]
    BY <2>6
  <2>7. CASE \E late \in BOOLEAN : task'[s] = [task[s] EXCEPT !.expired = late]
    BY SMTT(60), <2>4, <2>5, <2>7
  <2> QED
    BY <2>3, <2>6, <2>7
<1> QED
  BY <1>1, <1>2, <1>3, FenceOther

LEMMA FenceCancel ==
  ASSUME FenceInv, NEW h \in Handlers,
         \/ \E r \in Runs : BeginCancel(h, r)
         \/ RequestCancel(h) \/ CancelCommit(h)
  PROVE  FenceInv'
<1>1. TypeOK'
  <2>1. 1 \in 1..MaxAttempts
    BY AttemptsAssumption
  <2> QED
    BY <2>1, TypeBegin, TypeCancel DEF FenceInv
<1>2. UNCHANGED attempt
  BY DEF BeginCancel, RequestCancel, CancelCommit, rowVars
<1>3. \A s \in Runs : /\ task'[s].attempts = task[s].attempts
                      /\ task'[s].fence = task[s].fence
                      /\ task'[s].status # "cancelled" => task'[s].status = task[s].status
  <2>1. task' = task \/ task' = [task EXCEPT ![op[h].run].status = "cancelled"]
    BY DEF BeginCancel, RequestCancel, CancelCommit, CancelTask, rowVars
  <2>2. task \in [Runs -> TaskRow]
    BY DEF FenceInv, TypeOK
  <2>3. \A s \in Runs :
          task'[s] = task[s] \/ task'[s] = [task[s] EXCEPT !.status = "cancelled"]
    BY <2>1, <2>2
  <2>4. \A row \in TaskRow :
          LET new == [row EXCEPT !.status = "cancelled"]
          IN  new.attempts = row.attempts /\ new.fence = row.fence /\ new.status = "cancelled"
    BY DEF TaskRow
  <2>5. ASSUME NEW s \in Runs, task'[s] = [task[s] EXCEPT !.status = "cancelled"]
        PROVE  /\ task'[s].attempts = task[s].attempts
               /\ task'[s].fence = task[s].fence
               /\ task'[s].status = "cancelled"
    BY <2>2, <2>4, <2>5
  <2> QED
    BY <2>3, <2>5
<1>4. \A g \in Handlers : op'[g] = op[g] \/ op'[g].kind \notin {"complete", "fail"}
  <2> DEFINE News == {Idle} \cup {Seen("cancel", r, 0) : r \in Runs}
  <2>1. \E new \in News : op' = [op EXCEPT ![h] = new]
    BY DEF BeginCancel, RequestCancel, CancelCommit
  <2>2. \A new \in News : new.kind \notin {"complete", "fail"}
    BY DEF Idle, Holding, Seen
  <2> QED
    BY <2>1, <2>2 DEF FenceInv, TypeOK
<1> QED
  BY <1>1, <1>2, <1>3, <1>4, FenceOther

LEMMA FenceQuiet ==
  ASSUME FenceInv,
         \/ UNCHANGED vars
         \/ NextDay
         \/ \E h \in Handlers : NothingExhausted(h) \/ Rollback(h)
  PROVE  FenceInv'
<1>1. TypeOK'
  BY TypeStep DEF FenceInv, Next
<1>2. UNCHANGED <<task, attempt>>
  BY DEF vars, NextDay, NothingExhausted, Rollback, rowVars
<1>3. \A g \in Handlers : op'[g] = op[g] \/ op'[g].kind \notin {"complete", "fail"}
  BY DEF vars, NextDay, NothingExhausted, Rollback, Holding, Idle, FenceInv, TypeOK
<1> QED
  BY <1>1, <1>2, <1>3, FenceUnchanged, FenceFrame

LEMMA FenceStep == FenceInv /\ [Next]_vars => FenceInv'
<1> SUFFICES ASSUME FenceInv, [Next]_vars PROVE FenceInv'
  OBVIOUS
<1>1. 1 \in 1..MaxAttempts
  BY AttemptsAssumption
<1>2. CASE UNCHANGED vars \/ NextDay
  BY <1>2, FenceQuiet
<1>3. ASSUME NEW r \in Runs,
             \/ CreateAgentRun(r) \/ Heartbeat(r) \/ LeaseExpires(r)
             \/ \E k \in 1..MaxAttempts : WorkerGone(r, k)
      PROVE  FenceInv'
  BY <1>1, <1>3, FenceCreate, FenceLease
<1>4. ASSUME NEW h \in Handlers, NothingExhausted(h) \/ Rollback(h)
      PROVE  FenceInv'
  BY <1>4, FenceQuiet
<1>5. ASSUME NEW h \in Handlers, BeginRelease(h) \/ ReleaseCommit(h)
      PROVE  FenceInv'
  BY <1>5, FenceRelease
<1>6. ASSUME NEW h \in Handlers, CompleteCommit(h) \/ FailCommit(h)
      PROVE  FenceInv'
  BY <1>6, FenceComplete, FenceFail
<1>7. ASSUME NEW h \in Handlers, RequestCancel(h) \/ CancelCommit(h)
      PROVE  FenceInv'
  BY <1>7, FenceCancel
<1>8. ASSUME NEW h \in Handlers, NEW r \in Runs, Handle(h, r)
      PROVE  FenceInv'
  BY <1>8, FenceClaim, FenceCancel, FenceBegin DEF Handle
<1> QED
  BY <1>2, <1>3, <1>4, <1>5, <1>6, <1>7, <1>8 DEF Next, Commit

\* At every point of every interleaving a run has at most one running attempt,
\* the newest, and the task carries its fence: the FenceExclusive run, for any
\* number of attempts, runs and concurrent requests.
THEOREM FenceCorrect == Spec => []FenceExclusive
<1>1. Init => FenceInv
  BY FenceInit
<1>2. FenceInv /\ [Next]_vars => FenceInv'
  BY FenceStep
<1>3. FenceInv => FenceExclusive
  BY DEF FenceInv, RunFenced, FenceExclusive
<1> QED
  BY <1>1, <1>2, <1>3, PTL DEF Spec

\* The inductive invariant itself, for the theorems that rest on it.
THEOREM FenceInvariant == Spec => []FenceInv
<1>1. Init => FenceInv
  BY FenceInit
<1>2. FenceInv /\ [Next]_vars => FenceInv'
  BY FenceStep
<1> QED
  BY <1>1, <1>2, PTL DEF Spec

-----------------------------------------------------------------------------
(* No attempt is revived *)

\* Steps that leave the attempts alone and rewrite a task row at most.
LEMMA OverFrame ==
  ASSUME FenceInv, UNCHANGED attempt,
         \/ task' = task
         \/ \E r \in Runs : InsertAgentTask(r)
         \/ \E q \in Runs, row \in TaskRow :
              task' = [task EXCEPT ![q] = row] /\ row.attempts = task[q].attempts
  PROVE  \A r \in Runs : OverStaysOver(r)
<1>1. task \in [Runs -> TaskRow]
  BY DEF FenceInv, TypeOK
<1>2. \A r \in Runs : task[r].attempts \in Nat
  BY <1>1 DEF TaskRow
<1>3. \A r \in Runs : task'[r].attempts = task[r].attempts
  <2>1. CASE task' = task
    BY <2>1
  <2>2. CASE \E r \in Runs : InsertAgentTask(r)
    BY <1>1, <2>2 DEF InsertAgentTask, TaskRow
  <2>3. ASSUME NEW q \in Runs, NEW row \in TaskRow,
               task' = [task EXCEPT ![q] = row], row.attempts = task[q].attempts
        PROVE  \A r \in Runs : task'[r].attempts = task[r].attempts
    BY <1>1, <2>3
  <2> QED
    BY <2>1, <2>2, <2>3
<1> QED
  BY <1>2, <1>3 DEF OverStaysOver

\* A row of the task table with another status or lease.
LEMMA OtherRow ==
  ASSUME NEW row \in TaskRow
  PROVE  /\ \A s \in TaskStatus :
              /\ [row EXCEPT !.status = s] \in TaskRow
              /\ [row EXCEPT !.status = s].attempts = row.attempts
         /\ \A b \in BOOLEAN :
              /\ [row EXCEPT !.expired = b] \in TaskRow
              /\ [row EXCEPT !.expired = b].attempts = row.attempts
BY DEF TaskRow

\* Only a claim starts an attempt, and it starts one that did not exist.
LEMMA OverClaim ==
  ASSUME FenceInv, NEW h \in Handlers, NEW r \in Runs, ClaimTask(h, r)
  PROVE  \A s \in Runs : OverStaysOver(s)
<1> DEFINE f == task[r].attempts + 1
<1>1. \A s \in Runs : task[s].attempts \in Nat
  BY DEF FenceInv, TypeOK, TaskRow
<1>2. \A s \in Runs \ {r} : task'[s] = task[s] /\ attempt'[s] = attempt[s]
  BY DEF ClaimTask, FenceInv, TypeOK
<1>3. task'[r].attempts = f
  BY DEF ClaimTask, FenceInv, TypeOK
<1>4. attempt'[r] = ClaimedAttempts(r, f)
  BY DEF ClaimTask, FenceInv, TypeOK
<1>5. \A k \in 1..MaxAttempts : k = f => attempt[r][k] = "absent"
  BY <1>1 DEF FenceInv, RunFenced
<1>6. \A k \in 1..MaxAttempts :
        attempt[r][k] \notin {"absent", "running"} =>
          attempt'[r][k] \notin {"absent", "running"}
  BY <1>4, <1>5 DEF ClaimedAttempts
<1> QED
  BY <1>1, <1>2, <1>3, <1>6 DEF OverStaysOver

\* The sweep and the settlements end an attempt and start none.
LEMMA OverSweep ==
  ASSUME FenceInv, NEW h \in Handlers, NEW r \in Runs, ExpireExhausted(h, r)
  PROVE  \A s \in Runs : OverStaysOver(s)
<1>1. \A s \in Runs : task'[s].attempts = task[s].attempts /\ task[s].attempts \in Nat
  <2>1. task \in [Runs -> TaskRow]
    BY DEF FenceInv, TypeOK
  <2>2. task' = [task EXCEPT ![r].status = "failed"]
    BY DEF ExpireExhausted
  <2> QED
    BY <2>1, <2>2 DEF TaskRow
<1>2. \A s \in Runs \ {r} : attempt'[s] = attempt[s]
  BY DEF ExpireExhausted, FenceInv, TypeOK
<1>3. attempt'[r] = ExpiredAttempts(r)
  BY DEF ExpireExhausted, FenceInv, TypeOK
<1>4. \A k \in 1..MaxAttempts :
        attempt[r][k] \notin {"absent", "running"} =>
          attempt'[r][k] \notin {"absent", "running"}
  BY <1>3 DEF ExpiredAttempts
<1> QED
  BY <1>1, <1>2, <1>4 DEF OverStaysOver

LEMMA OverSettle ==
  ASSUME FenceInv, NEW h \in Handlers, CompleteCommit(h) \/ FailCommit(h)
  PROVE  \A s \in Runs : OverStaysOver(s)
<1> DEFINE o == op[h]
<1>1. o.run \in Runs /\ task \in [Runs -> TaskRow]
  BY DEF CompleteCommit, FailCommit, FenceInv, OpNames, TypeOK
<1>2. \E status \in {"completed", "failed"} : FinishAttempt(o, status)
  BY DEF CompleteCommit, FailCommit
<1>3. \A s \in Runs, k \in 1..MaxAttempts :
        attempt[s][k] \notin {"absent", "running"} =>
          attempt'[s][k] \notin {"absent", "running"}
  BY <1>2 DEF FinishAttempt, FenceInv, TypeOK
<1>4. \E row \in TaskRow : UpdateFencedTask(o, row) /\ row.attempts = task[o.run].attempts
  <2> DEFINE ended(s) == [task[o.run] EXCEPT !.status = s]
             requeued == RequeuedTask(task[o.run])
  <2>1. /\ requeued \in TaskRow /\ requeued.attempts = task[o.run].attempts
    BY <1>1, RowTypes DEF RequeuedTask
  <2>2. \A s \in Terminal : ended(s) \in TaskRow /\ ended(s).attempts = task[o.run].attempts
    BY <1>1, OtherRow DEF Terminal, TaskStatus
  <2>3. \/ UpdateFencedTask(o, requeued)
        \/ \E s \in Terminal : UpdateFencedTask(o, ended(s))
    BY DEF CompleteCommit, FailCommit, FailRetry, FailTerminal, Terminal
  <2> QED
    BY <2>1, <2>2, <2>3
<1>5. \A s \in Runs : task'[s].attempts = task[s].attempts
  BY <1>1, <1>4 DEF UpdateFencedTask
<1>6. \A s \in Runs : task[s].attempts \in Nat
  BY <1>1 DEF TaskRow
<1> QED
  BY <1>3, <1>5, <1>6 DEF OverStaysOver

LEMMA OverLease ==
  ASSUME FenceInv, NEW r \in Runs,
         Heartbeat(r) \/ LeaseExpires(r) \/ \E k \in 1..MaxAttempts : WorkerGone(r, k)
  PROVE  \A s \in Runs : OverStaysOver(s)
<1>1. task \in [Runs -> TaskRow] /\ UNCHANGED attempt
  BY DEF Heartbeat, LeaseExpires, WorkerGone, rowVars, FenceInv, TypeOK
<1>2. task' = task \/ \E b \in BOOLEAN : task' = [task EXCEPT ![r] = [task[r] EXCEPT !.expired = b]]
  BY DEF Heartbeat, LeaseExpires, WorkerGone, rowVars
<1>3. \A b \in BOOLEAN : /\ [task[r] EXCEPT !.expired = b] \in TaskRow
                         /\ [task[r] EXCEPT !.expired = b].attempts = task[r].attempts
  BY <1>1, OtherRow
<1> QED
  BY <1>1, <1>2, <1>3, OverFrame

LEMMA OverCancel ==
  ASSUME FenceInv, NEW h \in Handlers, CancelCommit(h)
  PROVE  \A s \in Runs : OverStaysOver(s)
<1> DEFINE q == op[h].run
           row == [task[q] EXCEPT !.status = "cancelled"]
<1>1. task \in [Runs -> TaskRow] /\ UNCHANGED attempt
  BY DEF CancelCommit, FenceInv, TypeOK
<1>2. task' = task \/ task' = [task EXCEPT ![q] = row]
  BY DEF CancelCommit, CancelTask
<1>3. CASE q \in Runs
  <2>1. row \in TaskRow /\ row.attempts = task[q].attempts
    BY <1>1, <1>3, OtherRow DEF TaskStatus
  <2> QED
    BY <1>1, <1>2, <1>3, <2>1, OverFrame
<1>4. CASE q \notin Runs
  <2>1. task' = task
    BY <1>1, <1>2, <1>4
  <2> QED
    BY <1>1, <2>1, OverFrame
<1> QED
  BY <1>3, <1>4

LEMMA OverStep == FenceInv /\ [Next]_vars => [\A r \in Runs : OverStaysOver(r)]_vars
<1> SUFFICES ASSUME FenceInv, Next PROVE \A r \in Runs : OverStaysOver(r)
  BY DEF vars
<1>1. ASSUME NEW r \in Runs, CreateAgentRun(r)
      PROVE  \A s \in Runs : OverStaysOver(s)
  <2>1. UNCHANGED attempt /\ (task' = task \/ InsertAgentTask(r))
    BY <1>1 DEF CreateAgentRun
  <2> QED
    BY <2>1, OverFrame
<1>2. ASSUME NEW h \in Handlers, ReleaseCommit(h)
      PROVE  \A s \in Runs : OverStaysOver(s)
  <2>1. UNCHANGED attempt /\ (task' = task \/ \E r \in Runs : InsertAgentTask(r))
    BY <1>2 DEF ReleaseCommit, FenceInv, TypeOK, Op
  <2> QED
    BY <2>1, OverFrame
<1>3. ASSUME NEW r \in Runs,
             Heartbeat(r) \/ LeaseExpires(r) \/ \E k \in 1..MaxAttempts : WorkerGone(r, k)
      PROVE  \A s \in Runs : OverStaysOver(s)
  BY <1>3, OverLease
<1>4. ASSUME NEW h \in Handlers,
             NothingExhausted(h) \/ BeginRelease(h) \/ RequestCancel(h) \/ Rollback(h)
      PROVE  \A s \in Runs : OverStaysOver(s)
  BY <1>4, OverFrame DEF NothingExhausted, BeginRelease, RequestCancel, Rollback, rowVars
<1>5. ASSUME NEW h \in Handlers, NEW r \in Runs, Handle(h, r)
      PROVE  \A s \in Runs : OverStaysOver(s)
  <2>1. CASE ExpireExhausted(h, r)
    BY <2>1, OverSweep
  <2>2. CASE ClaimTask(h, r)
    BY <2>2, OverClaim
  <2>3. CASE \/ BeginCancel(h, r)
             \/ \E k \in 1..MaxAttempts : BeginComplete(h, r, k) \/ BeginFail(h, r, k)
    BY <2>3, OverFrame DEF BeginCancel, BeginComplete, BeginFail, rowVars
  <2> QED
    BY <1>5, <2>1, <2>2, <2>3 DEF Handle
<1>6. ASSUME NEW h \in Handlers, Commit(h)
      PROVE  \A s \in Runs : OverStaysOver(s)
  BY <1>2, <1>4, <1>6, OverSettle, OverCancel DEF Commit
<1>7. CASE NextDay
  BY <1>7, OverFrame DEF NextDay, rowVars
<1> QED
  BY <1>1, <1>3, <1>4, <1>5, <1>6, <1>7 DEF Next

\* An attempt that is over never runs again, whatever late request arrives: the
\* NoRevival run, for any number of attempts, runs and concurrent requests.
THEOREM AttemptsStayOver == Spec => NoRevival
<1>1. FenceInv /\ [Next]_vars => [\A r \in Runs : OverStaysOver(r)]_vars
  BY OverStep
<1> QED
  BY <1>1, FenceInvariant, PTL DEF Spec, NoRevival

-----------------------------------------------------------------------------
(* The run and its task *)

\* What a request that did not race another finds: rows that agree, and no attempt running
\* without a leased task.
Agree(r) ==
  /\ RowsAgree(r)
  /\ \A k \in 1..MaxAttempts : attempt[r][k] = "running" => task[r].status = "running"

\* A cancellation in flight has read a run that was not over.
CancelsOpen(h) ==
  op[h].kind = "cancel" => op[h].run \in Runs /\ op[h].saw.status \in {"queued", "budget_blocked", "running"}

RunInv == FenceInv /\ (\A h \in Handlers : CancelsOpen(h)) /\ (~torn => \A r \in Runs : Agree(r))

\* One run at most has other rows after a step than before, and they agree.
LEMMA OneRunMoves ==
  ASSUME RunInv, ~torn, NEW q \in Runs,
         \A r \in Runs \ {q} : run'[r] = run[r] /\ task'[r] = task[r] /\ attempt'[r] = attempt[r],
         Agree(q)', Ended(q)
  PROVE  \A r \in Runs : Agree(r)' /\ Ended(r)
BY DEF RunInv, Agree, RowsAgree, Ended

\* No status changes.
LEMMA QuietAgrees ==
  ASSUME RunInv, ~torn, UNCHANGED attempt,
         \A r \in Runs : run'[r].status = run[r].status /\ task'[r].status = task[r].status
  PROVE  \A r \in Runs : Agree(r)' /\ Ended(r)
BY DEF RunInv, Agree, RowsAgree, Ended

\* A run row with another status.
LEMMA RunWith ==
  ASSUME RunInv, NEW q \in Runs, NEW s \in RunStatus, run' = [run EXCEPT ![q].status = s]
  PROVE  run'[q].status = s /\ \A r \in Runs \ {q} : run'[r] = run[r]
BY DEF RunInv, FenceInv, TypeOK, RunRow

LEMMA TaskWith ==
  ASSUME RunInv, NEW q \in Runs, NEW s \in TaskStatus, task' = [task EXCEPT ![q].status = s]
  PROVE  task'[q].status = s /\ \A r \in Runs \ {q} : task'[r] = task[r]
BY DEF RunInv, FenceInv, TypeOK, TaskRow

LEMMA AgreeCreate ==
  ASSUME RunInv, ~torn, NEW q \in Runs, CreateAgentRun(q)
  PROVE  \A r \in Runs : Agree(r)' /\ Ended(r)
<1>1. /\ run[q].status = "absent" /\ UNCHANGED attempt
      /\ \/ (\E e \in Estimates : run' = [run EXCEPT ![q] = Admitted("queued", e)]) /\ InsertAgentTask(q)
         \/ run' = [run EXCEPT ![q] = Admitted("budget_blocked", 0)] /\ UNCHANGED task
  BY DEF CreateAgentRun
<1>2. run \in [Runs -> RunRow] /\ task \in [Runs -> TaskRow]
  BY DEF RunInv, FenceInv, TypeOK
<1>3. task[q].status = "absent" /\ \A k \in 1..MaxAttempts : attempt[q][k] # "running"
  BY <1>1 DEF RunInv, Agree, RowsAgree
<1>4. \A r \in Runs \ {q} : run'[r] = run[r] /\ task'[r] = task[r] /\ attempt'[r] = attempt[r]
  BY <1>1, <1>2 DEF InsertAgentTask
<1>5. CASE (\E e \in Estimates : run' = [run EXCEPT ![q] = Admitted("queued", e)]) /\ InsertAgentTask(q)
  <2>1. run'[q].status = "queued"
    BY <1>2, <1>5 DEF Admitted
  <2>2. task' = [task EXCEPT ![q].status = "queued"]
    BY <1>3, <1>5 DEF InsertAgentTask
  <2>3. task'[q].status = "queued"
    BY <2>2, TaskWith DEF TaskStatus
  <2>4. Agree(q)' /\ Ended(q)
    BY <1>1, <1>3, <2>1, <2>3 DEF Agree, RowsAgree, Ended, Terminal
  <2> QED
    BY <1>4, <2>4, OneRunMoves
<1>6. CASE run' = [run EXCEPT ![q] = Admitted("budget_blocked", 0)] /\ UNCHANGED task
  <2>1. run'[q].status = "budget_blocked"
    BY <1>2, <1>6 DEF Admitted
  <2>2. Agree(q)' /\ Ended(q)
    BY <1>1, <1>3, <1>6, <2>1 DEF Agree, RowsAgree, Ended, Terminal
  <2> QED
    BY <1>4, <2>2, OneRunMoves
<1> QED
  BY <1>1, <1>5, <1>6

LEMMA AgreeRelease ==
  ASSUME RunInv, ~torn, NEW h \in Handlers, ReleaseCommit(h), ~torn'
  PROVE  \A r \in Runs : Agree(r)' /\ Ended(r)
<1>1. CASE UNCHANGED <<run, task>>
  <2>1. UNCHANGED attempt
    BY DEF ReleaseCommit
  <2> QED
    BY <1>1, <2>1, QuietAgrees
<1>2. ASSUME NEW q \in op[h].ids, NEW e \in Estimates,
             QueueReleased(q, e), InsertAgentTask(q), torn' = (torn \/ run[q].status # "budget_blocked")
      PROVE  \A r \in Runs : Agree(r)' /\ Ended(r)
  <2>1. q \in Runs /\ run \in [Runs -> RunRow] /\ task \in [Runs -> TaskRow] /\ UNCHANGED attempt
    BY DEF RunInv, FenceInv, TypeOK, Op, ReleaseCommit
  <2>2. run[q].status = "budget_blocked"
    BY <1>2
  <2>3. task[q].status = "absent" /\ \A k \in 1..MaxAttempts : attempt[q][k] # "running"
    BY <2>1, <2>2 DEF RunInv, Agree, RowsAgree, TaskRow, TaskStatus
  <2>4. run' = [run EXCEPT ![q] = Admitted("queued", e)] /\ task' = [task EXCEPT ![q].status = "queued"]
    BY <1>2, <2>2, <2>3 DEF QueueReleased, InsertAgentTask
  <2>5. run'[q].status = "queued" /\ \A r \in Runs \ {q} : run'[r] = run[r]
    BY <2>1, <2>4 DEF Admitted
  <2>6. task'[q].status = "queued" /\ \A r \in Runs \ {q} : task'[r] = task[r]
    BY <2>1, <2>4, TaskWith DEF TaskStatus
  <2>7. Agree(q)' /\ Ended(q)
    BY <2>1, <2>2, <2>3, <2>5, <2>6 DEF Agree, RowsAgree, Ended, Terminal
  <2> QED
    BY <2>1, <2>5, <2>6, <2>7, OneRunMoves
<1> QED
  BY <1>1, <1>2 DEF ReleaseCommit

LEMMA AgreeClaim ==
  ASSUME RunInv, ~torn, NEW h \in Handlers, NEW q \in Runs, ExpireExhausted(h, q) \/ ClaimTask(h, q)
  PROVE  \A r \in Runs : Agree(r)' /\ Ended(r)
<1>1. /\ run \in [Runs -> RunRow] /\ task \in [Runs -> TaskRow]
      /\ attempt \in [Runs -> [1..MaxAttempts -> AttemptStatus]]
      /\ RunFenced(q) /\ Agree(q)
  BY DEF RunInv, FenceInv, TypeOK
<1>2. CASE ExpireExhausted(h, q)
  <2>1. /\ task[q].status = "running" /\ task' = [task EXCEPT ![q].status = "failed"]
        /\ run' = [run EXCEPT ![q].status = "failed"]
        /\ attempt' = [attempt EXCEPT ![q] = ExpiredAttempts(q)]
    BY <1>2 DEF ExpireExhausted, Exhausted
  <2>2. /\ run'[q].status = "failed" /\ task'[q].status = "failed"
        /\ \A r \in Runs \ {q} : run'[r] = run[r] /\ task'[r] = task[r] /\ attempt'[r] = attempt[r]
    BY <1>1, <2>1, RunWith, TaskWith DEF RunStatus, TaskStatus
  <2>3. \A k \in 1..MaxAttempts : attempt'[q][k] # "running"
    BY <1>1, <2>1 DEF ExpiredAttempts, RunFenced
  <2>4. Agree(q)' /\ Ended(q)
    BY <1>1, <2>1, <2>2, <2>3 DEF Agree, RowsAgree, Ended, Terminal
  <2> QED
    BY <2>2, <2>4, OneRunMoves
<1>3. CASE ClaimTask(h, q)
  <2> DEFINE f == task[q].attempts + 1
             row == [status |-> "running", attempts |-> f, fence |-> f, expired |-> FALSE]
  <2>1. /\ task[q].status \in {"queued", "running"} /\ task' = [task EXCEPT ![q] = row]
        /\ run' = [run EXCEPT ![q].status = "running"]
        /\ attempt' = [attempt EXCEPT ![q] = ClaimedAttempts(q, f)]
    BY <1>3 DEF ClaimTask, Claimable
  <2>2. run'[q].status = "running" /\ \A r \in Runs \ {q} : run'[r] = run[r]
    BY <2>1, RunWith DEF RunStatus
  <2>3. task'[q].status = "running" /\ \A r \in Runs \ {q} : task'[r] = task[r] /\ attempt'[r] = attempt[r]
    BY <1>1, <2>1
  <2>4. Agree(q)' /\ Ended(q)
    BY <1>1, <2>1, <2>2, <2>3 DEF Agree, RowsAgree, Ended, Terminal
  <2> QED
    BY <2>2, <2>3, <2>4, OneRunMoves
<1> QED
  BY <1>2, <1>3

\* The settlement of a running attempt, with the statuses it leaves.
LEMMA AgreeSettle ==
  ASSUME RunInv, ~torn, NEW h \in Handlers, op[h].kind \in {"complete", "fail"}, StillSettles(op[h]),
         NEW s \in {"completed", "failed", "cancelled", "queued"}, NEW status \in {"completed", "failed"},
         run' = [run EXCEPT ![op[h].run].status = s],
         NEW row \in TaskRow, row.status = s, UpdateFencedTask(op[h], row), FinishAttempt(op[h], status)
  PROVE  \A r \in Runs : Agree(r)' /\ Ended(r)
<1> DEFINE k == op[h].fence
<1>0. op[h].run \in Runs
  BY DEF RunInv, FenceInv, OpNames
<1> PICK q \in Runs : q = op[h].run
  BY <1>0
<1>1. /\ q \in Runs /\ k \in 1..task[q].attempts /\ attempt[q][k] = "running"
      /\ run \in [Runs -> RunRow] /\ task \in [Runs -> TaskRow]
      /\ attempt \in [Runs -> [1..MaxAttempts -> AttemptStatus]]
  BY DEF RunInv, FenceInv, OpNames, TypeOK, StillSettles
<1>2. task[q].attempts \in 0..MaxAttempts /\ MaxAttempts \in Nat
  BY <1>1, AttemptsAssumption DEF TaskRow
<1>3. k \in 1..MaxAttempts /\ RunFenced(q) /\ Agree(q)
  BY <1>1, <1>2 DEF RunInv, FenceInv
<1>4. task[q].fence = k /\ task[q].status = "running" /\ \A i \in 1..MaxAttempts : attempt[q][i] = "running" => i = k
  BY <1>1, <1>3 DEF RunFenced, Agree
<1>5. task' = [task EXCEPT ![q] = row]
  BY <1>4 DEF UpdateFencedTask
<1>6. run'[q].status = s /\ \A r \in Runs \ {q} : run'[r] = run[r]
  BY <1>1, RunWith DEF RunStatus
<1>7. task'[q].status = s /\ \A r \in Runs \ {q} : task'[r] = task[r]
  BY <1>1, <1>5
<1>8. attempt' = [attempt EXCEPT ![q][k] = status]
  BY DEF FinishAttempt
<1>9. \A r \in Runs \ {q} : attempt'[r] = attempt[r]
  BY <1>1, <1>8
<1>10. \A i \in 1..MaxAttempts : attempt'[q][i] # "running"
  BY <1>1, <1>4, <1>8
<1>11. run[q].status = "running"
  BY <1>3, <1>4 DEF Agree, RowsAgree
<1>12. Agree(q)' /\ Ended(q)
  BY <1>6, <1>7, <1>10, <1>11 DEF Agree, RowsAgree, Ended, Terminal
<1> QED
  BY <1>1, <1>6, <1>7, <1>9, <1>12, OneRunMoves

LEMMA AgreeComplete ==
  ASSUME RunInv, ~torn, NEW h \in Handlers, CompleteCommit(h), ~torn'
  PROVE  \A r \in Runs : Agree(r)' /\ Ended(r)
<1> DEFINE row == [task[op[h].run] EXCEPT !.status = "completed"]
<1>1. /\ op[h].kind = "complete" /\ StillSettles(op[h]) /\ run' = [run EXCEPT ![op[h].run].status = "completed"]
      /\ UpdateFencedTask(op[h], row) /\ FinishAttempt(op[h], "completed")
  BY DEF CompleteCommit
<1>2. task[op[h].run] \in TaskRow
  BY <1>1 DEF RunInv, FenceInv, OpNames, TypeOK
<1>3. row \in TaskRow /\ row.status = "completed"
  BY <1>2 DEF TaskRow, TaskStatus
<1> HIDE DEF row
<1> QED
  BY <1>1, <1>3, AgreeSettle

LEMMA AgreeFail ==
  ASSUME RunInv, ~torn, NEW h \in Handlers, FailCommit(h), ~torn'
  PROVE  \A r \in Runs : Agree(r)' /\ Ended(r)
<1>1. op[h].kind = "fail" /\ StillSettles(op[h]) /\ FinishAttempt(op[h], "failed")
  BY DEF FailCommit
<1>2. PICK cost \in Costs : FailRetry(op[h], cost) \/ FailTerminal(op[h], cost)
  BY DEF FailCommit
<1>3. task[op[h].run] \in TaskRow
  BY <1>1 DEF RunInv, FenceInv, OpNames, TypeOK
<1>4. CASE FailRetry(op[h], cost)
  <2> DEFINE row == RequeuedTask(task[op[h].run])
  <2>1. row \in TaskRow /\ row.status = "queued"
    BY <1>3, RowTypes DEF RequeuedTask
  <2>2. run' = [run EXCEPT ![op[h].run].status = "queued"] /\ UpdateFencedTask(op[h], row)
    BY <1>4 DEF FailRetry
  <2> HIDE DEF row
  <2> QED
    BY <1>1, <2>1, <2>2, AgreeSettle
<1>5. CASE FailTerminal(op[h], cost)
  <2>1. PICK s \in {"failed", "cancelled"} :
          /\ run' = [run EXCEPT ![op[h].run].status = s]
          /\ UpdateFencedTask(op[h], [task[op[h].run] EXCEPT !.status = s])
    BY <1>5 DEF FailTerminal
  <2> DEFINE row == [task[op[h].run] EXCEPT !.status = s]
  <2>2. row \in TaskRow /\ row.status = s
    BY <1>3 DEF TaskRow, TaskStatus
  <2>3. UpdateFencedTask(op[h], row)
    BY <2>1
  <2> HIDE DEF row
  <2> QED
    BY <1>1, <2>1, <2>2, <2>3, AgreeSettle
<1> QED
  BY <1>2, <1>4, <1>5

LEMMA AgreeCancel ==
  ASSUME RunInv, ~torn, NEW h \in Handlers, CancelCommit(h), ~torn'
  PROVE  \A r \in Runs : Agree(r)' /\ Ended(r)
<1>0. op[h].run \in Runs
  BY DEF CancelCommit, RunInv, CancelsOpen
<1> PICK q \in Runs : q = op[h].run
  BY <1>0
<1>1. /\ op[h].kind = "cancel" /\ run[q].status = op[h].saw.status /\ op[h].saw.status # "running"
      /\ run' = [run EXCEPT ![q] = Cancelled(run[q])] /\ CancelTask(q) /\ UNCHANGED attempt
  BY DEF CancelCommit
<1>2. run[q].status \in {"queued", "budget_blocked"}
  BY <1>1 DEF RunInv, CancelsOpen
<1>3. run \in [Runs -> RunRow] /\ task \in [Runs -> TaskRow]
  BY DEF RunInv, FenceInv, TypeOK
<1>4. Agree(q) /\ task[q].status # "running"
  BY <1>2 DEF RunInv, Agree, RowsAgree
<1>5. run'[q].status = "cancelled" /\ \A r \in Runs \ {q} : run'[r] = run[r]
  BY <1>1, <1>2, <1>3 DEF Cancelled
<1>6. CASE task[q].status = "absent"
  <2>1. task' = task
    BY <1>1, <1>6 DEF CancelTask
  <2>2. Agree(q)' /\ Ended(q)
    BY <1>1, <1>2, <1>4, <1>5, <1>6, <2>1 DEF Agree, RowsAgree, Ended, Terminal
  <2> QED
    BY <1>1, <1>2, <1>5, <2>1, <2>2, OneRunMoves
<1>7. CASE task[q].status # "absent"
  <2>1. task' = [task EXCEPT ![q].status = "cancelled"]
    BY <1>1, <1>7 DEF CancelTask
  <2>2. task'[q].status = "cancelled" /\ \A r \in Runs \ {q} : task'[r] = task[r]
    BY <1>2, <2>1, TaskWith DEF TaskStatus
  <2>3. Agree(q)' /\ Ended(q)
    BY <1>1, <1>2, <1>4, <1>5, <2>2 DEF Agree, RowsAgree, Ended, Terminal
  <2> QED
    BY <1>1, <1>2, <1>5, <2>2, <2>3, OneRunMoves
<1> QED
  BY <1>6, <1>7

\* Only a look at a run that is not over starts a cancellation.
LEMMA CancelsBegin ==
  ASSUME RunInv, [Next]_vars, NEW h \in Handlers
  PROVE  \/ op'[h] = op[h] \/ op'[h].kind # "cancel"
         \/ \E r \in Runs : /\ op'[h].run = r /\ op'[h].saw = run[r] /\ UNCHANGED run
                            /\ run[r].status \in {"queued", "budget_blocked", "running"}
<1>1. op \in [Handlers -> Op] /\ \A g \in Handlers : CancelsOpen(g)
  BY DEF RunInv, FenceInv, TypeOK
<1>2. ASSUME NEW g \in Handlers, NEW r \in Runs, BeginCancel(g, r)
      PROVE  \/ op'[h] = op[h]
             \/ /\ op'[h].run = r /\ op'[h].saw = run[r] /\ UNCHANGED run
                /\ run[r].status \in {"queued", "budget_blocked", "running"}
  <2>1. /\ op' = [op EXCEPT ![g] = Seen("cancel", r, 0)] /\ UNCHANGED run
        /\ run[r].status \in {"queued", "budget_blocked", "running"}
    BY <1>2 DEF BeginCancel, rowVars
  <2>2. op'[g] = Seen("cancel", r, 0) /\ (h # g => op'[h] = op[h])
    BY <1>1, <2>1
  <2>3. op'[g].run = r /\ op'[g].saw = run[r]
    BY <2>2 DEF Seen
  <2> QED
    BY <2>1, <2>2, <2>3
<1> DEFINE Others == {Idle} \cup {Holding(kind, ids) : kind \in {"claim", "release"}, ids \in SUBSET Runs}
                     \cup {Seen(kind, r, k) : kind \in {"complete", "fail"}, r \in Runs, k \in 1..MaxAttempts}
<1>3. ASSUME UNCHANGED op \/ \E g \in Handlers, new \in Others : op' = [op EXCEPT ![g] = new]
      PROVE  op'[h] = op[h] \/ op'[h].kind # "cancel"
  <2>1. \A new \in Others : new.kind # "cancel"
    BY DEF Idle, Holding, Seen
  <2> QED
    BY <1>1, <1>3, <2>1
<1>4. ASSUME UNCHANGED vars \/ NextDay
      PROVE  UNCHANGED op
  BY <1>4 DEF vars, NextDay
<1>5. ASSUME NEW r \in Runs,
             \/ CreateAgentRun(r) \/ Heartbeat(r) \/ LeaseExpires(r)
             \/ \E k \in 1..MaxAttempts : WorkerGone(r, k)
      PROVE  UNCHANGED op
  BY <1>5 DEF CreateAgentRun, Heartbeat, LeaseExpires, WorkerGone
<1>6. ASSUME NEW g \in Handlers, NothingExhausted(g) \/ BeginRelease(g) \/ Commit(g) \/ Rollback(g)
      PROVE  \E new \in Others : op' = [op EXCEPT ![g] = new]
  <2>1. Idle \in Others /\ Holding("claim", {}) \in Others
    OBVIOUS
  <2>2. \A ids \in SUBSET Runs : Holding("release", ids) \in Others
    OBVIOUS
  <2>3. CASE BeginRelease(g)
    <3>1. op' = [op EXCEPT ![g] = Holding("release", {r \in Runs : run[r].status = "budget_blocked"})]
      BY <2>3 DEF BeginRelease
    <3> HIDE DEF Others
    <3> QED
      BY <2>2, <3>1
  <2>4. CASE ReleaseCommit(g)
    <3>1. op[g].ids \subseteq Runs
      BY <1>1 DEF Op
    <3>2. \/ op' = [op EXCEPT ![g] = Idle]
          \/ \E r \in op[g].ids : op' = [op EXCEPT ![g] = Holding("release", op[g].ids \ {r})]
      BY <2>4 DEF ReleaseCommit
    <3> HIDE DEF Others
    <3> QED
      BY <2>1, <2>2, <3>1, <3>2
  <2>5. CASE NothingExhausted(g) \/ Rollback(g) \/ CompleteCommit(g) \/ FailCommit(g) \/ RequestCancel(g) \/ CancelCommit(g)
    <3> HIDE DEF Others
    <3> QED
      BY <2>1, <2>5 DEF NothingExhausted, Rollback, CompleteCommit, FailCommit, RequestCancel, CancelCommit
  <2> QED
    BY <1>6, <2>3, <2>4, <2>5 DEF Commit
<1>7. ASSUME NEW g \in Handlers, NEW r \in Runs, Handle(g, r)
      PROVE  BeginCancel(g, r) \/ \E new \in Others : op' = [op EXCEPT ![g] = new]
  <2>1. Idle \in Others /\ Holding("claim", {}) \in Others
    OBVIOUS
  <2>2. \A k \in 1..MaxAttempts : Seen("complete", r, k) \in Others /\ Seen("fail", r, k) \in Others
    OBVIOUS
  <2> HIDE DEF Others
  <2> QED
    BY <1>7, <2>1, <2>2 DEF Handle, ExpireExhausted, ClaimTask, BeginComplete, BeginFail
<1> HIDE DEF Others
<1> QED
  BY <1>2, <1>3, <1>4, <1>5, <1>6, <1>7 DEF Next

LEMMA CancelsStayOpen ==
  ASSUME RunInv, [Next]_vars
  PROVE  \A h \in Handlers : CancelsOpen(h)'
BY CancelsBegin DEF RunInv, CancelsOpen

\* A commit that wrote over another stays on record.
LEMMA TornStays ==
  ASSUME [Next]_vars, ~torn'
  PROVE  ~torn
<1>1. CASE UNCHANGED torn
  BY <1>1
<1>2. ASSUME NEW h \in Handlers,
             ReleaseCommit(h) \/ CompleteCommit(h) \/ FailCommit(h) \/ CancelCommit(h)
      PROVE  UNCHANGED torn \/ \E condition \in BOOLEAN : torn' = (torn \/ condition)
  BY <1>2 DEF ReleaseCommit, CompleteCommit, FailCommit, CancelCommit
<1>3. ASSUME NEW h \in Handlers, NothingExhausted(h) \/ BeginRelease(h) \/ RequestCancel(h) \/ Rollback(h)
      PROVE  UNCHANGED torn
  BY <1>3 DEF NothingExhausted, BeginRelease, RequestCancel, Rollback
<1>4. ASSUME NEW h \in Handlers, NEW r \in Runs, Handle(h, r)
      PROVE  UNCHANGED torn
  BY <1>4 DEF Handle, ExpireExhausted, ClaimTask, BeginCancel, BeginComplete, BeginFail
<1>5. ASSUME NEW r \in Runs,
             \/ CreateAgentRun(r) \/ Heartbeat(r) \/ LeaseExpires(r)
             \/ \E k \in 1..MaxAttempts : WorkerGone(r, k)
      PROVE  UNCHANGED torn
  BY <1>5 DEF CreateAgentRun, Heartbeat, LeaseExpires, WorkerGone
<1>6. CASE NextDay \/ UNCHANGED vars
  BY <1>6 DEF NextDay, vars
<1> QED
  BY <1>1, <1>2, <1>3, <1>4, <1>5, <1>6 DEF Next, Commit

LEMMA AgreeStep ==
  ASSUME RunInv, [Next]_vars, ~torn'
  PROVE  \A r \in Runs : Agree(r)' /\ Ended(r)
<1>1. ~torn
  BY TornStays
<1>2. run \in [Runs -> RunRow] /\ task \in [Runs -> TaskRow]
  BY DEF RunInv, FenceInv, TypeOK
<1>3. CASE UNCHANGED rowVars
  <2>1. UNCHANGED <<run, task, attempt>>
    BY <1>3 DEF rowVars
  <2> QED
    BY <1>1, <2>1, QuietAgrees
<1>4. ASSUME NEW q \in Runs, Heartbeat(q) \/ LeaseExpires(q)
      PROVE  \A r \in Runs : Agree(r)' /\ Ended(r)
  <2>1. UNCHANGED <<run, attempt>> /\ \E late \in BOOLEAN : task' = [task EXCEPT ![q].expired = late]
    BY <1>4 DEF Heartbeat, LeaseExpires
  <2>2. \A r \in Runs : task'[r].status = task[r].status
    BY <1>2, <2>1 DEF TaskRow
  <2> QED
    BY <1>1, <2>1, <2>2, QuietAgrees
<1>5. ASSUME NEW h \in Handlers, RequestCancel(h)
      PROVE  \A r \in Runs : Agree(r)' /\ Ended(r)
  <2>1. UNCHANGED <<task, attempt>> /\ run' = [run EXCEPT ![op[h].run].cancelRequested = TRUE]
    BY <1>5 DEF RequestCancel
  <2>2. \A r \in Runs : run'[r].status = run[r].status
    BY <1>2, <2>1 DEF RunRow
  <2> QED
    BY <1>1, <2>1, <2>2, QuietAgrees
<1>6. ASSUME NEW q \in Runs,
             \/ CreateAgentRun(q) \/ Heartbeat(q) \/ LeaseExpires(q)
             \/ \E k \in 1..MaxAttempts : WorkerGone(q, k)
      PROVE  \A r \in Runs : Agree(r)' /\ Ended(r)
  BY <1>1, <1>3, <1>4, <1>6, AgreeCreate DEF WorkerGone
<1>7. ASSUME NEW h \in Handlers, NothingExhausted(h) \/ BeginRelease(h) \/ Commit(h) \/ Rollback(h)
      PROVE  \A r \in Runs : Agree(r)' /\ Ended(r)
  BY <1>1, <1>3, <1>5, <1>7, AgreeRelease, AgreeComplete, AgreeFail, AgreeCancel
  DEF Commit, NothingExhausted, BeginRelease, Rollback
<1>8. ASSUME NEW h \in Handlers, NEW q \in Runs, Handle(h, q)
      PROVE  \A r \in Runs : Agree(r)' /\ Ended(r)
  BY <1>1, <1>3, <1>8, AgreeClaim DEF Handle, BeginCancel, BeginComplete, BeginFail
<1>9. CASE NextDay \/ UNCHANGED vars
  BY <1>3, <1>9 DEF NextDay, vars, rowVars
<1> QED
  BY <1>6, <1>7, <1>8, <1>9 DEF Next

LEMMA RunInit == Init => RunInv
<1> SUFFICES ASSUME Init PROVE RunInv
  OBVIOUS
<1>1. FenceInv
  BY FenceInit
<1>2. \A h \in Handlers : CancelsOpen(h)
  BY DEF Init, CancelsOpen, Idle, Holding
<1>3. \A r \in Runs : Agree(r)
  BY DEF Init, Agree, RowsAgree, AbsentRun, AbsentTask
<1> QED
  BY <1>1, <1>2, <1>3 DEF RunInv

LEMMA RunStep == RunInv /\ [Next]_vars => RunInv'
<1> SUFFICES ASSUME RunInv, [Next]_vars PROVE RunInv'
  OBVIOUS
<1>1. FenceInv'
  BY FenceStep DEF RunInv
<1>2. \A h \in Handlers : CancelsOpen(h)'
  BY CancelsStayOpen
<1>3. ~torn' => \A r \in Runs : Agree(r)'
  BY AgreeStep
<1> QED
  BY <1>1, <1>2, <1>3 DEF RunInv

\* The fence, what cancellations have read, and that runs, tasks and attempts agree as long as
\* no request wrote over what another had changed.
THEOREM RunInvariant == Spec => []RunInv
BY RunInit, RunStep, PTL DEF Spec

\* Unless two requests raced, no run is queued with nothing to claim or running with nobody
\* leasing it: admission, claim, completion, failure, cancellation and sweep move run and task
\* together.
THEOREM RunMatchesTaskCorrect == Spec => []RunMatchesTask
<1>1. RunInv => RunMatchesTask
  BY DEF RunInv, Agree, RunMatchesTask
<1> QED
  BY <1>1, RunInvariant, PTL

\* Unless two requests raced, a run that has ended stays as it ended: whoever settles, cancels,
\* claims or sweeps it has seen that it had not.
THEOREM TerminalStaysCorrect == Spec => TerminalStays
<1>1. RunInv /\ [Next]_vars => [~torn' => \A r \in Runs : Ended(r)]_vars
  BY AgreeStep
<1> QED
  BY <1>1, RunInvariant, PTL DEF Spec, TerminalStays
-----------------------------------------------------------------------------
(* Sums *)

\* The element the library's fold takes of a set, what it leaves, and the sums of v over
\* the subsets of S.
First(s) == CHOOSE x \in s : TRUE
Rest(s) == s \ {First(s)}
Sums(v, S, g) == g = [s \in SUBSET S |-> IF s = {} THEN 0 ELSE v[First(s)] + g[Rest(s)]]

\* The library's sum, as the fold it is defined by.
LEMMA SumChosen ==
  ASSUME NEW v, NEW S
  PROVE  SumFunctionOnSet(v, S) = (CHOOSE g : Sums(v, S, g))[S]
BY Zenon DEF SumFunctionOnSet, FoldFunctionOnSet, MapThenFoldSet, Sums, First, Rest

\* Of the subsets of a finite set with a property one is smallest.
LEMMA Smallest ==
  ASSUME NEW S, IsFiniteSet(S), NEW T \in SUBSET (SUBSET S), T # {}
  PROVE  \E t \in T : \A u \in T : u \subseteq t => u = t
<1> DEFINE R == {ss \in (SUBSET S) \X (SUBSET S) : ss[1] \subseteq ss[2] /\ ss[1] # ss[2]}
<1>1. IsWellFoundedOn(R, FiniteSubsetsOf(S))
  BY FS_StrictSubsetOrderingWellFounded DEF StrictSubsetOrdering
<1>2. T \subseteq FiniteSubsetsOf(S)
  BY FS_Subset DEF FiniteSubsetsOf
<1>3. PICK t \in T : \A u \in T : <<u, t>> \notin R
  <2> HIDE DEF R
  <2> QED
    BY <1>1, <1>2, WFMin
<1>4. ASSUME NEW u \in T, u \subseteq t, u # t PROVE FALSE
  <2>1. <<u, t>> \in R
    BY <1>4
  <2> QED
    BY <1>3, <2>1
<1> QED
  BY <1>4

LEMMA RestSmaller ==
  ASSUME NEW s, s # {}
  PROVE  First(s) \in s /\ Rest(s) \subseteq s /\ Rest(s) # s
BY DEF First, Rest

\* What the sums of a subset are does not depend on what it is a subset of.
LEMMA SumsAgree ==
  ASSUME NEW S, IsFiniteSet(S), NEW U, U \subseteq S, NEW v,
         NEW g, NEW h, Sums(v, S, g), Sums(v, U, h)
  PROVE  g[U] = h[U]
<1> DEFINE Bad == {s \in SUBSET U : g[s] # h[s]}
<1> SUFFICES ASSUME Bad # {} PROVE FALSE
  OBVIOUS
<1>1. IsFiniteSet(U)
  BY FS_Subset
<1>2. PICK s \in Bad : \A t \in Bad : t \subseteq s => t = s
  <2>1. Bad \in SUBSET (SUBSET U)
    OBVIOUS
  <2> HIDE DEF Bad
  <2> QED
    BY <1>1, <2>1, Smallest
<1>3. s \in SUBSET U /\ s \in SUBSET S /\ g[s] # h[s]
  BY <1>2
<1>4. /\ g[s] = IF s = {} THEN 0 ELSE v[First(s)] + g[Rest(s)]
      /\ h[s] = IF s = {} THEN 0 ELSE v[First(s)] + h[Rest(s)]
  BY <1>3 DEF Sums
<1>5. s # {}
  BY <1>3, <1>4
<1>6. Rest(s) \in SUBSET U /\ Rest(s) \subseteq s /\ Rest(s) # s
  BY <1>3, <1>5, RestSmaller
<1>7. g[Rest(s)] = h[Rest(s)]
  BY <1>2, <1>6
<1> QED
  BY <1>3, <1>4, <1>7

LEMMA SumsExist ==
  ASSUME NEW S, IsFiniteSet(S), NEW v
  PROVE  \E g : Sums(v, S, g)
<1> DEFINE Bad == {s \in SUBSET S : ~ \E g : Sums(v, s, g)}
<1> SUFFICES ASSUME Bad # {} PROVE FALSE
  OBVIOUS
<1>1. PICK s \in Bad : \A t \in Bad : t \subseteq s => t = s
  <2>1. Bad \in SUBSET (SUBSET S)
    OBVIOUS
  <2> HIDE DEF Bad
  <2> QED
    BY <2>1, Smallest
<1>2. s \in SUBSET S /\ ~ \E g : Sums(v, s, g)
  BY <1>1
<1> DEFINE Of(t) == CHOOSE g : Sums(v, t, g)
<1>3. ASSUME NEW t \in SUBSET s, t # s PROVE Sums(v, t, Of(t))
  <2>1. \E g : Sums(v, t, g)
    BY <1>1, <1>2, <1>3
  <2> QED
    BY <2>1
<1> DEFINE h == [t \in SUBSET s |-> IF t = {} THEN 0 ELSE v[First(t)] + Of(Rest(t))[Rest(t)]]
<1> HIDE DEF Of
<1>4. ASSUME NEW t \in SUBSET s, t # {} PROVE h[Rest(t)] = Of(Rest(t))[Rest(t)]
  <2> DEFINE r == Rest(t)
  <2>1. r \in SUBSET s /\ r # s
    BY <1>4, RestSmaller
  <2>2. Sums(v, r, Of(r)) /\ IsFiniteSet(r)
    BY <1>2, <1>3, <2>1, FS_Subset
  <2> HIDE DEF r
  <2>3. Of(r)[r] = IF r = {} THEN 0 ELSE v[First(r)] + Of(r)[Rest(r)]
    BY <2>2 DEF Sums
  <2>4. h[r] = IF r = {} THEN 0 ELSE v[First(r)] + Of(Rest(r))[Rest(r)]
    BY <2>1
  <2>5. r # {} => Of(r)[Rest(r)] = Of(Rest(r))[Rest(r)]
    <3> SUFFICES ASSUME r # {} PROVE Of(r)[Rest(r)] = Of(Rest(r))[Rest(r)]
      OBVIOUS
    <3>1. Rest(r) \subseteq r /\ Rest(r) # r
      BY RestSmaller
    <3>2. Rest(r) \in SUBSET s /\ Rest(r) # s
      BY <2>1, <3>1
    <3>3. Sums(v, Rest(r), Of(Rest(r)))
      BY <1>3, <3>2
    <3> QED
      BY <2>2, <3>1, <3>3, SumsAgree
  <2>6. h[r] = Of(r)[r]
    BY <2>3, <2>4, <2>5
  <2> QED
    BY <2>6 DEF r
<1>5. \A t \in SUBSET s : h[t] = IF t = {} THEN 0 ELSE v[First(t)] + h[Rest(t)]
  BY <1>4
<1>6. Sums(v, s, h)
  BY <1>5 DEF Sums
<1> QED
  BY <1>2, <1>6

\* A sum is that of its first term and of the rest.
LEMMA SumUnfolds ==
  ASSUME NEW S, IsFiniteSet(S), NEW v
  PROVE  SumFunctionOnSet(v, S) =
           IF S = {} THEN 0 ELSE v[First(S)] + SumFunctionOnSet(v, Rest(S))
<1> DEFINE Of(t) == CHOOSE g : Sums(v, t, g)
<1>1. \A t : SumFunctionOnSet(v, t) = Of(t)[t]
  BY SumChosen
<1>2. ASSUME NEW t, IsFiniteSet(t) PROVE Sums(v, t, Of(t))
  <2>1. \E g : Sums(v, t, g)
    BY <1>2, SumsExist
  <2> QED
    BY <2>1
<1> HIDE DEF Of
<1>3. Of(S)[S] = IF S = {} THEN 0 ELSE v[First(S)] + Of(S)[Rest(S)]
  BY <1>2 DEF Sums
<1>4. S # {} => Of(S)[Rest(S)] = Of(Rest(S))[Rest(S)]
  <2> SUFFICES ASSUME S # {} PROVE Of(S)[Rest(S)] = Of(Rest(S))[Rest(S)]
    OBVIOUS
  <2>1. Rest(S) \subseteq S /\ IsFiniteSet(Rest(S))
    BY RestSmaller, FS_Subset
  <2> QED
    BY <1>2, <2>1, SumsAgree
<1> QED
  BY <1>1, <1>3, <1>4

LEMMA SumInt ==
  ASSUME NEW S, IsFiniteSet(S), NEW v, \A x \in S : v[x] \in Int
  PROVE  SumFunctionOnSet(v, S) \in Int
<1> DEFINE Bad == {s \in SUBSET S : SumFunctionOnSet(v, s) \notin Int}
<1> SUFFICES ASSUME Bad # {} PROVE FALSE
  OBVIOUS
<1>1. PICK s \in Bad : \A t \in Bad : t \subseteq s => t = s
  <2>1. Bad \in SUBSET (SUBSET S)
    OBVIOUS
  <2> HIDE DEF Bad
  <2> QED
    BY <2>1, Smallest
<1>2. s \in SUBSET S /\ SumFunctionOnSet(v, s) \notin Int /\ IsFiniteSet(s)
  BY <1>1, FS_Subset
<1>3. s # {}
  BY <1>2, SumUnfolds
<1>4. First(s) \in S /\ Rest(s) \in SUBSET S /\ Rest(s) \subseteq s /\ Rest(s) # s
  BY <1>2, <1>3, RestSmaller
<1>5. SumFunctionOnSet(v, Rest(s)) \in Int
  BY <1>1, <1>4
<1>6. SumFunctionOnSet(v, s) = v[First(s)] + SumFunctionOnSet(v, Rest(s))
  BY <1>2, <1>3, SumUnfolds
<1> QED
  BY <1>2, <1>4, <1>5, <1>6

\* A sum is that of any of its terms and of the others.
LEMMA SumPicks ==
  ASSUME NEW S, IsFiniteSet(S), NEW v, \A x \in S : v[x] \in Int, NEW x \in S
  PROVE  SumFunctionOnSet(v, S) = v[x] + SumFunctionOnSet(v, S \ {x})
<1> DEFINE Bad == {s \in SUBSET S : \E y \in s : SumFunctionOnSet(v, s) # v[y] + SumFunctionOnSet(v, s \ {y})}
<1> SUFFICES ASSUME Bad # {} PROVE FALSE
  OBVIOUS
<1>1. PICK s \in Bad : \A t \in Bad : t \subseteq s => t = s
  <2>1. Bad \in SUBSET (SUBSET S)
    OBVIOUS
  <2> HIDE DEF Bad
  <2> QED
    BY <2>1, Smallest
<1>2. s \in SUBSET S /\ IsFiniteSet(s)
  BY <1>1, FS_Subset
<1>3. PICK y \in s : SumFunctionOnSet(v, s) # v[y] + SumFunctionOnSet(v, s \ {y})
  BY <1>1
<1>4. ASSUME NEW t \in SUBSET s, t # s, NEW z \in t
      PROVE  SumFunctionOnSet(v, t) = v[z] + SumFunctionOnSet(v, t \ {z})
  <2>1. t \notin Bad
    BY <1>1, <1>4
  <2> QED
    BY <1>2, <1>4, <2>1
<1> PICK f : f = First(s)
  OBVIOUS
<1>5. f \in s /\ Rest(s) = s \ {f}
  BY <1>3, RestSmaller DEF Rest
<1>6. SumFunctionOnSet(v, s) = v[f] + SumFunctionOnSet(v, s \ {f})
  BY <1>2, <1>3, <1>5, SumUnfolds
<1>7. y # f
  BY <1>3, <1>6
<1> DEFINE others == (s \ {f}) \ {y}
<1>8. SumFunctionOnSet(v, s \ {f}) = v[y] + SumFunctionOnSet(v, others)
  BY <1>3, <1>4, <1>5, <1>7
<1>9. others = (s \ {y}) \ {f}
  OBVIOUS
<1>10. SumFunctionOnSet(v, s \ {y}) = v[f] + SumFunctionOnSet(v, others)
  BY <1>3, <1>4, <1>5, <1>7, <1>9
<1>11. IsFiniteSet(others) /\ others \subseteq S
  BY <1>2, FS_Subset
<1> HIDE DEF others
<1>12. SumFunctionOnSet(v, others) \in Int /\ v[f] \in Int /\ v[y] \in Int
  BY <1>2, <1>3, <1>5, <1>11, SumInt
<1> QED
  BY <1>3, <1>6, <1>8, <1>10, <1>12

\* Sums with the same terms are the same.
LEMMA SumSame ==
  ASSUME NEW S, IsFiniteSet(S), NEW v, NEW w, \A x \in S : v[x] = w[x]
  PROVE  SumFunctionOnSet(v, S) = SumFunctionOnSet(w, S)
<1> DEFINE Bad == {s \in SUBSET S : SumFunctionOnSet(v, s) # SumFunctionOnSet(w, s)}
<1> SUFFICES ASSUME Bad # {} PROVE FALSE
  OBVIOUS
<1>1. PICK s \in Bad : \A t \in Bad : t \subseteq s => t = s
  <2>1. Bad \in SUBSET (SUBSET S)
    OBVIOUS
  <2> HIDE DEF Bad
  <2> QED
    BY <2>1, Smallest
<1>2. s \in SUBSET S /\ SumFunctionOnSet(v, s) # SumFunctionOnSet(w, s) /\ IsFiniteSet(s)
  BY <1>1, FS_Subset
<1>3. /\ SumFunctionOnSet(v, s) = IF s = {} THEN 0 ELSE v[First(s)] + SumFunctionOnSet(v, Rest(s))
      /\ SumFunctionOnSet(w, s) = IF s = {} THEN 0 ELSE w[First(s)] + SumFunctionOnSet(w, Rest(s))
  BY <1>2, SumUnfolds
<1>4. s # {}
  BY <1>2, <1>3
<1>5. First(s) \in S /\ Rest(s) \in SUBSET S /\ Rest(s) \subseteq s /\ Rest(s) # s
  BY <1>2, <1>4, RestSmaller
<1>6. SumFunctionOnSet(v, Rest(s)) = SumFunctionOnSet(w, Rest(s))
  BY <1>1, <1>5
<1> QED
  BY <1>2, <1>3, <1>5, <1>6

LEMMA SumZero ==
  ASSUME NEW S, IsFiniteSet(S), NEW v, \A x \in S : v[x] = 0
  PROVE  SumFunctionOnSet(v, S) = 0
<1> DEFINE Bad == {s \in SUBSET S : SumFunctionOnSet(v, s) # 0}
<1> SUFFICES ASSUME Bad # {} PROVE FALSE
  OBVIOUS
<1>1. PICK s \in Bad : \A t \in Bad : t \subseteq s => t = s
  <2>1. Bad \in SUBSET (SUBSET S)
    OBVIOUS
  <2> HIDE DEF Bad
  <2> QED
    BY <2>1, Smallest
<1>2. s \in SUBSET S /\ SumFunctionOnSet(v, s) # 0 /\ IsFiniteSet(s)
  BY <1>1, FS_Subset
<1>3. SumFunctionOnSet(v, s) = IF s = {} THEN 0 ELSE v[First(s)] + SumFunctionOnSet(v, Rest(s))
  BY <1>2, SumUnfolds
<1>4. s # {}
  BY <1>2, <1>3
<1>5. First(s) \in S /\ Rest(s) \in SUBSET S /\ Rest(s) \subseteq s /\ Rest(s) # s
  BY <1>2, <1>4, RestSmaller
<1>6. SumFunctionOnSet(v, Rest(s)) = 0
  BY <1>1, <1>5
<1> QED
  BY <1>2, <1>3, <1>5, <1>6

\* One term changes, and the sum by as much.
LEMMA SumChanges ==
  ASSUME NEW S, IsFiniteSet(S), NEW v \in [S -> Int], NEW w \in [S -> Int],
         NEW x \in S, \A y \in S \ {x} : w[y] = v[y]
  PROVE  SumFunction(w) = SumFunction(v) - v[x] + w[x]
<1>1. SumFunction(v) = v[x] + SumFunctionOnSet(v, S \ {x})
  BY SumPicks DEF SumFunction
<1>2. SumFunction(w) = w[x] + SumFunctionOnSet(w, S \ {x})
  BY SumPicks DEF SumFunction
<1>3. IsFiniteSet(S \ {x})
  BY FS_Subset
<1>4. SumFunctionOnSet(v, S \ {x}) = SumFunctionOnSet(w, S \ {x})
  BY <1>3, SumSame
<1>5. SumFunctionOnSet(v, S \ {x}) \in Int
  BY <1>3, SumInt
<1> QED
  BY <1>1, <1>2, <1>4, <1>5

LEMMA FiniteRows == IsFiniteSet(Runs) /\ IsFiniteSet(Periods)
<1>1. IsFiniteSet(Runs)
  BY RunsAssumption, FS_Interval
<1>2. IsFiniteSet(Periods)
  <2>1. Days \in Int
    BY RunsAssumption
  <2> QED
    BY <2>1, FS_Interval
<1> QED
  BY <1>1, <1>2

\* One charge, of a run and of a period.
LEMMA RunSumChanges ==
  ASSUME NEW v \in [Runs -> Int], NEW w \in [Runs -> Int],
         NEW q \in Runs, \A r \in Runs \ {q} : w[r] = v[r]
  PROVE  SumFunction(w) = SumFunction(v) - v[q] + w[q]
<1> HIDE DEF Runs
<1> QED
  BY FiniteRows, SumChanges, Zenon

LEMMA PeriodSumChanges ==
  ASSUME NEW v \in [Periods -> Int], NEW w \in [Periods -> Int],
         NEW p \in Periods, \A r \in Periods \ {p} : w[r] = v[r]
  PROVE  SumFunction(w) = SumFunction(v) - v[p] + w[p]
<1> HIDE DEF Periods
<1> QED
  BY FiniteRows, SumChanges, Zenon

-----------------------------------------------------------------------------
(* What the runs hold of the budget *)

\* A blocked run holds nothing, and a cancellation knows what its run holds, unless the
\* run is running by now.
Unreserved(r) == run[r].status = "budget_blocked" => run[r].reservation = 0
CancelKnows(h) ==
  op[h].kind = "cancel" =>
    /\ op[h].saw.status = "budget_blocked" => op[h].saw.reservation = 0
    /\ op[h].saw.status = "queued" =>
         /\ run[op[h].run].status \notin {"absent", "budget_blocked"}
         /\ run[op[h].run].reservation = op[h].saw.reservation
         /\ run[op[h].run].period = op[h].saw.period
Exact == \A p \in Periods : reserved[p] = SumFunction(Held(p))

BudgetInv ==
  /\ RunInv
  /\ ~torn => Exact /\ (\A r \in Runs : Unreserved(r)) /\ (\A h \in Handlers : CancelKnows(h))

\* A reservation is made when a run is admitted, and kept.
Keeps(r) ==
  /\ run'[r].status = "budget_blocked" => run'[r].reservation = 0
  /\ run[r].status \notin {"absent", "budget_blocked"} =>
       /\ run'[r].status \notin {"absent", "budget_blocked"}
       /\ run'[r].reservation = run[r].reservation /\ run'[r].period = run[r].period

\* What a step that touches run q only has to do to the budget.
Reserves(q) ==
  /\ Keeps(q) /\ \A r \in Runs \ {q} : run'[r] = run[r]
  /\ \A p \in Periods : reserved'[p] = reserved[p] - Held(p)[q] + Held(p)'[q]

LEMMA ReservesExact ==
  ASSUME BudgetInv, ~torn, TypeOK', NEW q \in Runs, Reserves(q)
  PROVE  Exact' /\ \A r \in Runs : Keeps(r)
<1>1. TypeOK
  BY DEF BudgetInv, RunInv, FenceInv
<1>2. ASSUME NEW p \in Periods PROVE reserved'[p] = SumFunction(Held(p))'
  <2>1. /\ Held(p) \in [Runs -> Int] /\ Held(p)' \in [Runs -> Int]
        /\ \A r \in Runs \ {q} : Held(p)'[r] = Held(p)[r]
    BY <1>1 DEF Held, Holds, TypeOK, RunRow, Reserves
  <2> PICK v \in [Runs -> Int] : v = Held(p)
    BY <2>1
  <2> PICK w \in [Runs -> Int] : w = Held(p)'
    BY <2>1
  <2>2. SumFunction(w) = SumFunction(v) - v[q] + w[q]
    BY <2>1, RunSumChanges
  <2>3. reserved[p] = SumFunction(v)
    BY DEF BudgetInv, Exact
  <2> QED
    BY <2>2, <2>3 DEF Reserves
<1>3. \A r \in Runs \ {q} : Keeps(r)
  BY DEF Reserves, Keeps, BudgetInv, Unreserved
<1> QED
  BY <1>2, <1>3 DEF Exact, Reserves

\* The run is admitted, and reserves.
LEMMA ReservesAdmission ==
  ASSUME BudgetInv, ~torn, NEW q \in Runs, NEW e \in Estimates,
         run[q].status \in {"absent", "budget_blocked"},
         run' = [run EXCEPT ![q] = Admitted("queued", e)],
         reserved' = [reserved EXCEPT ![day] = @ + e]
  PROVE  Reserves(q)
<1>1. run \in [Runs -> RunRow] /\ reserved \in [Periods -> Int] /\ day \in Periods /\ e \in Int
  BY BudgetAssumption DEF BudgetInv, RunInv, FenceInv, TypeOK
<1>2. /\ run'[q].status = "queued" /\ run'[q].reservation = e /\ run'[q].period = day
      /\ \A r \in Runs \ {q} : run'[r] = run[r]
  BY <1>1 DEF Admitted
<1>3. \A p \in Periods : Held(p)[q] = 0 /\ Held(p)'[q] = IF p = day THEN e ELSE 0
  BY <1>2 DEF Held, Holds
<1>4. \A p \in Periods : reserved'[p] = reserved[p] - Held(p)[q] + Held(p)'[q]
  BY <1>1, <1>3
<1>5. Keeps(q)
  BY <1>2 DEF Keeps
<1> QED
  BY <1>2, <1>4, <1>5 DEF Reserves

\* The run ends, and gives back.
LEMMA ReservesEnd ==
  ASSUME BudgetInv, ~torn, NEW q \in Runs, run[q].status \in {"queued", "running"},
         \A r \in Runs \ {q} : run'[r] = run[r], run'[q].status \in Terminal,
         run'[q].reservation = run[q].reservation, run'[q].period = run[q].period,
         reserved' = [reserved EXCEPT ![run[q].period] = @ - run[q].reservation]
  PROVE  Reserves(q)
<1>1. run[q].period \in Periods /\ run[q].reservation \in Int /\ reserved \in [Periods -> Int]
  BY DEF BudgetInv, RunInv, FenceInv, TypeOK, RunRow
<1>2. \A p \in Periods : /\ Held(p)[q] = IF p = run[q].period THEN run[q].reservation ELSE 0
                         /\ Held(p)'[q] = 0
  BY DEF Held, Holds, Terminal
<1>3. \A p \in Periods : reserved'[p] = reserved[p] - Held(p)[q] + Held(p)'[q]
  BY <1>1, <1>2
<1>4. Keeps(q)
  BY DEF Keeps, Terminal
<1> QED
  BY <1>3, <1>4 DEF Reserves

\* The run holds on, or holds nothing before and after.
LEMMA ReservesNothing ==
  ASSUME BudgetInv, ~torn, NEW q \in Runs, UNCHANGED reserved,
         \A r \in Runs \ {q} : run'[r] = run[r],
         Keeps(q), \A p \in Periods : Held(p)'[q] = Held(p)[q]
  PROVE  Reserves(q)
<1>1. \A p \in Periods : reserved[p] \in Int /\ Held(p)[q] \in Int
  BY DEF BudgetInv, RunInv, FenceInv, TypeOK, Held, RunRow
<1>2. \A p \in Periods : reserved'[p] = reserved[p] - Held(p)[q] + Held(p)'[q]
  BY <1>1
<1> QED
  BY <1>2 DEF Reserves

\* A status is written over another and the rest of the row stays.
LEMMA StatusWritten ==
  ASSUME BudgetInv, NEW q \in Runs, NEW s, run' = [run EXCEPT ![q].status = s]
  PROVE  /\ run'[q].status = s /\ run'[q].reservation = run[q].reservation /\ run'[q].period = run[q].period
         /\ \A r \in Runs \ {q} : run'[r] = run[r]
BY DEF BudgetInv, RunInv, FenceInv, TypeOK, RunRow

LEMMA ReservesCreate == ASSUME BudgetInv, ~torn, NEW q \in Runs, CreateAgentRun(q) PROVE Reserves(q)
<1>1. run[q].status = "absent" /\ run \in [Runs -> RunRow]
  BY DEF CreateAgentRun, BudgetInv, RunInv, FenceInv, TypeOK
<1>2. CASE run' = [run EXCEPT ![q] = Admitted("budget_blocked", 0)] /\ UNCHANGED reserved
  <2>1. run'[q].status = "budget_blocked" /\ run'[q].reservation = 0 /\ \A r \in Runs \ {q} : run'[r] = run[r]
    BY <1>1, <1>2 DEF Admitted
  <2>2. Keeps(q) /\ \A p \in Periods : Held(p)'[q] = Held(p)[q]
    BY <1>1, <2>1 DEF Keeps, Held, Holds
  <2> QED
    BY <1>2, <2>1, <2>2, ReservesNothing
<1> QED
  BY <1>1, <1>2, ReservesAdmission DEF CreateAgentRun

LEMMA ReservesClaim ==
  ASSUME BudgetInv, ~torn, NEW h \in Handlers, NEW q \in Runs, ExpireExhausted(h, q) \/ ClaimTask(h, q)
  PROVE  Reserves(q)
<1>1. Agree(q)
  BY DEF BudgetInv, RunInv
<1>2. CASE ExpireExhausted(h, q)
  <2>1. /\ task[q].status = "running" /\ run' = [run EXCEPT ![q].status = "failed"]
        /\ reserved' = [reserved EXCEPT ![run[q].period] = @ - run[q].reservation]
    BY <1>2 DEF ExpireExhausted, Exhausted
  <2>2. run[q].status = "running"
    BY <1>1, <2>1 DEF Agree, RowsAgree
  <2> QED
    BY <2>1, <2>2, StatusWritten, ReservesEnd DEF Terminal
<1>3. CASE ClaimTask(h, q)
  <2>1. /\ task[q].status \in {"queued", "running"} /\ run' = [run EXCEPT ![q].status = "running"]
        /\ UNCHANGED reserved
    BY <1>3 DEF ClaimTask, Claimable, budgetVars
  <2>2. run[q].status \in {"queued", "running"}
    BY <1>1, <2>1 DEF Agree, RowsAgree
  <2>3. /\ run'[q].status = "running" /\ run'[q].reservation = run[q].reservation
        /\ run'[q].period = run[q].period /\ \A r \in Runs \ {q} : run'[r] = run[r]
    BY <2>1, StatusWritten
  <2>4. Keeps(q) /\ \A p \in Periods : Held(p)'[q] = Held(p)[q]
    BY <2>2, <2>3 DEF Keeps, Held, Holds
  <2> QED
    BY <2>1, <2>3, <2>4, ReservesNothing
<1> QED
  BY <1>2, <1>3

\* A settlement that did not race finds its run running.
LEMMA SettlesRunning ==
  ASSUME RunInv, ~torn, NEW h \in Handlers, op[h].kind \in {"complete", "fail"}, StillSettles(op[h])
  PROVE  op[h].run \in Runs /\ run[op[h].run].status = "running"
<1>1. op[h].run \in Runs
  BY DEF RunInv, FenceInv, OpNames
<1> PICK q \in Runs : q = op[h].run
  BY <1>1
<1>2. op[h].fence \in 1..task[q].attempts /\ task[q].attempts \in 0..MaxAttempts
  BY DEF RunInv, FenceInv, OpNames, TypeOK, TaskRow
<1>3. op[h].fence \in 1..MaxAttempts
  BY <1>2, AttemptsAssumption
<1>4. attempt[q][op[h].fence] = "running" /\ Agree(q)
  BY DEF StillSettles, RunInv
<1> QED
  BY <1>3, <1>4 DEF Agree, RowsAgree

LEMMA ReservesSettle ==
  ASSUME BudgetInv, ~torn, NEW h \in Handlers, CompleteCommit(h) \/ FailCommit(h), ~torn'
  PROVE  \E q \in Runs : Reserves(q)
<1>1. op[h].kind \in {"complete", "fail"} /\ StillSettles(op[h])
  BY DEF CompleteCommit, FailCommit
<1>2. op[h].run \in Runs /\ run[op[h].run].status = "running"
  BY <1>1, SettlesRunning DEF BudgetInv
<1> PICK q \in Runs : q = op[h].run
  BY <1>2
<1>3. run[q].reservation = op[h].saw.reservation /\ run[q].period = op[h].saw.period
  BY <1>1 DEF StillSettles
<1>4. CASE run' = [run EXCEPT ![q].status = "queued"] /\ UNCHANGED reserved
  <2>1. /\ run'[q].status = "queued" /\ run'[q].reservation = run[q].reservation
        /\ run'[q].period = run[q].period /\ \A r \in Runs \ {q} : run'[r] = run[r]
    BY <1>4, StatusWritten
  <2>2. Keeps(q) /\ \A p \in Periods : Held(p)'[q] = Held(p)[q]
    BY <1>2, <2>1 DEF Keeps, Held, Holds
  <2> QED
    BY <1>4, <2>1, <2>2, ReservesNothing
<1>5. ASSUME NEW s \in Terminal, run' = [run EXCEPT ![q].status = s], ReleaseReservation(op[h])
      PROVE  Reserves(q)
  <2>1. reserved' = [reserved EXCEPT ![run[q].period] = @ - run[q].reservation]
    BY <1>3, <1>5 DEF ReleaseReservation
  <2> QED
    BY <1>2, <1>5, <2>1, StatusWritten, ReservesEnd
<1>6. \/ run' = [run EXCEPT ![q].status = "queued"] /\ UNCHANGED reserved
      \/ \E s \in Terminal : run' = [run EXCEPT ![q].status = s] /\ ReleaseReservation(op[h])
  BY DEF CompleteCommit, FailCommit, FailRetry, FailTerminal, Terminal
<1> QED
  BY <1>4, <1>5, <1>6

LEMMA ReservesCancel ==
  ASSUME BudgetInv, ~torn, NEW h \in Handlers, RequestCancel(h) \/ CancelCommit(h), ~torn'
  PROVE  \E q \in Runs : Reserves(q)
<1>1. op[h].kind = "cancel" /\ CancelKnows(h) /\ CancelsOpen(h)
  BY DEF RequestCancel, CancelCommit, BudgetInv, RunInv
<1> PICK q \in Runs : q = op[h].run
  BY <1>1 DEF CancelsOpen
<1>2. run \in [Runs -> RunRow] /\ reserved \in [Periods -> Int] /\ Unreserved(q)
  BY DEF BudgetInv, RunInv, FenceInv, TypeOK
<1>3. CASE RequestCancel(h)
  <2>1. run' = [run EXCEPT ![q].cancelRequested = TRUE] /\ UNCHANGED reserved
    BY <1>3 DEF RequestCancel, budgetVars
  <2>2. /\ run'[q].status = run[q].status /\ run'[q].reservation = run[q].reservation
        /\ run'[q].period = run[q].period /\ \A r \in Runs \ {q} : run'[r] = run[r]
    BY <1>2, <2>1 DEF RunRow
  <2>3. Keeps(q) /\ \A p \in Periods : Held(p)'[q] = Held(p)[q]
    BY <1>2, <2>2 DEF Keeps, Held, Holds, Unreserved
  <2> QED
    BY <2>1, <2>2, <2>3, ReservesNothing
<1>4. CASE CancelCommit(h)
  <2>1. /\ run[q].status = op[h].saw.status /\ run[q].status \in {"queued", "budget_blocked"}
        /\ reserved' = [reserved EXCEPT ![op[h].saw.period] = @ - op[h].saw.reservation]
        /\ run' = [run EXCEPT ![q] = Cancelled(run[q])]
    BY <1>1, <1>4 DEF CancelCommit, CancelsOpen, ReleaseReservation
  <2>2. /\ run'[q].status = "cancelled" /\ run'[q].reservation = run[q].reservation
        /\ run'[q].period = run[q].period /\ \A r \in Runs \ {q} : run'[r] = run[r]
    BY <1>2, <2>1 DEF Cancelled
  <2>3. CASE run[q].status = "queued"
    <3>1. op[h].saw.reservation = run[q].reservation /\ op[h].saw.period = run[q].period
      BY <1>1, <2>1, <2>3 DEF CancelKnows
    <3>2. reserved' = [reserved EXCEPT ![run[q].period] = @ - run[q].reservation]
      BY <2>1, <3>1
    <3> QED
      BY <2>2, <2>3, <3>2, ReservesEnd DEF Terminal
  <2>4. CASE run[q].status = "budget_blocked"
    <3>1. op[h].saw.reservation = 0
      BY <1>1, <2>1, <2>4 DEF CancelKnows
    <3>2. UNCHANGED reserved
      BY <1>2, <2>1, <3>1
    <3>3. Keeps(q) /\ \A p \in Periods : Held(p)'[q] = Held(p)[q]
      BY <2>2, <2>4 DEF Keeps, Held, Holds
    <3> QED
      BY <2>2, <3>2, <3>3, ReservesNothing
  <2> QED
    BY <2>1, <2>3, <2>4
<1> QED
  BY <1>3, <1>4

LEMMA ReservesRelease ==
  ASSUME BudgetInv, ~torn, NEW h \in Handlers, ReleaseCommit(h), ~torn'
  PROVE  UNCHANGED <<run, reserved>> \/ \E q \in Runs : Reserves(q)
<1>1. ASSUME NEW q \in op[h].ids, NEW e \in Estimates, QueueReleased(q, e),
             reserved' = [reserved EXCEPT ![day] = @ + e], torn' = (torn \/ run[q].status # "budget_blocked")
      PROVE  \E r \in Runs : Reserves(r)
  <2>1. q \in Runs
    BY DEF BudgetInv, RunInv, FenceInv, TypeOK, Op
  <2>2. run[q].status = "budget_blocked"
    BY <1>1
  <2>3. run' = [run EXCEPT ![q] = Admitted("queued", e)]
    BY <1>1, <2>2 DEF QueueReleased
  <2> QED
    BY <1>1, <2>1, <2>2, <2>3, ReservesAdmission
<1> QED
  BY <1>1 DEF ReleaseCommit

LEMMA BudgetInit == Init => BudgetInv
<1> SUFFICES ASSUME Init PROVE BudgetInv
  OBVIOUS
<1>1. RunInv
  BY RunInit
<1>2. ASSUME NEW p \in Periods PROVE reserved[p] = SumFunction(Held(p))
  <2>1. DOMAIN Held(p) = Runs /\ \A r \in Runs : Held(p)[r] = 0
    BY DEF Init, Held, Holds, AbsentRun
  <2>2. IsFiniteSet(Runs)
    BY RunsAssumption, FS_Interval
  <2>3. SumFunction(Held(p)) = 0
    BY <2>1, <2>2, SumZero DEF SumFunction
  <2> QED
    BY <2>3 DEF Init
<1>3. (\A r \in Runs : Unreserved(r)) /\ (\A h \in Handlers : CancelKnows(h))
  BY DEF Init, Unreserved, AbsentRun, CancelKnows, Idle, Holding
<1> QED
  BY <1>1, <1>2, <1>3 DEF BudgetInv, Exact

LEMMA BudgetNext == BudgetInv /\ [Next]_vars => BudgetInv'
<1> SUFFICES ASSUME BudgetInv, [Next]_vars PROVE BudgetInv'
  OBVIOUS
<1>1. RunInv'
  BY RunStep DEF BudgetInv
<1> SUFFICES ASSUME ~torn'
             PROVE  Exact' /\ (\A r \in Runs : Unreserved(r)') /\ (\A h \in Handlers : CancelKnows(h)')
  BY <1>1 DEF BudgetInv
<1>2. ~torn
  BY TornStays
<1>3. UNCHANGED <<run, reserved>> \/ \E q \in Runs : Reserves(q)
  <2>1. CASE UNCHANGED vars \/ NextDay
    BY <2>1 DEF vars, NextDay, budgetVars, rowVars
  <2>2. ASSUME NEW r \in Runs,
               CreateAgentRun(r) \/ Heartbeat(r) \/ LeaseExpires(r) \/ \E k \in 1..MaxAttempts : WorkerGone(r, k)
        PROVE  UNCHANGED <<run, reserved>> \/ \E q \in Runs : Reserves(q)
    BY <1>2, <2>2, ReservesCreate DEF Heartbeat, LeaseExpires, WorkerGone, budgetVars, rowVars
  <2>3. ASSUME NEW h \in Handlers, NothingExhausted(h) \/ BeginRelease(h) \/ Commit(h) \/ Rollback(h)
        PROVE  UNCHANGED <<run, reserved>> \/ \E q \in Runs : Reserves(q)
    BY <1>2, <2>3, ReservesRelease, ReservesSettle, ReservesCancel
       DEF Commit, NothingExhausted, BeginRelease, Rollback, budgetVars, rowVars
  <2>4. ASSUME NEW h \in Handlers, NEW r \in Runs, Handle(h, r)
        PROVE  UNCHANGED <<run, reserved>> \/ \E q \in Runs : Reserves(q)
    BY <1>2, <2>4, ReservesClaim DEF Handle, BeginCancel, BeginComplete, BeginFail, budgetVars, rowVars
  <2> QED
    BY <2>1, <2>2, <2>3, <2>4 DEF Next
<1>4. Exact' /\ \A r \in Runs : Keeps(r)
  <2>1. CASE UNCHANGED <<run, reserved>>
    BY <1>2, <2>1 DEF BudgetInv, Exact, Held, Holds, Keeps, Unreserved
  <2>2. CASE \E q \in Runs : Reserves(q)
    BY <1>1, <1>2, <2>2, ReservesExact DEF RunInv, FenceInv
  <2> QED
    BY <1>3, <2>1, <2>2
<1>5. \A r \in Runs : Unreserved(r)'
  BY <1>4 DEF Keeps, Unreserved
<1>6. ASSUME NEW h \in Handlers PROVE CancelKnows(h)'
  <2>1. CASE op'[h] = op[h]
    <3>1. CancelKnows(h) /\ CancelsOpen(h)
      BY <1>2 DEF BudgetInv, RunInv
    <3> QED
      BY <1>4, <2>1, <3>1 DEF CancelKnows, CancelsOpen, Keeps
  <2>2. CASE op'[h].kind # "cancel"
    BY <2>2 DEF CancelKnows
  <2>3. ASSUME NEW r \in Runs, op'[h].run = r, op'[h].saw = run[r], UNCHANGED run
        PROVE  CancelKnows(h)'
    <3>1. Unreserved(r)
      BY <1>2 DEF BudgetInv
    <3> QED
      BY <2>3, <3>1 DEF CancelKnows, Unreserved
  <2> QED
    BY <2>1, <2>2, <2>3, CancelsBegin DEF BudgetInv
<1> QED
  BY <1>4, <1>5, <1>6

\* Rows that agree, and a budget that is exactly what they hold.
THEOREM BudgetInvariant == Spec => []BudgetInv
BY BudgetInit, BudgetNext, PTL DEF Spec

\* Unless two requests raced, what a period has reserved is what its queued and running runs
\* hold, for any number of runs, days and requests: however a run ends, its reservation goes
\* back once, to the day it was made on (reserve, settle, CancelAgentRun, expireExhaustedAgentTask).
THEOREM ReservationsExactCorrect == Spec => []ReservationsExact
<1>1. BudgetInv => ReservationsExact
  BY DEF BudgetInv, Exact, ReservationsExact
<1> QED
  BY <1>1, BudgetInvariant, PTL

-----------------------------------------------------------------------------
(* What attempts cost and what was spent *)

\* A run is settled when it ends, and once.
Open(r) ==
  /\ ledger[r].settlements <= 1
  /\ ledger[r].settlements = 0 => ledger[r].settled = 0
  /\ ledger[r].settlements = 1 => run[r].status \in Terminal
Balanced == SumFunction(spent) = SumFunction(Paid) /\ \A r \in Runs : Open(r)

SpendInv == RunInv /\ (~torn => Balanced)

\* The rows settlements write.
LEMMA Settlements ==
  ASSUME NEW row \in LedgerRow, NEW cost \in Nat
  PROVE  /\ Settled(row, cost).settled = row.settled + row.failed + cost
         /\ Settled(row, cost).settlements = row.settlements + 1
         /\ Failing(row, cost).failed = row.failed + cost
         /\ Failing(row, cost).settled = row.settled
         /\ Failing(row, cost).settlements = row.settlements
BY DEF Settled, Failing, LedgerRow

\* A run pays for an attempt what the period is charged for it.
LEMMA Charged ==
  ASSUME SpendInv, ~torn, TypeOK', NEW q \in Runs, NEW p \in Periods, NEW cost \in Nat, NEW row \in LedgerRow,
         spent' = [spent EXCEPT ![p] = @ + cost], ledger' = [ledger EXCEPT ![q] = row],
         (IF row.settlements = 0 THEN row.failed ELSE row.settled) = Paid[q] + cost,
         Open(q)', \A r \in Runs : Ended(r)
  PROVE  Balanced'
<1>1. TypeOK /\ TypeOK'
  BY DEF SpendInv, RunInv, FenceInv
<1>2. IsFiniteSet(Runs) /\ IsFiniteSet(Periods)
  BY FiniteRows
<1>3. Paid \in [Runs -> Int] /\ Paid' \in [Runs -> Int] /\ spent \in [Periods -> Int] /\ spent' \in [Periods -> Int]
  BY <1>1 DEF Paid, TypeOK, LedgerRow
<1>4. ledger'[q] = row /\ \A r \in Runs \ {q} : ledger'[r] = ledger[r]
  BY <1>1 DEF TypeOK
<1>5. Paid'[q] = Paid[q] + cost /\ \A r \in Runs \ {q} : Paid'[r] = Paid[r]
  BY <1>4 DEF Paid
<1>6. spent'[p] = spent[p] + cost /\ \A r \in Periods \ {p} : spent'[r] = spent[r]
  BY <1>1 DEF TypeOK
<1> PICK v \in [Runs -> Int] : v = Paid
  BY <1>3
<1> PICK w \in [Runs -> Int] : w = Paid'
  BY <1>3
<1>7. SumFunction(w) = SumFunction(v) - v[q] + w[q]
  BY <1>5, RunSumChanges
<1> PICK x \in [Periods -> Int] : x = spent
  BY <1>3
<1> PICK y \in [Periods -> Int] : y = spent'
  BY <1>3
<1>8. SumFunction(y) = SumFunction(x) - x[p] + y[p]
  BY <1>6, PeriodSumChanges
<1>9. SumFunction(x) = SumFunction(v)
  BY DEF SpendInv, Balanced
<1>10. SumFunction(v) \in Int
  BY <1>2, SumInt DEF SumFunction
<1>11. SumFunction(y) = SumFunction(w)
  BY <1>5, <1>6, <1>7, <1>8, <1>9, <1>10
<1>12. \A r \in Runs \ {q} : Open(r)'
  BY <1>4 DEF SpendInv, Balanced, Open, Ended, Terminal
<1> QED
  BY <1>11, <1>12 DEF Balanced

LEMMA SettleBalanced ==
  ASSUME SpendInv, ~torn, TypeOK', NEW h \in Handlers, CompleteCommit(h) \/ FailCommit(h), ~torn',
         \A r \in Runs : Ended(r)
  PROVE  Balanced'
<1>1. op[h].kind \in {"complete", "fail"} /\ StillSettles(op[h])
  BY DEF CompleteCommit, FailCommit
<1>2. op[h].run \in Runs /\ run[op[h].run].status = "running"
  BY <1>1, SettlesRunning DEF SpendInv
<1> PICK q \in Runs : q = op[h].run
  BY <1>2
<1>3. op[h].saw.period \in Periods
  BY DEF SpendInv, RunInv, FenceInv, TypeOK, Op, RunRow
<1> PICK p \in Periods : p = op[h].saw.period
  BY <1>3
<1> PICK old \in LedgerRow : old = ledger[q]
  BY DEF SpendInv, RunInv, FenceInv, TypeOK
<1>4. run \in [Runs -> RunRow] /\ ledger \in [Runs -> LedgerRow]
  BY DEF SpendInv, RunInv, FenceInv, TypeOK
<1>5. old.settlements = 0 /\ old.settled = 0 /\ old.failed \in Nat /\ Paid[q] = old.failed
  <2>1. old.settlements \in Nat /\ old.settlements <= 1 /\ old.settlements # 1
    BY <1>2 DEF SpendInv, Balanced, Open, Terminal, LedgerRow
  <2> QED
    BY <2>1 DEF SpendInv, Balanced, Open, Paid, LedgerRow
<1>6. ASSUME NEW cost \in Costs, NEW row \in LedgerRow, NEW s \in RunStatus,
             spent' = [spent EXCEPT ![p] = @ + cost], ledger' = [ledger EXCEPT ![q] = row],
             run' = [run EXCEPT ![q].status = s],
             \/ row.settlements = 1 /\ row.settled = old.failed + cost /\ s \in Terminal
             \/ row.settlements = 0 /\ row.settled = 0 /\ row.failed = old.failed + cost
      PROVE  Balanced'
  <2>1. run'[q].status = s /\ ledger'[q] = row /\ cost \in Nat
    BY <1>4, <1>6, BudgetAssumption DEF RunRow
  <2>2. Open(q)'
    BY <1>6, <2>1 DEF Open
  <2>3. (IF row.settlements = 0 THEN row.failed ELSE row.settled) = Paid[q] + cost
    BY <1>5, <1>6
  <2> QED
    BY <1>6, <2>1, <2>2, <2>3, Charged
<1>7. CASE CompleteCommit(h)
  <2>1. PICK cost \in Costs : /\ spent' = [spent EXCEPT ![p] = @ + cost]
                              /\ ledger' = [ledger EXCEPT ![q] = Settled(old, cost)]
    BY <1>7 DEF CompleteCommit
  <2>2. cost \in Nat /\ run' = [run EXCEPT ![q].status = "completed"]
    BY <1>7, BudgetAssumption DEF CompleteCommit
  <2> PICK row \in LedgerRow : row = Settled(old, cost)
    BY <2>2, RowTypes
  <2>3. row.settlements = 1 /\ row.settled = old.failed + cost
    BY <1>5, <2>2, Settlements
  <2> QED
    BY <1>6, <2>1, <2>2, <2>3 DEF Terminal, RunStatus
<1>8. CASE FailCommit(h)
  <2>1. PICK cost \in Costs : /\ spent' = [spent EXCEPT ![p] = @ + cost]
                              /\ FailRetry(op[h], cost) \/ FailTerminal(op[h], cost)
    BY <1>8 DEF FailCommit
  <2>2. cost \in Nat
    BY BudgetAssumption
  <2> PICK failed \in LedgerRow : failed = Failing(old, cost)
    BY <2>2, RowTypes
  <2>3. failed.failed = old.failed + cost /\ failed.settled = 0 /\ failed.settlements = 0
    BY <1>5, <2>2, Settlements
  <2>4. CASE FailRetry(op[h], cost)
    <3>1. ledger' = [ledger EXCEPT ![q] = failed] /\ run' = [run EXCEPT ![q].status = "queued"]
      BY <2>4 DEF FailRetry
    <3> QED
      BY <1>6, <2>1, <2>3, <3>1 DEF RunStatus
  <2>5. CASE FailTerminal(op[h], cost)
    <3> PICK row \in LedgerRow : row = Settled(failed, 0)
      BY RowTypes
    <3>1. row.settlements = 1 /\ row.settled = old.failed + cost
      BY <1>5, <2>2, <2>3, Settlements
    <3>2. ledger' = [ledger EXCEPT ![q] = row]
      BY <2>5 DEF FailTerminal
    <3>3. PICK s \in {"cancelled", "failed"} : run' = [run EXCEPT ![q].status = s]
      BY <2>5 DEF FailTerminal
    <3> QED
      BY <1>6, <2>1, <3>1, <3>2, <3>3 DEF RunStatus, Terminal
  <2> QED
    BY <2>1, <2>4, <2>5
<1> QED
  BY <1>7, <1>8

LEMMA SpendInit == Init => SpendInv
<1> SUFFICES ASSUME Init PROVE SpendInv
  OBVIOUS
<1>1. RunInv
  BY RunInit
<1>2. IsFiniteSet(Runs) /\ IsFiniteSet(Periods)
  BY FiniteRows
<1>3. /\ DOMAIN spent = Periods /\ \A p \in Periods : spent[p] = 0
      /\ DOMAIN Paid = Runs /\ \A r \in Runs : Paid[r] = 0
  BY DEF Init, Paid
<1>4. SumFunction(spent) = 0 /\ SumFunction(Paid) = 0
  BY <1>2, <1>3, SumZero DEF SumFunction
<1>5. \A r \in Runs : Open(r)
  BY DEF Init, Open
<1> QED
  BY <1>1, <1>4, <1>5 DEF SpendInv, Balanced

LEMMA SpendNext == SpendInv /\ [Next]_vars => SpendInv'
<1> SUFFICES ASSUME SpendInv, [Next]_vars PROVE SpendInv'
  OBVIOUS
<1>1. RunInv'
  BY RunStep DEF SpendInv
<1> SUFFICES ASSUME ~torn' PROVE Balanced'
  BY <1>1 DEF SpendInv
<1>2. ~torn /\ \A r \in Runs : Ended(r)
  BY TornStays, AgreeStep DEF SpendInv
<1>3. CASE UNCHANGED <<spent, ledger>>
  <2>1. Paid' = Paid
    BY <1>3 DEF Paid
  <2>2. \A r \in Runs : Open(r)'
    BY <1>2, <1>3 DEF SpendInv, Balanced, Open, Ended
  <2> QED
    BY <1>2, <1>3, <2>1, <2>2 DEF SpendInv, Balanced
<1>4. ASSUME NEW h \in Handlers, CompleteCommit(h) \/ FailCommit(h) PROVE Balanced'
  BY <1>1, <1>2, <1>4, SettleBalanced DEF RunInv, FenceInv
<1>5. CASE UNCHANGED vars \/ NextDay
  BY <1>3, <1>5 DEF vars, NextDay, budgetVars
<1>6. ASSUME NEW r \in Runs,
             CreateAgentRun(r) \/ Heartbeat(r) \/ LeaseExpires(r) \/ \E k \in 1..MaxAttempts : WorkerGone(r, k)
      PROVE  Balanced'
  BY <1>3, <1>6 DEF CreateAgentRun, Heartbeat, LeaseExpires, WorkerGone, budgetVars
<1>7. ASSUME NEW h \in Handlers, NothingExhausted(h) \/ BeginRelease(h) \/ Commit(h) \/ Rollback(h)
      PROVE  Balanced'
  BY <1>3, <1>4, <1>7
     DEF Commit, NothingExhausted, BeginRelease, Rollback, ReleaseCommit, RequestCancel, CancelCommit, budgetVars
<1>8. ASSUME NEW h \in Handlers, NEW r \in Runs, Handle(h, r) PROVE Balanced'
  BY <1>3, <1>8 DEF Handle, ExpireExhausted, ClaimTask, BeginCancel, BeginComplete, BeginFail, budgetVars
<1> QED
  BY <1>5, <1>6, <1>7, <1>8 DEF Next

\* Rows that agree, and runs that are settled once and for all they cost.
THEOREM SpendInvariant == Spec => []SpendInv
BY SpendInit, SpendNext, PTL DEF Spec

\* Unless two requests raced, the periods were charged what the attempts of all runs cost, and a
\* run is settled once, when it ends, for any number of runs, attempts and retries
\* (finishAgentRun, FailAgentRun).
THEOREM SpendExactCorrect == Spec => []SpendExact
<1>1. SpendInv => SpendExact
  BY DEF SpendInv, Balanced, Open, SpendExact
<1> QED
  BY <1>1, SpendInvariant, PTL
=============================================================================
