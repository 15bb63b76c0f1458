---------------------------- MODULE AgentRuntime ----------------------------
(***************************************************************************)
(* The control plane's side of the agent runtime: how an agent run is      *)
(* admitted against its daily budget, leased to a runtime worker under a   *)
(* fence token, completed, failed, retried, cancelled and settled.         *)
(*                                                                         *)
(* The rows live in Postgres at READ COMMITTED (BeginTx(ctx, nil)).  A     *)
(* request that SELECTs and then writes without re-checking what it read   *)
(* is therefore two steps here: Begin... keeps what the SELECT returned in *)
(* the handler's own record op[h], ...Commit applies its writes.  A claim  *)
(* is one step, since its first UPDATE re-checks the row it selected and a *)
(* change in between makes it touch no row.  So is the sweep of exhausted  *)
(* tasks: its UPDATE re-checks status and fence, and a heartbeat that gets *)
(* in between renews a lease the sweep ends all the same.                  *)
(***************************************************************************)
EXTENDS Integers, FiniteSets, Functions

CONSTANTS
  NumRuns,      \* runs the agent ever gets, created in order 1..NumRuns
  MaxAttempts,  \* agent_runtime_tasks.max_attempts (3 in the schema)
  Days,         \* budget periods, 1..Days
  Limit,        \* daily limit of the agent, in budget units
  Estimates,    \* what reservationEstimate may return
  Costs,        \* what an attempt may report as actual_microusd
  Handlers      \* requests the control plane serves at a time

ASSUME RunsAssumption == NumRuns \in Nat /\ Days \in Nat \ {0}
ASSUME AttemptsAssumption == MaxAttempts \in Nat \ {0}
ASSUME BudgetAssumption ==
  /\ Limit \in Nat \ {0}
  /\ Estimates \subseteq 1..Limit
  /\ Costs \subseteq Nat

VARIABLES
  day,       \* the current budget period
  reserved,  \* agent_budget_periods.reserved_microusd, per period
  spent,     \* agent_budget_periods.spent_microusd, per period
  run,       \* agent_runs
  task,      \* agent_runtime_tasks of kind 'run', one per run (UNIQUE)
  attempt,   \* agent_run_attempts: status of attempt k of a run
  ledger,    \* agent_budget_ledger, summed per run
  worker,    \* what the worker that claimed attempt k of a run is doing
  op,        \* what each handler has read and not yet written
  torn       \* history: some commit wrote over rows changed since its SELECT

budgetVars == <<reserved, spent, ledger>>
rowVars == <<run, task, attempt>>
vars == <<day, reserved, spent, run, task, attempt, ledger, worker, op, torn>>

-----------------------------------------------------------------------------
(* Rows *)

Runs == 1..NumRuns
Periods == 1..Days

RunStatus == {"absent", "queued", "budget_blocked", "running",
              "completed", "failed", "cancelled"}
Terminal == {"completed", "failed", "cancelled"}
TaskStatus == {"absent", "queued", "running", "completed", "failed", "cancelled"}
AttemptStatus == {"absent", "running", "completed", "failed", "expired"}
WorkerPhase == {"none", "working", "completing", "gone"}

RunRow == [status: RunStatus, reservation: Nat, period: Periods,
           cancelRequested: BOOLEAN]
\* A fence token is fresh at every claim, and every claim increments attempts,
\* so attempt number k of a run stands for its token; 0 is NULL.
TaskRow == [status: TaskStatus, attempts: 0..MaxAttempts,
            fence: 0..MaxAttempts, expired: BOOLEAN]
LedgerRow == [failed: Nat, settled: Nat, settlements: Nat]

AbsentRun == [status |-> "absent", reservation |-> 0, period |-> 1,
              cancelRequested |-> FALSE]
AbsentTask == [status |-> "absent", attempts |-> 0, fence |-> 0, expired |-> FALSE]

OpKind == {"idle", "claim", "complete", "fail", "cancel", "release"}
\* saw and attempts: the run row and the task's attempts as the SELECT returned
\* them; ids: the blocked runs a release has listed and not visited yet.
Op == [kind: OpKind, run: 0..NumRuns, fence: 0..MaxAttempts, saw: RunRow,
       attempts: 0..MaxAttempts, ids: SUBSET Runs]
Holding(kind, ids) == [kind |-> kind, run |-> 0, fence |-> 0, saw |-> AbsentRun,
                       attempts |-> 0, ids |-> ids]
Idle == Holding("idle", {})

Init ==
  /\ day = 1
  /\ reserved = [p \in Periods |-> 0]
  /\ spent = [p \in Periods |-> 0]
  /\ run = [r \in Runs |-> AbsentRun]
  /\ task = [r \in Runs |-> AbsentTask]
  /\ attempt = [r \in Runs |-> [k \in 1..MaxAttempts |-> "absent"]]
  /\ ledger = [r \in Runs |-> [failed |-> 0, settled |-> 0, settlements |-> 0]]
  /\ worker = [r \in Runs |-> [k \in 1..MaxAttempts |-> "none"]]
  /\ op = [h \in Handlers |-> Idle]
  /\ torn = FALSE

-----------------------------------------------------------------------------
(* Admission *)

\* WHERE limit-spent-reserved >= reserve
Admits(e) == Limit - spent[day] - reserved[day] >= e


Admitted(status, e) == [status |-> status, reservation |-> e, period |-> day,
                        cancelRequested |-> FALSE]

\* INSERT ... 'queued' ... ON CONFLICT(kind,subject_id) DO NOTHING
InsertAgentTask(r) ==
  task' = IF task[r].status = "absent"
          THEN [task EXCEPT ![r].status = "queued"] ELSE task

\* createAgentRun: reserve and queue in one transaction, or record the run as
\* budget_blocked with no reservation and no task.
CreateAgentRun(r) ==
  /\ run[r].status = "absent"
  /\ \A s \in 1..(r - 1) : run[s].status # "absent"
  /\ \E e \in Estimates :
       \/ /\ Admits(e)
          /\ reserved' = [reserved EXCEPT ![day] = @ + e]
          /\ run' = [run EXCEPT ![r] = Admitted("queued", e)]
          /\ InsertAgentTask(r)
       \/ /\ ~Admits(e)
          /\ run' = [run EXCEPT ![r] = Admitted("budget_blocked", 0)]
          /\ UNCHANGED <<reserved, task>>
  /\ UNCHANGED <<day, spent, attempt, ledger, worker, op, torn>>

\* ReleaseBudgetBlockedRuns: list the blocked runs ...
BeginRelease(h) ==
  LET blocked == {r \in Runs : run[r].status = "budget_blocked"} IN
  /\ op[h] = Idle
  /\ blocked # {}
  /\ op' = [op EXCEPT ![h] = Holding("release", blocked)]
  /\ UNCHANGED <<day, budgetVars, rowVars, worker, torn>>

\* ... then one transaction per run, oldest first.  The run's own UPDATE is
\* conditional on 'budget_blocked' but nobody looks at how many rows it changed.
QueueReleased(r, e) ==
  run' = IF run[r].status = "budget_blocked"
         THEN [run EXCEPT ![r] = Admitted("queued", e)]
         ELSE run

ReleaseCommit(h) ==
  /\ op[h].kind = "release"
  /\ \E r \in op[h].ids, e \in Estimates :
       /\ \A i \in op[h].ids : r <= i
       /\ \/ /\ Admits(e)
             /\ reserved' = [reserved EXCEPT ![day] = @ + e]
             /\ QueueReleased(r, e)
             /\ InsertAgentTask(r)
             /\ op' = [op EXCEPT ![h] = IF op[h].ids = {r} THEN Idle
                                        ELSE Holding("release", op[h].ids \ {r})]
             /\ torn' = (torn \/ run[r].status # "budget_blocked")
          \/ /\ ~Admits(e)
             /\ op' = [op EXCEPT ![h] = Idle]
             /\ UNCHANGED <<reserved, run, task, torn>>
  /\ UNCHANGED <<day, spent, attempt, ledger, worker>>

-----------------------------------------------------------------------------
(* Claims and leases *)

Exhausted(r) == /\ task[r].status = "running"
                /\ task[r].expired
                /\ task[r].attempts >= MaxAttempts

\* Mutant of Claimable: the claim forgets attempts<max_attempts.
ClaimableForEver(r) ==
  \/ task[r].status = "queued"
  \/ task[r].status = "running" /\ task[r].expired

Claimable(r) ==
  /\ \/ task[r].status = "queued"
     \/ task[r].status = "running" /\ task[r].expired
  /\ task[r].attempts < MaxAttempts

\* The attempt that carries the task's fence ends as 'expired'.
ExpiredAttempts(r) ==
  [k \in 1..MaxAttempts |->
     IF k = task[r].fence /\ attempt[r][k] = "running" THEN "expired"
     ELSE attempt[r][k]]

\* expireExhaustedAgentTask, the transaction a claim request runs first.
ExpireExhausted(h, r) ==
  /\ op[h] = Idle
  /\ Exhausted(r)
  /\ op' = [op EXCEPT ![h] = Holding("claim", {})]
  /\ task' = [task EXCEPT ![r].status = "failed"]
  /\ attempt' = [attempt EXCEPT ![r] = ExpiredAttempts(r)]
  /\ run' = [run EXCEPT ![r].status = "failed"]
  /\ reserved' = [reserved EXCEPT ![run[r].period] = @ - run[r].reservation]
  /\ UNCHANGED <<day, spent, ledger, worker, torn>>

NothingExhausted(h) ==
  /\ op[h] = Idle
  /\ \A r \in Runs : ~Exhausted(r)
  /\ \E r \in Runs : Claimable(r)  \* a poll that finds nothing changes nothing
  /\ op' = [op EXCEPT ![h] = Holding("claim", {})]
  /\ UNCHANGED <<day, budgetVars, rowVars, worker, torn>>

\* Mutant of ClaimedAttempts: the attempt that lost the lease stays 'running'.
ClaimedBesideOld(r, f) == [attempt[r] EXCEPT ![f] = "running"]

\* The attempts of a run after it is claimed as attempt f: a task that was
\* 'running' loses its running attempts to 'expired'.
ClaimedAttempts(r, f) ==
  [k \in 1..MaxAttempts |->
     IF k = f THEN "running"
     ELSE IF task[r].status = "running" /\ attempt[r][k] = "running"
       THEN "expired" ELSE attempt[r][k]]

\* The transaction of ClaimAgentRuntimeTask: new fence, new attempt, and the
\* run is 'running' whatever it was.
ClaimTask(h, r) ==
  LET f == task[r].attempts + 1 IN
  /\ op[h].kind = "claim"
  /\ Claimable(r)
  /\ task' = [task EXCEPT ![r] = [status |-> "running", attempts |-> f,
                                  fence |-> f, expired |-> FALSE]]
  /\ attempt' = [attempt EXCEPT ![r] = ClaimedAttempts(r, f)]
  /\ run' = [run EXCEPT ![r].status = "running"]
  /\ worker' = [worker EXCEPT ![r][f] = "working"]
  /\ op' = [op EXCEPT ![h] = Idle]
  /\ UNCHANGED <<day, budgetVars, torn>>

\* HeartbeatAgentAttempt renews the lease of the task that still carries the
\* fence, expired or not; any other fence gets ErrAgentFenceLost.
Heartbeat(r) ==
  /\ task[r].status = "running" /\ task[r].expired
  /\ worker[r][task[r].fence] \in {"working", "completing"}
  /\ task' = [task EXCEPT ![r].expired = FALSE]
  /\ UNCHANGED <<day, budgetVars, run, attempt, worker, op, torn>>

\* The worker is heard of no more: it crashed, never got the claim's response,
\* or its requests no longer reach the control plane.
WorkerGone(r, k) ==
  /\ worker[r][k] \in {"working", "completing"}
  /\ worker' = [worker EXCEPT ![r][k] = "gone"]
  /\ UNCHANGED <<day, budgetVars, rowVars, op, torn>>

\* lease_until passes: 60 seconds without a heartbeat reaching the database.
LeaseExpires(r) ==
  /\ task[r].status = "running" /\ ~task[r].expired
  /\ task' = [task EXCEPT ![r].expired = TRUE]
  /\ UNCHANGED <<day, budgetVars, run, attempt, worker, op, torn>>

-----------------------------------------------------------------------------
(* Settlement *)

Seen(kind, r, k) ==
  [kind |-> kind, run |-> r, fence |-> k, saw |-> run[r],
   attempts |-> task[r].attempts, ids |-> {}]

\* The SELECT of finishAgentRun: attempt k is 'running'.
BeginComplete(h, r, k) ==
  /\ op[h] = Idle
  /\ worker[r][k] = "working"
  /\ attempt[r][k] = "running"
  /\ op' = [op EXCEPT ![h] = Seen("complete", r, k)]
  /\ worker' = [worker EXCEPT ![r][k] = "completing"]
  /\ UNCHANGED <<day, budgetVars, rowVars, torn>>

\* The SELECT of FailAgentRun: attempt k is 'running' and the task carries its
\* fence.  A worker whose complete got no answer sends fail, once, and the
\* complete may still be being served.
BeginFail(h, r, k) ==
  /\ op[h] = Idle
  /\ worker[r][k] \in {"working", "completing"}
  /\ attempt[r][k] = "running"
  /\ task[r].status = "running" /\ task[r].fence = k
  /\ op' = [op EXCEPT ![h] = Seen("fail", r, k)]
  /\ worker' = [worker EXCEPT ![r][k] = "gone"]
  /\ UNCHANGED <<day, budgetVars, rowVars, torn>>

\* What the SELECT of a settlement returned still holds.
StillSettles(o) ==
  /\ attempt[o.run][o.fence] = "running"
  /\ run[o.run].reservation = o.saw.reservation
  /\ run[o.run].period = o.saw.period
  /\ o.kind = "fail" => /\ task[o.run].status = "running"
                        /\ task[o.run].fence = o.fence
                        /\ run[o.run].cancelRequested = o.saw.cancelRequested

\* UPDATE agent_runtime_tasks ... WHERE subject_id=? AND fence_token=?
UpdateFencedTask(o, row) ==
  task' = IF task[o.run].fence = o.fence THEN [task EXCEPT ![o.run] = row] ELSE task

FinishAttempt(o, status) ==
  attempt' = [attempt EXCEPT ![o.run][o.fence] = status]

\* Mutant of ReleaseReservation: gives back to the current period instead of the
\* one the run reserved from.
ReleaseToday(o) ==
  reserved' = [reserved EXCEPT ![day] = @ - o.saw.reservation]

ReleaseReservation(o) ==
  reserved' = [reserved EXCEPT ![o.saw.period] = @ - o.saw.reservation]

\* Mutant of Settled: the settlement forgets what failed attempts cost.
SettledLastOnly(row, cost) ==
  [row EXCEPT !.settlements = row.settlements + 1, !.settled = row.settled + cost]

\* The 'settlement' row: this attempt's cost and the sum of the failed ones.
Settled(row, cost) ==
  [failed |-> row.failed, settled |-> row.settled + row.failed + cost,
   settlements |-> row.settlements + 1]

\* The 'failed_attempt' row.
Failing(row, cost) == [row EXCEPT !.failed = row.failed + cost]

\* finishAgentRun with status 'completed': attempt, run, fenced task, budget
\* and ledger, none of them conditional on what the SELECT saw.
CompleteCommit(h) ==
  LET o == op[h] IN
  /\ o.kind = "complete"
  /\ \E cost \in Costs :
       /\ spent' = [spent EXCEPT ![o.saw.period] = @ + cost]
       /\ ledger' = [ledger EXCEPT ![o.run] = Settled(ledger[o.run], cost)]
  /\ FinishAttempt(o, "completed")
  /\ run' = [run EXCEPT ![o.run].status = "completed"]
  /\ UpdateFencedTask(o, [task[o.run] EXCEPT !.status = "completed"])
  /\ ReleaseReservation(o)
  /\ torn' = (torn \/ ~StillSettles(o))
  /\ op' = [op EXCEPT ![h] = Idle]
  /\ UNCHANGED <<day, worker>>

\* Mutant of Retries: a failed attempt is always tried again.
RetriesForEver(o) == ~o.saw.cancelRequested

\* FailAgentRun may try again: attempts are left and nobody asked to cancel.
Retries(o) == o.attempts < MaxAttempts /\ ~o.saw.cancelRequested

\* Mutant of RequeuedTask: a retry starts counting attempts again.
RequeuedAfresh(row) ==
  [row EXCEPT !.status = "queued", !.fence = 0, !.expired = FALSE, !.attempts = 0]

RequeuedTask(row) == [status |-> "queued", attempts |-> row.attempts, fence |-> 0,
                      expired |-> FALSE]

FailRetry(o, cost) ==
  /\ run' = [run EXCEPT ![o.run].status = "queued"]
  /\ UpdateFencedTask(o, RequeuedTask(task[o.run]))
  /\ ledger' = [ledger EXCEPT ![o.run] = Failing(ledger[o.run], cost)]
  /\ UNCHANGED reserved

FailTerminal(o, cost) ==
  LET status == IF o.saw.cancelRequested THEN "cancelled" ELSE "failed"
  IN
  /\ run' = [run EXCEPT ![o.run].status = status]
  /\ UpdateFencedTask(o, [task[o.run] EXCEPT !.status = status])
  /\ ledger' = [ledger EXCEPT ![o.run] = Settled(Failing(ledger[o.run], cost), 0)]
  /\ ReleaseReservation(o)

FailCommit(h) ==
  LET o == op[h] IN
  /\ o.kind = "fail"
  /\ \E cost \in Costs :
       /\ spent' = [spent EXCEPT ![o.saw.period] = @ + cost]
       /\ \/ Retries(o) /\ FailRetry(o, cost)
          \/ ~Retries(o) /\ FailTerminal(o, cost)
  /\ FinishAttempt(o, "failed")
  /\ torn' = (torn \/ ~StillSettles(o))
  /\ op' = [op EXCEPT ![h] = Idle]
  /\ UNCHANGED <<day, worker>>

-----------------------------------------------------------------------------
(* Cancellation *)

\* CancelAgentRun reads the run before its transaction ...
BeginCancel(h, r) ==
  /\ op[h] = Idle
  /\ run[r].status \in {"queued", "budget_blocked", "running"}
  /\ op' = [op EXCEPT ![h] = Seen("cancel", r, 0)]
  /\ UNCHANGED <<day, budgetVars, rowVars, worker, torn>>

\* ... leaves a note for the worker if the run was running ...
RequestCancel(h) ==
  /\ op[h].kind = "cancel" /\ op[h].saw.status = "running"
  /\ run' = [run EXCEPT ![op[h].run].cancelRequested = TRUE]
  /\ op' = [op EXCEPT ![h] = Idle]
  /\ UNCHANGED <<day, budgetVars, task, attempt, worker, torn>>

\* Mutant of CancelTask: the cancelled run's task stays in the queue.
CancelLeavesTask(r) == UNCHANGED task

CancelTask(r) ==
  task' = IF task[r].status = "absent" THEN task
          ELSE [task EXCEPT ![r].status = "cancelled"]

Cancelled(row) == [status |-> "cancelled", reservation |-> row.reservation,
                   period |-> row.period, cancelRequested |-> TRUE]

\* ... and otherwise cancels run and task by id alone and gives the reservation
\* it read back.
CancelCommit(h) ==
  LET o == op[h] IN
  /\ o.kind = "cancel" /\ o.saw.status # "running"
  /\ ReleaseReservation(o)
  /\ run' = [run EXCEPT ![o.run] = Cancelled(run[o.run])]
  /\ CancelTask(o.run)
  /\ torn' = (torn \/ run[o.run].status # o.saw.status)
  /\ op' = [op EXCEPT ![h] = Idle]
  /\ UNCHANGED <<day, spent, attempt, ledger, worker>>

-----------------------------------------------------------------------------
(* Environment *)

\* A request dies before its commit: connection lost, deadlock victim, restart
\* of the control plane, or a claim whose UPDATE found the row taken.
Rollback(h) ==
  /\ op[h] # Idle
  /\ op' = [op EXCEPT ![h] = Idle]
  /\ UNCHANGED <<day, budgetVars, rowVars, worker, torn>>

NextDay ==
  /\ day < Days
  /\ day' = day + 1
  /\ UNCHANGED <<budgetVars, rowVars, worker, op, torn>>

Commit(h) ==
  \/ ReleaseCommit(h)
  \/ CompleteCommit(h)
  \/ FailCommit(h)
  \/ RequestCancel(h)
  \/ CancelCommit(h)

Handle(h, r) ==
  \/ ExpireExhausted(h, r)
  \/ ClaimTask(h, r)
  \/ BeginCancel(h, r)
  \/ \E k \in 1..MaxAttempts : BeginComplete(h, r, k) \/ BeginFail(h, r, k)

Next ==
  \/ \E r \in Runs : \/ CreateAgentRun(r)
                     \/ Heartbeat(r)
                     \/ LeaseExpires(r)
                     \/ \E k \in 1..MaxAttempts : WorkerGone(r, k)
  \/ \E h \in Handlers : \/ NothingExhausted(h)
                         \/ BeginRelease(h)
                         \/ Commit(h)
                         \/ Rollback(h)
                         \/ \E r \in Runs : Handle(h, r)
  \/ NextDay

Spec == Init /\ [][Next]_vars

\* The runtime polls for tasks for ever and the server gets round to its polls,
\* oldest task first, so neither a queued nor an exhausted task is passed over for
\* ever (strong fairness: a poll may roll back, and the handlers may be busy); a
\* request ends one way or the other; a worker's own timeout ends it; time passes.
Fairness ==
  /\ SF_vars(\E h \in Handlers : NothingExhausted(h))
  /\ \A h \in Handlers : WF_vars(Commit(h) \/ Rollback(h))
  /\ \A r \in Runs :
       /\ SF_vars(\E h \in Handlers : ExpireExhausted(h, r))
       /\ SF_vars(\E h \in Handlers : ClaimTask(h, r))
       /\ \A k \in 1..MaxAttempts :
            /\ WF_vars(WorkerGone(r, k))
            /\ WF_vars(task[r].fence = k /\ worker[r][k] = "gone" /\ LeaseExpires(r))

FairSpec == Spec /\ Fairness

-----------------------------------------------------------------------------
(* Invariants *)

\* Every variable keeps the type of the columns it stands for.  reserved may go
\* below zero: reserved_microusd is a plain INTEGER and every release is an
\* unchecked subtraction.
TypeOK ==
  /\ day \in Periods
  /\ reserved \in [Periods -> Int]
  /\ spent \in [Periods -> Nat]
  /\ run \in [Runs -> RunRow]
  /\ task \in [Runs -> TaskRow]
  /\ attempt \in [Runs -> [1..MaxAttempts -> AttemptStatus]]
  /\ ledger \in [Runs -> LedgerRow]
  /\ worker \in [Runs -> [1..MaxAttempts -> WorkerPhase]]
  /\ op \in [Handlers -> Op]
  /\ torn \in BOOLEAN

\* The fence token guards the run: however requests race, the only attempt that
\* can be 'running' is the newest one, and the task carries its fence.  An
\* attempt whose lease was taken over or handed back can therefore not settle
\* anything through a fresh SELECT.
FenceExclusive ==
  \A r \in Runs, k \in 1..MaxAttempts :
    attempt[r][k] = "running" => task[r].fence = k /\ task[r].attempts = k

\* Why the fence holds.  A task that can be claimed as 'queued' carries no fence,
\* an attempt exists once it is claimed, and a settlement in flight names an
\* attempt of its run.
RunFenced(r) ==
  /\ task[r].status \in {"absent", "queued"} => task[r].fence = 0
  /\ \A k \in 1..MaxAttempts :
       /\ attempt[r][k] = "running" => task[r].fence = k /\ task[r].attempts = k
       /\ k > task[r].attempts => attempt[r][k] = "absent"

OpNames(h) ==
  op[h].kind \in {"complete", "fail"} =>
    /\ op[h].run \in Runs
    /\ op[h].fence \in 1..task[op[h].run].attempts

\* The inductive invariant of claims, retries, sweeps and settlements together.
FenceInv == TypeOK /\ (\A r \in Runs : RunFenced(r)) /\ (\A h \in Handlers : OpNames(h))

\* A run is in the queue exactly when its task is, running exactly when its task
\* is leased, and finished the way its task is; it has no task before admission.
RowsAgree(r) ==
  IF task[r].status = "absent"
  THEN run[r].status \in {"absent", "budget_blocked", "cancelled"}
  ELSE run[r].status = task[r].status

\* Unless two requests raced, no run is lost: 'queued' with nothing to claim, or
\* 'running' with nobody leasing it (claim, complete, fail, cancel, sweep).
RunMatchesTask == ~torn => \A r \in Runs : RowsAgree(r)

\* Unless two requests raced, each period's reserved_microusd is what its queued
\* and running runs hold: nothing leaks when a run ends in any of the five ways
\* it can end, and nothing is given back twice.
Holds(r, p) == run[r].period = p /\ run[r].status \in {"queued", "running"}
Held(p) == [r \in Runs |-> IF Holds(r, p) THEN run[r].reservation ELSE 0]
ReservationsExact == ~torn => \A p \in Periods : reserved[p] = SumFunction(Held(p))

\* Unless two requests raced, what was spent of all budget periods is what the
\* attempts of each run cost, and a run that has ended by a worker's answer is
\* settled once, for the cost of all its attempts (finishAgentRun, FailAgentRun).
Paid == [r \in Runs |-> IF ledger[r].settlements = 0 THEN ledger[r].failed ELSE ledger[r].settled]
SpendExact ==
  ~torn => /\ SumFunction(spent) = SumFunction(Paid)
           /\ \A r \in Runs : ledger[r].settlements <= 1
           /\ \A r \in Runs : ledger[r].settlements = 1 => run[r].status \in Terminal

-----------------------------------------------------------------------------
(* Action properties *)

\* An attempt that is over never runs again and a run's attempts only grow, so
\* its fence stays dead whatever a late request of its worker does.
OverStaysOver(r) ==
  /\ task'[r].attempts >= task[r].attempts
  /\ \A k \in 1..MaxAttempts :
       attempt[r][k] \notin {"absent", "running"} =>
         attempt'[r][k] \notin {"absent", "running"}
NoRevival == [][\A r \in Runs : OverStaysOver(r)]_vars

\* A run that has ended stays as it ended, for every request but one that raced
\* another: CancelAgentRun and the settlements check before they write.
Ended(r) == run[r].status \in Terminal => run'[r].status = run[r].status
TerminalStays == [][~torn' => \A r \in Runs : Ended(r)]_vars

-----------------------------------------------------------------------------
(* Liveness *)

\* An admitted run ends: whatever crashes, expired leases and retries it meets,
\* it is claimed again until it completes, is cancelled or runs out of attempts.
AdmittedRunsEnd ==
  \A r \in Runs :
    run[r].status \in {"queued", "running"} ~> run[r].status \in Terminal \/ torn
=============================================================================
