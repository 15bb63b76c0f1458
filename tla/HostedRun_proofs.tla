-------------------------- MODULE HostedRun_proofs --------------------------
(***************************************************************************)
(* A run under the hosted control plane, for any number of jobs, phases,   *)
(* workers, requests and faults.                                           *)
(*                                                                         *)
(* JobInHand says that the job of a launch is running or cancelled, which  *)
(* is all that JobsStay needs.  The other properties speak of histories    *)
(* without an exception.  In these the only worker is the one that the     *)
(* launcher executes (Attached), and whoever writes the run's row has just *)
(* seen it; so what row, phases, epic, pull request and jobs say of each   *)
(* other can only be behind by the one write that somebody still owes:     *)
(* Truth, Review and HasJob name the debtor, and "cut" is recorded when he *)
(* stops without paying.                                                   *)
(***************************************************************************)
EXTENDS HostedRun, TLAPS

USE JobsAssumption, PhasesAssumption, FromAssumption, ProcessesAssumption

Done == {"completed", "skipped"}

\* The launch and the job it has in hand; rows are filled one after the other.
JobInHand ==
  /\ launch.pc # "idle" => launch.job \in Jobs /\ job[launch.job].status \in {"running", "cancelled"}
  /\ \A j \in Jobs : job[j].status # "none" => job[j].payload \in Payloads
  /\ \E n \in 0..MaxJobs : \A j \in Jobs : job[j].status = "none" <=> j > n

\* What the copies say that workers, launch and requests have of the run.
WorkerFits(rec) ==
  /\ rec.pc \in {"phase", "opened"} => rec.copy.status = "running"
  /\ rec.pc \in {"sealed", "done", "unsaying"} => rec.copy.status = "completed"
  /\ rec.pc = "failing" => rec.copy.status \in {"running", "completed"}
  /\ rec.pc = "failed" => rec.copy.status = "failed"
  /\ rec.pc \notin {"gone", "up"} => rec.at \in Phase
RequestFits(rec) ==
  /\ rec.pc = "resume" => rec.copy.status \notin Active
  /\ rec.pc \in {"approve", "merged", "rollback", "closed"} => rec.copy.mode = "draft"
  /\ rec.pc \in {"resume", "released", "reset"} => rec.locked
WorkersFit == \A w \in Workers : WorkerFits(worker[w])
LaunchFits == launch.pc = "publishing" => launch.copy.status = "completed"
RequestsFit ==
  /\ \A h \in Requests : RequestFits(request[h])
  /\ \A h, i \in Requests : request[h].locked /\ request[i].locked => h = i

\* No worker but the one the launcher executes.
Attached == \A w \in Workers : Alive(w) => launch.pc = "exec" /\ launch.worker = w

\* The phases a worker has behind it.
Behind ==
  \A w \in Workers :
    /\ worker[w].pc \in {"phase", "opened", "sealed"} => \A p \in 1..(worker[w].at - 1) : phase[p] \in Done
    /\ worker[w].pc = "sealed" => worker[w].at = NumPhases
    /\ worker[w].pc = "done" => AllDone

\* TerminalTruth while somebody is still about to write.
Finishing(w) == worker[w].pc \in {"sealed", "done", "failing"} /\ worker[w].copy.status = "completed"
Truth ==
  /\ run.status = "completed" =>
       (AllDone /\ epic \in {"in_review", "completed"}) \/ \E w \in Workers : Finishing(w)
  /\ run.status = "failed" => epic = "failed" \/ AllDone \/ \E w \in Workers : worker[w].pc = "failed"
  /\ run.status = "cancelled" => epic = "cancelled" \/ \E h \in Requests : request[h].pc = "cancelEpic"

\* ReviewMatchesPull while somebody is still about to write.
Merging == \E h \in Requests : request[h].pc = "merged"
Closing == \E h \in Requests : request[h].pc = "closed"
Opening == \E w \in Workers : worker[w].pc = "opened"
Review ==
  /\ run.pr \/ Opening => pull # "none"
  /\ pull # "none" => run.pr \/ Opening
  /\ run.mode = "merged" => pull = "merged"
  /\ pull = "merged" => run.mode = "merged" \/ Merging
  /\ run.mode = "rolled_back" => pull = "closed" \/ (pull = "merged" /\ Merging)
  /\ pull = "closed" => run.mode = "rolled_back" \/ Closing
  /\ \A h \in Requests :
       /\ request[h].pc = "merged" => pull = "merged"
       /\ request[h].pc = "closed" => pull \in {"closed", "merged"}
       /\ request[h].pc = "rollback" => pull # "none"

\* A resume between the release of the old jobs and the new one.
Resuming == \E h \in Requests : request[h].pc \in {"released", "reset"}
NoneLive == \A j \in Jobs : ~JobLive(j)
HasJob ==
  /\ run.status = "cancelled" \/ Resuming => NoneLive
  /\ run.status \in Active => Resuming \/ \E j \in Jobs : JobLive(j) \/ job[j].status = "failed"
  /\ launch.pc # "idle" /\ job[launch.job].status = "cancelled" =>
       run.status = "cancelled" \/ Resuming \/ ~NoneLive
  /\ launch.pc = "answer" /\ launch.ok /\ run.status \in Active => job[launch.job].status = "cancelled"

Consistent == Attached /\ Behind /\ Truth /\ Review /\ HasJob

HostedInv ==
  /\ TypeOK /\ JobInHand /\ WorkersFit /\ LaunchFits /\ RequestsFit
  /\ history = {} => Consistent

-----------------------------------------------------------------------------
(* Rows and jobs *)

LEMMA NothingYet ==
  /\ 0 \notin Phase /\ 1 \in Phase /\ NumPhases \in Phase /\ NumPhases \in Nat /\ PrPhase \in Phase
  /\ NewRun \in RunRow /\ Gone \in Worker /\ WorkerFits(Gone) /\ Gone.pc = "gone" /\ ~Gone.ok
  /\ NotServing \in Request /\ RequestFits(NotServing) /\ NotServing.pc = "idle" /\ ~NotServing.locked
  /\ NotLaunching \in Launch /\ NotLaunching.pc = "idle"
<1>1. 0 \notin Phase /\ 1 \in Phase /\ NumPhases \in Phase /\ NumPhases \in Nat /\ PrPhase \in Phase
  BY DEF Phase
<1>2. NewRun \in RunRow
  BY <1>1 DEF NewRun, RunRow, RunStatus
<1>3. Gone \in Worker /\ WorkerFits(Gone) /\ Gone.pc = "gone" /\ ~Gone.ok
  BY <1>1, <1>2 DEF Gone, Worker, WorkerFits
<1>4. NotServing \in Request /\ RequestFits(NotServing) /\ NotServing.pc = "idle" /\ ~NotServing.locked
  BY <1>1, <1>2 DEF NotServing, Request, RequestFits
<1>5. (CHOOSE w \in Workers : TRUE) \in Workers
  OBVIOUS
<1>6. NotLaunching \in Launch /\ NotLaunching.pc = "idle"
  BY <1>2, <1>5 DEF NotLaunching, Launch
<1> QED
  BY <1>1, <1>2, <1>3, <1>4, <1>6

\* A row of jobs that is given another status, or one more attempt.
LEMMA JobWith ==
  ASSUME NEW row \in JobRow, NEW status \in JobStatus
  PROVE  /\ [row EXCEPT !.status = status] \in JobRow
         /\ [row EXCEPT !.status = status].status = status
         /\ [row EXCEPT !.status = status].payload = row.payload
BY DEF JobRow

LEMMA ClaimsJob ==
  ASSUME job \in [Jobs -> JobRow], NEW j \in Jobs, job' = ClaimedJob(j)
  PROVE  /\ job' \in [Jobs -> JobRow] /\ \A k \in Jobs : k # j => job'[k] = job[k]
         /\ job'[j].status = "running" /\ job'[j].payload = job[j].payload
<1> DEFINE r == [status |-> "running", attempts |-> job[j].attempts + 1, payload |-> job[j].payload]
<1>1. job[j] \in JobRow
  OBVIOUS
<1>2. r \in JobRow /\ r.status = "running" /\ r.payload = job[j].payload
  BY <1>1 DEF JobRow, JobStatus
<1>3. job'[j] = r
  BY <1>1 DEF ClaimedJob, JobRow
<1>4. \A k \in Jobs : k # j => job'[k] = job[k]
  BY DEF ClaimedJob
<1>5. job' = [k \in Jobs |-> job'[k]]
  BY DEF ClaimedJob
<1> QED
  BY <1>2, <1>3, <1>4, <1>5

\* What CompleteJob and FailJob do to the job of a launch.
LEMMA AnswersJob ==
  ASSUME job \in [Jobs -> JobRow], NEW j \in Jobs, NEW attempts,
         job' = CompletedJob(j) \/ job' = FailedJob(j, attempts)
  PROVE  /\ job' \in [Jobs -> JobRow] /\ \A k \in Jobs : k # j => job'[k] = job[k]
         /\ job'[j].payload = job[j].payload
         /\ job[j].status = "cancelled" => job' = job
         /\ job' = CompletedJob(j) /\ job[j].status # "cancelled" => job'[j].status = "completed"
         /\ job' = FailedJob(j, attempts) /\ job[j].status # "cancelled" => job'[j].status \in {"failed", "retry"}
<1>1. ASSUME NEW status \in JobStatus, job' = [job EXCEPT ![j].status = status]
      PROVE  /\ job' \in [Jobs -> JobRow] /\ \A k \in Jobs : k # j => job'[k] = job[k]
             /\ job'[j].payload = job[j].payload /\ job'[j].status = status
  <2> DEFINE r == [job[j] EXCEPT !.status = status]
  <2>1. r \in JobRow /\ r.status = status /\ r.payload = job[j].payload
    BY JobWith
  <2>2. job' = [job EXCEPT ![j] = r]
    BY <1>1
  <2> HIDE DEF r
  <2> QED
    BY <2>1, <2>2
<1>2. CASE job[j].status = "cancelled"
  <2>1. job' = job
    BY <1>2 DEF CompletedJob, FailedJob
  <2> QED
    BY <1>2, <2>1
<1>3. CASE job[j].status # "cancelled"
  <2>1. job' = CompletedJob(j) => job' = [job EXCEPT ![j].status = "completed"]
    BY <1>3 DEF CompletedJob
  <2>2. job' = FailedJob(j, attempts) =>
          job' = [job EXCEPT ![j].status = "failed"] \/ job' = [job EXCEPT ![j].status = "retry"]
    BY <1>3 DEF FailedJob
  <2>3. CASE job' = [job EXCEPT ![j].status = "completed"]
    <3>1. job'[j].status = "completed"
      BY <1>1, <2>3 DEF JobStatus
    <3>2. job' # FailedJob(j, attempts)
      BY <1>1, <2>2, <3>1 DEF JobStatus
    <3> QED
      BY <1>1, <1>3, <2>3, <3>1, <3>2 DEF JobStatus
  <2>4. CASE job' = [job EXCEPT ![j].status = "failed"] \/ job' = [job EXCEPT ![j].status = "retry"]
    <3>1. job'[j].status \in {"failed", "retry"}
      BY <1>1, <2>4 DEF JobStatus
    <3>2. job' # CompletedJob(j)
      BY <1>1, <2>1, <3>1 DEF JobStatus
    <3> QED
      BY <1>1, <1>3, <2>4, <3>1, <3>2 DEF JobStatus
  <2> QED
    BY <2>1, <2>2, <2>3, <2>4
<1> QED
  BY <1>2, <1>3

LEMMA CancelsJobs ==
  ASSUME job \in [Jobs -> JobRow], job' = CancelledJobs(Jobs)
  PROVE  /\ job' \in [Jobs -> JobRow] /\ NoneLive'
         /\ \A j \in Jobs : /\ JobLive(j) => job'[j].status = "cancelled"
                            /\ ~JobLive(j) => job'[j] = job[j]
                            /\ job'[j].payload = job[j].payload
<1>1. ASSUME NEW j \in Jobs
      PROVE  /\ job'[j] \in JobRow
             /\ JobLive(j) => job'[j].status = "cancelled"
             /\ ~JobLive(j) => job'[j] = job[j]
             /\ job'[j].payload = job[j].payload
             /\ ~JobLive(j)'
  <2>1. CASE JobLive(j)
    <3>1. job'[j] = [job[j] EXCEPT !.status = "cancelled"]
      BY <2>1 DEF CancelledJobs
    <3>2. job[j] \in JobRow /\ "cancelled" \in JobStatus
      BY DEF JobStatus
    <3>3. job'[j] \in JobRow /\ job'[j].status = "cancelled" /\ job'[j].payload = job[j].payload
      BY <3>1, <3>2, JobWith
    <3> QED
      BY <2>1, <3>3 DEF JobLive, Unclaimed
  <2>2. CASE ~JobLive(j)
    BY <2>2 DEF CancelledJobs, JobLive
  <2> QED
    BY <2>1, <2>2
<1>2. job' = [j \in Jobs |-> job'[j]]
  BY DEF CancelledJobs
<1> QED
  BY <1>1, <1>2 DEF NoneLive

LEMMA EnqueuesJob ==
  ASSUME job \in [Jobs -> JobRow], JobInHand, HasRoom, NEW p \in Payloads, job' = Enqueued(p)
  PROVE  /\ job' \in [Jobs -> JobRow]
         /\ \A j \in Jobs : job[j].status # "none" => job'[j] = job[j]
         /\ \A j \in Jobs : job'[j].status # "none" => job'[j].payload \in Payloads
         /\ \E j \in Jobs : JobLive(j)'
         /\ \E n \in 0..MaxJobs : \A j \in Jobs : job'[j].status = "none" <=> j > n
<1> DEFINE r == [status |-> "pending", attempts |-> 0, payload |-> p]
<1>1. PICK n \in 0..MaxJobs : \A j \in Jobs : job[j].status = "none" <=> j > n
  BY DEF JobInHand
<1>2. n + 1 \in Jobs /\ n + 1 \in 0..MaxJobs
  <2>1. PICK j \in Jobs : job[j].status = "none"
    BY DEF HasRoom
  <2> QED
    BY <1>1, <2>1 DEF Jobs
<1>3. \A j \in Jobs : IsNew(j) <=> j = n + 1
  <2> TAKE j \in Jobs
  <2>1. ASSUME j = n + 1 PROVE IsNew(j)
    BY <1>1, <1>2, <2>1 DEF IsNew, Jobs
  <2>2. ASSUME IsNew(j), j # n + 1 PROVE FALSE
    <3>1. j > n /\ n + 1 \in 1..(j - 1)
      BY <1>1, <1>2, <2>2 DEF IsNew, Jobs
    <3> QED
      BY <1>1, <1>2, <2>2, <3>1 DEF IsNew
  <2> QED
    BY <2>1, <2>2
<1>4. r \in JobRow /\ r.status = "pending" /\ r.payload = p
  BY DEF JobRow, JobStatus
<1> HIDE DEF r
<1>5. job' = [j \in Jobs |-> IF j = n + 1 THEN r ELSE job[j]]
  BY <1>3 DEF Enqueued, r
<1>6. job' \in [Jobs -> JobRow] /\ job'[n + 1] = r /\ \A j \in Jobs : j # n + 1 => job'[j] = job[j]
  BY <1>2, <1>4, <1>5
<1>7. \A j \in Jobs : job'[j].status = "none" <=> j > n + 1
  BY <1>1, <1>2, <1>4, <1>6 DEF Jobs
<1>8. JobLive(n + 1)'
  BY <1>4, <1>6 DEF JobLive, Unclaimed
<1> QED
  BY <1>1, <1>2, <1>4, <1>6, <1>7, <1>8 DEF JobInHand

-----------------------------------------------------------------------------
(* What a step leaves as it was *)

\* No worker has more behind it, none leaves a write it owes, none opens or records a pull
\* request.
NoneNew ==
  \A w \in Workers :
    \/ worker'[w] = worker[w]
    \/ worker'[w].pc \in {"gone", "up", "loaded", "failing", "unsaying", "failed"}
NoneMissed ==
  \A w \in Workers : /\ Finishing(w) => Finishing(w)'
                     /\ worker[w].pc = "failed" => worker'[w].pc = "failed"
NoneOpens == \A w \in Workers : worker'[w].pc = "opened" <=> worker[w].pc = "opened"

LEMMA BehindStays ==
  ASSUME Behind, UNCHANGED phase, NoneNew
  PROVE  Behind'
BY DEF Behind, NoneNew, AllDone

LEMMA TruthStays ==
  ASSUME Truth, UNCHANGED <<phase, epic>>, run'.status = run.status, NoneMissed,
         \A h \in Requests : request[h].pc = "cancelEpic" => request'[h].pc = "cancelEpic"
  PROVE  Truth'
<1>1. AllDone' <=> AllDone
  BY DEF AllDone
<1> QED
  BY <1>1 DEF Truth, NoneMissed

LEMMA ReviewStays ==
  ASSUME Review, UNCHANGED pull, run'.pr = run.pr, run'.mode = run.mode, NoneOpens,
         \A h \in Requests : request[h].pc \in {"merged", "closed"} => request'[h].pc = request[h].pc,
         \A h \in Requests : request'[h].pc \in {"merged", "closed"} => request'[h].pc = request[h].pc,
         \A h \in Requests : request'[h].pc = "rollback" => request[h].pc = "rollback" \/ pull # "none"
  PROVE  Review'
<1>1. (Opening <=> Opening') /\ (Merging => Merging') /\ (Closing => Closing')
  BY DEF NoneOpens, Opening, Merging, Closing
<1> QED
  BY <1>1 DEF Review

LEMMA HasJobStays ==
  ASSUME HasJob, UNCHANGED job, run'.status = run.status,
         \A h \in Requests : request'[h].pc \in {"released", "reset"} <=> request[h].pc \in {"released", "reset"},
         launch'.pc # "idle" => launch.pc # "idle" /\ launch'.job = launch.job,
         launch'.pc = "answer" /\ launch'.ok /\ run.status \in Active => launch.pc = "answer" /\ launch.ok
  PROVE  HasJob'
<1>1. (Resuming' <=> Resuming) /\ (NoneLive' <=> NoneLive) /\ \A j \in Jobs : JobLive(j)' <=> JobLive(j)
  BY DEF Resuming, NoneLive, JobLive
<1> QED
  BY <1>1 DEF HasJob

\* A step that only writes into the pull request, the sandbox or the count of faults.
LEMMA JobInHandStays ==
  ASSUME JobInHand, UNCHANGED job, launch'.pc # "idle" => launch.pc # "idle" /\ launch'.job = launch.job
  PROVE  JobInHand'
BY DEF JobInHand

\* history only grows, by what it is noted for.
LEMMA Noted ==
  ASSUME TypeOK, NEW what \in {"overwritten", "revived", "cut", "detached"}, NEW condition \in BOOLEAN,
         Note(what, condition)
  PROVE  /\ history' \in SUBSET {"overwritten", "revived", "cut", "detached"}
         /\ history' = {} => history = {} /\ ~condition
BY DEF Note, TypeOK

LEMMA Written ==
  ASSUME TypeOK, NEW seen, NEW row \in RunRow, Write(seen, row)
  PROVE  /\ run' = row /\ run' \in RunRow
         /\ history' \in SUBSET {"overwritten", "revived", "cut", "detached"}
         /\ history' = {} => history = {} /\ run = seen /\ ~(run.status = "cancelled" /\ row.status = "running")
BY DEF Write, TypeOK

-----------------------------------------------------------------------------
(* The worker *)

LEMMA WorkerMoves ==
  ASSUME HostedInv, NEW w \in Workers, Alive(w), NEW rec \in Worker, WorkerFits(rec), Goes(w, rec),
         UNCHANGED <<job, launch, request>>
  PROVE  /\ worker' \in [Workers -> Worker] /\ worker'[w] = rec /\ \A v \in Workers : v # w => worker'[v] = worker[v]
         /\ JobInHand' /\ WorkersFit' /\ LaunchFits' /\ RequestsFit'
         /\ history = {} => /\ Attached' /\ launch.pc = "exec"
                            /\ \A v \in Workers : v # w => worker[v].pc = "gone"
<1>1. worker' \in [Workers -> Worker] /\ worker'[w] = rec /\ \A v \in Workers : v # w => worker'[v] = worker[v]
  BY DEF HostedInv, TypeOK, Goes
<1>2. JobInHand' /\ LaunchFits' /\ RequestsFit'
  BY JobInHandStays DEF HostedInv, LaunchFits, RequestsFit
<1>3. WorkersFit'
  BY <1>1 DEF HostedInv, WorkersFit
<1>4. ASSUME history = {}
      PROVE  Attached' /\ launch.pc = "exec" /\ \A v \in Workers : v # w => worker[v].pc = "gone"
  BY <1>1, <1>4 DEF HostedInv, Consistent, Attached, Alive
<1> QED
  BY <1>1, <1>2, <1>3, <1>4

\* A worker that writes its copy of the row.
LEMMA SavesMoves ==
  ASSUME HostedInv, NEW w \in Workers, Alive(w), NEW row \in RunRow, NEW rec \in Worker, WorkerFits(rec),
         Goes(w, rec), Write(worker[w].copy, row), UNCHANGED <<job, launch, request>>,
         row.status # "cancelled", worker[w].copy.status # "cancelled" \/ row.status = "running"
  PROVE  /\ run' = row /\ run' \in RunRow /\ history' \in SUBSET {"overwritten", "revived", "cut", "detached"}
         /\ history' = {} => history = {} /\ run = worker[w].copy /\ run.status # "cancelled" /\ HasJob'
<1>1. /\ run' = row /\ run' \in RunRow /\ history' \in SUBSET {"overwritten", "revived", "cut", "detached"}
      /\ history' = {} => history = {} /\ run = worker[w].copy /\ ~(run.status = "cancelled" /\ row.status = "running")
  BY Written DEF HostedInv
<1>2. ASSUME history' = {} PROVE HasJob'
  <2>1. HasJob /\ JobInHand /\ launch.pc = "exec" /\ run.status # "cancelled"
    BY <1>1, <1>2, WorkerMoves DEF HostedInv, Consistent
  <2>2. (Resuming' <=> Resuming) /\ (NoneLive' <=> NoneLive) /\ \A j \in Jobs : JobLive(j)' <=> JobLive(j)
    BY DEF Resuming, NoneLive, JobLive
  <2>3. Resuming \/ ~NoneLive
    <3>1. CASE job[launch.job].status = "cancelled"
      BY <2>1, <3>1 DEF HasJob
    <3>2. CASE job[launch.job].status = "running"
      BY <2>1, <3>2 DEF JobInHand, NoneLive, JobLive
    <3> QED
      BY <2>1, <3>1, <3>2 DEF JobInHand
  <2> QED
    BY <1>1, <2>1, <2>2, <2>3 DEF HasJob, NoneLive
<1> QED
  BY <1>1, <1>2

LEMMA LoadKeeps ==
  ASSUME HostedInv, NEW w \in Workers, Load(w)
  PROVE  HostedInv'
<1> DEFINE start == StartPhase(worker[w].at)
           rec == [worker[w] EXCEPT !.pc = "loaded", !.copy = run, !.at = start]
<1>1. /\ worker[w].pc = "up" /\ Alive(w) /\ Goes(w, rec)
      /\ UNCHANGED <<job, run, phase, epic, pull, sandbox, launch, request, faults, history>>
  BY DEF Load, Alive
<1>2. worker[w] \in Worker /\ run \in RunRow
  BY DEF HostedInv, TypeOK
<1>3. start \in Phase /\ start \in 0..NumPhases
  BY <1>2 DEF StartPhase, Worker, RunRow, Phase
<1> HIDE DEF start
<1>4. rec \in Worker /\ WorkerFits(rec) /\ rec.pc = "loaded"
  <2>1. rec \in Worker
    BY <1>2, <1>3 DEF Worker
  <2>2. rec.pc = "loaded" /\ rec.at = start
    BY <1>2 DEF Worker
  <2> QED
    BY <1>3, <2>1, <2>2 DEF WorkerFits
<1> HIDE DEF rec
<1>5. /\ worker' \in [Workers -> Worker] /\ worker'[w] = rec /\ \A v \in Workers : v # w => worker'[v] = worker[v]
      /\ JobInHand' /\ WorkersFit' /\ LaunchFits' /\ RequestsFit'
      /\ history = {} => Attached'
  BY <1>1, <1>4, WorkerMoves
<1>6. TypeOK'
  BY <1>1, <1>5 DEF HostedInv, TypeOK
<1>7. ASSUME history' = {} PROVE Consistent'
  <2>1. NoneNew /\ NoneMissed /\ NoneOpens
    BY <1>1, <1>4, <1>5 DEF NoneNew, NoneMissed, NoneOpens, Finishing
  <2> QED
    BY <1>1, <1>5, <1>7, <2>1, BehindStays, TruthStays, ReviewStays, HasJobStays DEF HostedInv, Consistent
<1> QED
  BY <1>5, <1>6, <1>7 DEF HostedInv

LEMMA BeginKeeps ==
  ASSUME HostedInv, NEW w \in Workers, Begin(w)
  PROVE  HostedInv'
<1> DEFINE seen == worker[w].copy
           row == [seen EXCEPT !.status = "running", !.phase = worker[w].at]
           rec == [worker[w] EXCEPT !.pc = "phase", !.copy = row]
<1>1. /\ worker[w].pc = "loaded" /\ Alive(w) /\ Write(worker[w].copy, row) /\ Goes(w, rec)
      /\ UNCHANGED <<job, epic, pull, sandbox, launch, request, faults>>
  BY DEF Begin, Saves, Alive
<1>2. worker[w] \in Worker /\ worker[w].at \in Phase
  BY <1>1 DEF HostedInv, TypeOK, WorkersFit, WorkerFits
<1>3. row \in RunRow /\ row.status = "running" /\ row.pr = seen.pr /\ row.mode = seen.mode
  BY <1>2 DEF Worker, RunRow, RunStatus, Phase
<1> HIDE DEF row
<1>4. rec \in Worker /\ rec.pc = "phase" /\ rec.copy = row /\ rec.at = worker[w].at
  BY <1>2, <1>3 DEF Worker
<1>5. WorkerFits(rec)
  BY <1>2, <1>3, <1>4 DEF WorkerFits
<1> HIDE DEF rec
<1>6. /\ worker' \in [Workers -> Worker] /\ worker'[w] = rec /\ \A v \in Workers : v # w => worker'[v] = worker[v]
      /\ JobInHand' /\ WorkersFit' /\ LaunchFits' /\ RequestsFit'
      /\ history = {} => Attached' /\ \A v \in Workers : v # w => worker[v].pc = "gone"
  BY <1>1, <1>4, <1>5, WorkerMoves
<1>7. /\ run' = row /\ run' \in RunRow /\ history' \in SUBSET {"overwritten", "revived", "cut", "detached"}
      /\ history' = {} => history = {} /\ run = seen /\ HasJob'
  BY <1>1, <1>3, <1>4, <1>5, SavesMoves
<1>8. /\ phase' \in [Phase -> PhaseStatus]
      /\ \A p \in Phase : p < worker[w].at => phase'[p] \in Done
  <2>1. phase' = [p \in Phase |->
                    IF p = worker[w].at THEN "running"
                    ELSE IF p < worker[w].at /\ phase[p] # "completed" THEN "skipped" ELSE phase[p]]
    BY DEF Begin
  <2>2. \A p \in Phase : phase[p] \in PhaseStatus
    BY DEF HostedInv, TypeOK
  <2>3. \A p \in Phase : phase'[p] \in {"running", "skipped", phase[p]}
    BY <2>1
  <2>4. \A p \in Phase : p < worker[w].at => phase'[p] \in Done
    BY <1>2, <2>1 DEF Done, Phase
  <2> QED
    BY <2>1, <2>2, <2>3, <2>4 DEF PhaseStatus
<1>9. TypeOK'
  BY <1>1, <1>6, <1>7, <1>8 DEF HostedInv, TypeOK
<1>10. ASSUME history' = {} PROVE Consistent'
  <2>1. Consistent /\ run.pr = row.pr /\ run.mode = row.mode
    BY <1>3, <1>7, <1>10 DEF HostedInv
  <2>2. \A v \in Workers : v # w => worker'[v].pc = "gone"
    BY <1>6, <1>7, <1>10
  <2>3. \A p \in 1..(worker[w].at - 1) : p \in Phase /\ p < worker[w].at
    BY <1>2 DEF Phase
  <2>4. Behind'
    BY <1>4, <1>6, <1>8, <2>2, <2>3 DEF Behind
  <2>5. Truth'
    BY <1>3, <1>7 DEF Truth
  <2>6. Review'
    <3>1. Opening <=> Opening'
      BY <1>1, <1>4, <1>6 DEF Opening
    <3>2. (Merging => Merging') /\ (Closing => Closing')
      BY <1>1 DEF Merging, Closing
    <3> QED
      BY <1>1, <1>7, <2>1, <3>1, <3>2 DEF Consistent, Review
  <2> QED
    BY <1>6, <1>7, <1>10, <2>4, <2>5, <2>6 DEF Consistent
<1> QED
  BY <1>6, <1>9, <1>10 DEF HostedInv

LEMMA PlanEpicKeeps ==
  ASSUME HostedInv, NEW w \in Workers, PlanEpic(w)
  PROVE  HostedInv'
<1>1. /\ worker[w].pc = "phase" /\ epic' = "planned" /\ Note("overwritten", run # worker[w].copy)
      /\ UNCHANGED <<job, run, phase, pull, sandbox, launch, worker, request, faults>>
  BY DEF PlanEpic
<1>2. /\ history' \in SUBSET {"overwritten", "revived", "cut", "detached"}
      /\ history' = {} => history = {} /\ run = worker[w].copy
  BY <1>1, Noted DEF HostedInv
<1>3. TypeOK'
  BY <1>1, <1>2 DEF HostedInv, TypeOK
<1>4. JobInHand' /\ WorkersFit' /\ LaunchFits' /\ RequestsFit'
  BY <1>1, JobInHandStays DEF HostedInv, WorkersFit, LaunchFits, RequestsFit
<1>5. ASSUME history' = {} PROVE Consistent'
  <2>1. Consistent /\ NoneNew /\ NoneMissed /\ NoneOpens
    BY <1>1, <1>2, <1>5 DEF HostedInv, NoneNew, NoneMissed, NoneOpens, Finishing
  <2>2. Attached' /\ Behind' /\ Review' /\ HasJob'
    BY <1>1, <2>1, BehindStays, ReviewStays, HasJobStays DEF Consistent, Attached, Alive
  <2>3. run'.status = "running"
    BY <1>1, <1>2, <1>5 DEF HostedInv, WorkersFit, WorkerFits
  <2> QED
    BY <2>2, <2>3 DEF Consistent, Truth
<1> QED
  BY <1>3, <1>4, <1>5 DEF HostedInv

LEMMA OpenPullKeeps ==
  ASSUME HostedInv, NEW w \in Workers, OpenPull(w)
  PROVE  HostedInv'
<1> DEFINE rec == [worker[w] EXCEPT !.pc = "opened"]
<1>1. /\ worker[w].pc = "phase" /\ Alive(w) /\ pull = "none" /\ pull' = "open" /\ Goes(w, rec)
      /\ UNCHANGED <<job, run, phase, epic, sandbox, launch, request, faults, history>>
  BY DEF OpenPull, Alive
<1>2. worker[w] \in Worker /\ WorkerFits(worker[w])
  BY DEF HostedInv, TypeOK, WorkersFit
<1>3. rec \in Worker /\ rec.pc = "opened" /\ rec.copy = worker[w].copy /\ rec.at = worker[w].at
  BY <1>2 DEF Worker
<1> HIDE DEF rec
<1>4. WorkerFits(rec)
  BY <1>1, <1>2, <1>3 DEF WorkerFits
<1>5. /\ worker' \in [Workers -> Worker] /\ worker'[w] = rec /\ \A v \in Workers : v # w => worker'[v] = worker[v]
      /\ JobInHand' /\ WorkersFit' /\ LaunchFits' /\ RequestsFit'
      /\ history = {} => Attached'
  BY <1>1, <1>3, <1>4, WorkerMoves
<1>6. TypeOK'
  BY <1>1, <1>5 DEF HostedInv, TypeOK
<1>7. ASSUME history' = {} PROVE Consistent'
  <2>1. Consistent
    BY <1>1, <1>7 DEF HostedInv
  <2>2. NoneMissed
    BY <1>1, <1>5 DEF NoneMissed, Finishing
  <2>3. Truth' /\ HasJob'
    BY <1>1, <2>1, <2>2, TruthStays, HasJobStays DEF Consistent
  <2>4. Behind'
    BY <1>1, <1>3, <1>5, <2>1 DEF Consistent, Behind, AllDone
  <2>5. Review'
    <3>1. Opening' /\ (Merging => Merging') /\ (Closing => Closing')
      BY <1>1, <1>3, <1>5 DEF Opening, Merging, Closing
    <3> QED
      BY <1>1, <2>1, <3>1 DEF Consistent, Review
  <2> QED
    BY <1>1, <1>5, <1>7, <2>3, <2>4, <2>5 DEF Consistent
<1> QED
  BY <1>5, <1>6, <1>7 DEF HostedInv

LEMMA RecordPullKeeps ==
  ASSUME HostedInv, NEW w \in Workers, RecordPull(w)
  PROVE  HostedInv'
<1> DEFINE seen == worker[w].copy
           row == [seen EXCEPT !.pr = TRUE]
           rec == [worker[w] EXCEPT !.pc = "phase", !.copy = row]
<1>1. /\ worker[w].pc = "opened" /\ Alive(w) /\ Write(worker[w].copy, row) /\ Goes(w, rec)
      /\ UNCHANGED <<job, phase, epic, pull, sandbox, launch, request, faults>>
  BY DEF RecordPull, Saves, Alive
<1>2. worker[w] \in Worker /\ WorkerFits(worker[w])
  BY DEF HostedInv, TypeOK, WorkersFit
<1>3. row \in RunRow /\ row.status = "running" /\ seen.status = "running" /\ row.pr /\ row.mode = seen.mode
  BY <1>1, <1>2 DEF Worker, RunRow, WorkerFits
<1> HIDE DEF row
<1>4. rec \in Worker /\ rec.pc = "phase" /\ rec.copy = row /\ rec.at = worker[w].at
  BY <1>2, <1>3 DEF Worker
<1>5. WorkerFits(rec)
  BY <1>1, <1>2, <1>3, <1>4 DEF WorkerFits
<1> HIDE DEF rec
<1>6. /\ worker' \in [Workers -> Worker] /\ worker'[w] = rec /\ \A v \in Workers : v # w => worker'[v] = worker[v]
      /\ JobInHand' /\ WorkersFit' /\ LaunchFits' /\ RequestsFit'
      /\ history = {} => Attached'
  BY <1>1, <1>4, <1>5, WorkerMoves
<1>7. /\ run' = row /\ run' \in RunRow /\ history' \in SUBSET {"overwritten", "revived", "cut", "detached"}
      /\ history' = {} => history = {} /\ run = seen /\ HasJob'
  BY <1>1, <1>3, <1>4, <1>5, SavesMoves
<1>8. TypeOK'
  BY <1>1, <1>6, <1>7 DEF HostedInv, TypeOK
<1>9. ASSUME history' = {} PROVE Consistent'
  <2>1. Consistent
    BY <1>7, <1>9 DEF HostedInv
  <2>2. Behind'
    BY <1>1, <1>4, <1>6, <2>1 DEF Consistent, Behind, AllDone
  <2>3. Truth'
    BY <1>3, <1>7 DEF Truth
  <2>4. Review'
    <3>1. pull # "none"
      BY <1>1, <2>1 DEF Consistent, Review, Opening
    <3>2. (Merging => Merging') /\ (Closing => Closing')
      BY <1>1 DEF Merging, Closing
    <3> QED
      BY <1>1, <1>3, <1>7, <1>9, <2>1, <3>1, <3>2 DEF Consistent, Review
  <2> QED
    BY <1>6, <1>7, <1>9, <2>2, <2>3, <2>4 DEF Consistent
<1> QED
  BY <1>6, <1>8, <1>9 DEF HostedInv

LEMMA NextPhaseKeeps ==
  ASSUME HostedInv, NEW w \in Workers, NextPhase(w)
  PROVE  HostedInv'
<1> DEFINE seen == worker[w].copy
           p == worker[w].at
           row == [seen EXCEPT !.phase = p + 1]
           rec == [worker[w] EXCEPT !.at = p + 1, !.copy.phase = p + 1]
<1>1. /\ worker[w].pc = "phase" /\ Alive(w) /\ Write(worker[w].copy, row) /\ Goes(w, rec)
      /\ p < NumPhases /\ phase' = [phase EXCEPT ![p] = "completed", ![p + 1] = "running"]
      /\ UNCHANGED <<job, epic, pull, sandbox, launch, request, faults>>
  BY DEF NextPhase, Alive
<1>2. worker[w] \in Worker /\ WorkerFits(worker[w]) /\ p \in Phase
  BY <1>1 DEF HostedInv, TypeOK, WorkersFit, WorkerFits
<1>3. p \in Nat /\ p + 1 \in Phase /\ p + 1 \in 0..NumPhases /\ p # p + 1
  BY <1>1, <1>2 DEF Phase
<1>4. /\ row \in RunRow /\ row.status = "running" /\ seen.status = "running"
      /\ row.pr = seen.pr /\ row.mode = seen.mode
  BY <1>1, <1>2, <1>3 DEF Worker, RunRow, WorkerFits
<1>5. rec.pc = "phase" /\ rec.copy = row /\ rec.at = p + 1 /\ rec \in Worker
  <2> DEFINE q == p + 1
  <2> HIDE DEF q
  <2>1. rec = [worker[w] EXCEPT !.at = q, !.copy = [seen EXCEPT !.phase = q]]
    BY <1>2 DEF Worker, q
  <2>2. row = [seen EXCEPT !.phase = q]
    BY DEF q
  <2>3. rec = [worker[w] EXCEPT !.at = q, !.copy = row]
    BY <2>1, <2>2
  <2> HIDE DEF row, rec
  <2>4. rec \in Worker /\ rec.pc = worker[w].pc /\ rec.copy = row /\ rec.at = q
    BY <1>2, <1>3, <1>4, <2>3 DEF Worker, q
  <2> QED
    BY <1>1, <2>4 DEF q
<1> HIDE DEF row, rec
<1>6. WorkerFits(rec)
  BY <1>3, <1>4, <1>5 DEF WorkerFits
<1>7. /\ worker' \in [Workers -> Worker] /\ worker'[w] = rec /\ \A v \in Workers : v # w => worker'[v] = worker[v]
      /\ JobInHand' /\ WorkersFit' /\ LaunchFits' /\ RequestsFit'
      /\ history = {} => Attached' /\ \A v \in Workers : v # w => worker[v].pc = "gone"
  BY <1>1, <1>5, <1>6, WorkerMoves
<1>8. /\ run' = row /\ run' \in RunRow /\ history' \in SUBSET {"overwritten", "revived", "cut", "detached"}
      /\ history' = {} => history = {} /\ run = seen /\ HasJob'
  BY <1>1, <1>4, <1>5, <1>6, SavesMoves
<1>9. /\ phase' \in [Phase -> PhaseStatus]
      /\ phase'[p] = "completed" /\ \A q \in Phase : q < p => phase'[q] = phase[q]
  BY <1>1, <1>2, <1>3 DEF HostedInv, TypeOK, PhaseStatus, Phase
<1>10. TypeOK'
  BY <1>1, <1>7, <1>8, <1>9 DEF HostedInv, TypeOK
<1>11. ASSUME history' = {} PROVE Consistent'
  <2>1. Consistent /\ run.pr = row.pr /\ run.mode = row.mode
    BY <1>4, <1>8, <1>11 DEF HostedInv
  <2>2. \A q \in 1..p : phase'[q] \in Done
    <3> TAKE q \in 1..p
    <3>1. CASE q = p
      BY <1>9, <3>1 DEF Done
    <3>2. CASE q # p
      <4>1. q \in 1..(p - 1) /\ q \in Phase /\ q < p
        BY <1>2, <3>2 DEF Phase
      <4> QED
        BY <1>1, <1>9, <2>1, <4>1 DEF Consistent, Behind
    <3> QED
      BY <3>1, <3>2
  <2>3. 1..(worker'[w].at - 1) = 1..p
    BY <1>3, <1>5, <1>7
  <2>4. \A v \in Workers : v # w => worker'[v].pc = "gone"
    BY <1>7, <1>8, <1>11
  <2>5. Behind'
    BY <1>5, <1>7, <2>2, <2>3, <2>4 DEF Behind
  <2>6. Truth'
    BY <1>4, <1>8 DEF Truth
  <2>7. Review'
    <3>1. NoneOpens
      BY <1>1, <1>5, <1>7 DEF NoneOpens
    <3> QED
      BY <1>1, <1>8, <1>11, <2>1, <3>1, ReviewStays DEF Consistent
  <2> QED
    BY <1>7, <1>8, <1>11, <2>5, <2>6, <2>7 DEF Consistent
<1> QED
  BY <1>7, <1>10, <1>11 DEF HostedInv

LEMMA SealKeeps ==
  ASSUME HostedInv, NEW w \in Workers, Seal(w)
  PROVE  HostedInv'
<1> DEFINE seen == worker[w].copy
           row == [seen EXCEPT !.status = "completed"]
           rec == [worker[w] EXCEPT !.pc = "sealed", !.copy = row]
<1>1. /\ worker[w].pc = "phase" /\ worker[w].at = NumPhases /\ Alive(w)
      /\ Write(worker[w].copy, row) /\ Goes(w, rec)
      /\ UNCHANGED <<job, phase, epic, pull, sandbox, launch, request, faults>>
  BY DEF Seal, Saves, Alive
<1>2. worker[w] \in Worker /\ WorkerFits(worker[w])
  BY DEF HostedInv, TypeOK, WorkersFit
<1>3. /\ row \in RunRow /\ row.status = "completed" /\ seen.status = "running"
      /\ row.pr = seen.pr /\ row.mode = seen.mode
  BY <1>1, <1>2 DEF Worker, RunRow, RunStatus, WorkerFits
<1> HIDE DEF row
<1>4. rec \in Worker /\ rec.pc = "sealed" /\ rec.copy = row /\ rec.at = NumPhases
  BY <1>1, <1>2, <1>3 DEF Worker
<1> HIDE DEF rec
<1>5. WorkerFits(rec)
  BY <1>3, <1>4, NothingYet DEF WorkerFits
<1>6. /\ worker' \in [Workers -> Worker] /\ worker'[w] = rec /\ \A v \in Workers : v # w => worker'[v] = worker[v]
      /\ JobInHand' /\ WorkersFit' /\ LaunchFits' /\ RequestsFit'
      /\ history = {} => Attached'
  BY <1>1, <1>4, <1>5, WorkerMoves
<1>7. /\ run' = row /\ run' \in RunRow /\ history' \in SUBSET {"overwritten", "revived", "cut", "detached"}
      /\ history' = {} => history = {} /\ run = seen /\ HasJob'
  BY <1>1, <1>3, <1>4, <1>5, SavesMoves
<1>8. TypeOK'
  BY <1>1, <1>6, <1>7 DEF HostedInv, TypeOK
<1>9. ASSUME history' = {} PROVE Consistent'
  <2>1. Consistent /\ run.pr = row.pr /\ run.mode = row.mode
    BY <1>3, <1>7, <1>9 DEF HostedInv
  <2>2. Behind'
    BY <1>1, <1>4, <1>6, <2>1 DEF Consistent, Behind, AllDone
  <2>3. Truth'
    BY <1>3, <1>4, <1>6, <1>7 DEF Truth, Finishing
  <2>4. Review'
    <3>1. NoneOpens
      BY <1>1, <1>4, <1>6 DEF NoneOpens
    <3> QED
      BY <1>1, <1>7, <1>9, <2>1, <3>1, ReviewStays DEF Consistent
  <2> QED
    BY <1>6, <1>7, <1>9, <2>2, <2>3, <2>4 DEF Consistent
<1> QED
  BY <1>6, <1>8, <1>9 DEF HostedInv

LEMMA RetireSandboxKeeps ==
  ASSUME HostedInv, NEW w \in Workers, RetireSandbox(w)
  PROVE  HostedInv'
<1>1. sandbox' = "retired" /\ UNCHANGED <<job, run, phase, epic, pull, launch, worker, request, faults, history>>
  BY DEF RetireSandbox
<1>2. TypeOK' /\ JobInHand' /\ WorkersFit' /\ LaunchFits' /\ RequestsFit'
  BY <1>1, JobInHandStays DEF HostedInv, TypeOK, WorkersFit, LaunchFits, RequestsFit
<1>3. ASSUME history' = {} PROVE Consistent'
  <2>1. Consistent /\ NoneNew /\ NoneMissed /\ NoneOpens
    BY <1>1, <1>3 DEF HostedInv, NoneNew, NoneMissed, NoneOpens, Finishing
  <2> QED
    BY <1>1, <2>1, BehindStays, TruthStays, ReviewStays, HasJobStays DEF Consistent, Attached, Alive
<1> QED
  BY <1>2, <1>3 DEF HostedInv

LEMMA FinishKeeps ==
  ASSUME HostedInv, NEW w \in Workers, Finish(w)
  PROVE  HostedInv'
<1> DEFINE seen == worker[w].copy
           rec == [worker[w] EXCEPT !.pc = "done", !.copy = seen]
<1>1. /\ worker[w].pc = "sealed" /\ Alive(w) /\ Write(seen, seen) /\ Goes(w, rec)
      /\ phase' = [phase EXCEPT ![NumPhases] = "completed"]
      /\ UNCHANGED <<job, epic, pull, sandbox, launch, request, faults>>
  BY DEF Finish, Saves, Alive
<1>2. worker[w] \in Worker /\ WorkerFits(worker[w]) /\ seen \in RunRow /\ seen.status = "completed"
  BY <1>1 DEF HostedInv, TypeOK, WorkersFit, WorkerFits, Worker
<1>3. rec \in Worker /\ rec.pc = "done" /\ rec.copy = seen /\ rec.at = worker[w].at
  BY <1>2 DEF Worker
<1> HIDE DEF rec
<1>4. WorkerFits(rec)
  BY <1>1, <1>2, <1>3 DEF WorkerFits
<1>5. /\ worker' \in [Workers -> Worker] /\ worker'[w] = rec /\ \A v \in Workers : v # w => worker'[v] = worker[v]
      /\ JobInHand' /\ WorkersFit' /\ LaunchFits' /\ RequestsFit'
      /\ history = {} => Attached' /\ \A v \in Workers : v # w => worker[v].pc = "gone"
  BY <1>1, <1>3, <1>4, WorkerMoves
<1>6. /\ run' = seen /\ run' \in RunRow /\ history' \in SUBSET {"overwritten", "revived", "cut", "detached"}
      /\ history' = {} => history = {} /\ run = seen /\ HasJob'
  BY <1>1, <1>2, <1>3, <1>4, SavesMoves
<1>7. /\ phase' \in [Phase -> PhaseStatus] /\ phase'[NumPhases] = "completed"
      /\ \A p \in Phase : p # NumPhases => phase'[p] = phase[p]
  BY <1>1, NothingYet DEF HostedInv, TypeOK, PhaseStatus
<1>8. TypeOK'
  BY <1>1, <1>5, <1>6, <1>7 DEF HostedInv, TypeOK
<1>9. ASSUME history' = {} PROVE Consistent'
  <2>1. Consistent
    BY <1>6, <1>9 DEF HostedInv
  <2>2. AllDone'
    <3>1. \A p \in 1..(NumPhases - 1) : phase[p] \in Done
      BY <1>1, <2>1 DEF Consistent, Behind
    <3>2. \A p \in Phase : p = NumPhases \/ p \in 1..(NumPhases - 1)
      BY NothingYet DEF Phase
    <3> QED
      BY <1>7, <3>1, <3>2 DEF AllDone, Done
  <2>3. Behind'
    BY <1>3, <1>5, <1>6, <1>9, <2>2 DEF Behind
  <2>4. Truth'
    BY <1>2, <1>3, <1>5, <1>6 DEF Truth, Finishing
  <2>5. Review'
    <3>1. Opening <=> Opening'
      BY <1>1, <1>3, <1>5 DEF Opening
    <3>2. (Merging => Merging') /\ (Closing => Closing')
      BY <1>1 DEF Merging, Closing
    <3> QED
      BY <1>1, <1>6, <1>9, <2>1, <3>1, <3>2 DEF Consistent, Review
  <2> QED
    BY <1>5, <1>6, <1>9, <2>3, <2>4, <2>5 DEF Consistent
<1> QED
  BY <1>5, <1>8, <1>9 DEF HostedInv

\* A process that is over.
LEMMA ExitsAs ==
  ASSUME NEW w \in Workers, NEW ok \in BOOLEAN, Exits(w, ok)
  PROVE  \E rec \in Worker : WorkerFits(rec) /\ rec.pc = "gone" /\ Goes(w, rec)
<1> DEFINE heard == ok /\ launch.pc = "exec" /\ launch.worker = w
           rec == [Gone EXCEPT !.ok = heard]
<1>1. Goes(w, rec)
  BY DEF Exits
<1>2. heard \in BOOLEAN
  OBVIOUS
<1> HIDE DEF heard
<1>3. rec \in Worker /\ rec.pc = "gone"
  BY <1>2, NothingYet DEF Worker
<1>4. WorkerFits(rec)
  BY <1>3 DEF WorkerFits
<1> QED
  BY <1>1, <1>3, <1>4

LEMMA Faulted ==
  ASSUME TypeOK, Fault
  PROVE  faults' \in 0..Faults
BY DEF TypeOK, Fault

LEMMA FinishEpicKeeps ==
  ASSUME HostedInv, NEW w \in Workers, FinishEpic(w)
  PROVE  HostedInv'
<1>1. /\ worker[w].pc = "done" /\ Alive(w) /\ epic' = TerminalEpic(worker[w].copy)
      /\ Note("overwritten", run # worker[w].copy)
      /\ UNCHANGED <<job, run, phase, pull, sandbox, launch, request>>
  BY DEF FinishEpic, Alive
<1>2. worker[w] \in Worker /\ worker[w].copy.status = "completed" /\ worker[w].at \in Phase
  BY <1>1 DEF HostedInv, TypeOK, WorkersFit, WorkerFits
<1>3. PICK rec \in Worker : WorkerFits(rec) /\ rec.pc \in {"gone", "unsaying"} /\ Goes(w, rec)
  <2>1. CASE Exits(w, TRUE)
    BY <2>1, ExitsAs
  <2>2. CASE Goes(w, [worker[w] EXCEPT !.pc = "unsaying"])
    <3> DEFINE rec == [worker[w] EXCEPT !.pc = "unsaying"]
    <3>1. rec \in Worker /\ rec.pc = "unsaying" /\ rec.copy = worker[w].copy /\ rec.at = worker[w].at
      BY <1>2 DEF Worker
    <3> HIDE DEF rec
    <3>2. WorkerFits(rec)
      BY <1>2, <3>1 DEF WorkerFits
    <3> QED
      BY <2>2, <3>1, <3>2 DEF rec
  <2> QED
    BY <2>1, <2>2 DEF FinishEpic
<1>4. faults' \in 0..Faults
  BY Faulted DEF FinishEpic, HostedInv, TypeOK
<1>5. /\ worker' \in [Workers -> Worker] /\ worker'[w] = rec /\ \A v \in Workers : v # w => worker'[v] = worker[v]
      /\ JobInHand' /\ WorkersFit' /\ LaunchFits' /\ RequestsFit'
      /\ history = {} => Attached'
  BY <1>1, <1>3, WorkerMoves
<1>6. /\ history' \in SUBSET {"overwritten", "revived", "cut", "detached"}
      /\ history' = {} => history = {} /\ run = worker[w].copy
  BY <1>1, Noted DEF HostedInv
<1>7. epic' \in {"in_review", "completed"}
  BY <1>1 DEF TerminalEpic
<1>8. TypeOK'
  BY <1>1, <1>4, <1>5, <1>6, <1>7 DEF HostedInv, TypeOK
<1>9. ASSUME history' = {} PROVE Consistent'
  <2>1. Consistent
    BY <1>6, <1>9 DEF HostedInv
  <2>2. NoneNew /\ NoneOpens
    BY <1>1, <1>3, <1>5 DEF NoneNew, NoneOpens
  <2>3. Behind' /\ Review' /\ HasJob'
    BY <1>1, <2>1, <2>2, BehindStays, ReviewStays, HasJobStays DEF Consistent
  <2>4. AllDone' /\ run'.status = "completed"
    BY <1>1, <1>2, <1>6, <1>9, <2>1 DEF Consistent, Behind, AllDone
  <2>5. Truth'
    BY <1>7, <2>4 DEF Truth
  <2> QED
    BY <1>5, <1>6, <1>9, <2>3, <2>5 DEF Consistent
<1> QED
  BY <1>5, <1>8, <1>9 DEF HostedInv

LEMMA UnsayKeeps ==
  ASSUME HostedInv, NEW w \in Workers, Unsay(w)
  PROVE  HostedInv'
<1> DEFINE seen == worker[w].copy
           row == [seen EXCEPT !.status = "failed"]
           rec == [worker[w] EXCEPT !.pc = "failed", !.copy = row]
<1>1. /\ worker[w].pc = "unsaying" /\ Alive(w) /\ Write(worker[w].copy, row) /\ Goes(w, rec)
      /\ UNCHANGED <<job, phase, epic, pull, sandbox, launch, request, faults>>
  BY DEF Unsay, Saves, Alive
<1>2. worker[w] \in Worker /\ WorkerFits(worker[w])
  BY DEF HostedInv, TypeOK, WorkersFit
<1>3. /\ row \in RunRow /\ row.status = "failed" /\ seen.status = "completed"
      /\ row.pr = seen.pr /\ row.mode = seen.mode
  BY <1>1, <1>2 DEF Worker, RunRow, RunStatus, WorkerFits
<1> HIDE DEF row
<1>4. rec \in Worker /\ rec.pc = "failed" /\ rec.copy = row /\ rec.at = worker[w].at
  BY <1>1, <1>2, <1>3 DEF Worker
<1> HIDE DEF rec
<1>5. WorkerFits(rec)
  BY <1>1, <1>2, <1>3, <1>4 DEF WorkerFits
<1>6. /\ worker' \in [Workers -> Worker] /\ worker'[w] = rec /\ \A v \in Workers : v # w => worker'[v] = worker[v]
      /\ JobInHand' /\ WorkersFit' /\ LaunchFits' /\ RequestsFit'
      /\ history = {} => Attached'
  BY <1>1, <1>4, <1>5, WorkerMoves
<1>7. /\ run' = row /\ run' \in RunRow /\ history' \in SUBSET {"overwritten", "revived", "cut", "detached"}
      /\ history' = {} => history = {} /\ run = seen /\ HasJob'
  BY <1>1, <1>3, <1>4, <1>5, SavesMoves
<1>8. TypeOK'
  BY <1>1, <1>6, <1>7 DEF HostedInv, TypeOK
<1>9. ASSUME history' = {} PROVE Consistent'
  <2>1. Consistent /\ run.pr = row.pr /\ run.mode = row.mode
    BY <1>3, <1>7, <1>9 DEF HostedInv
  <2>2. NoneNew /\ NoneOpens
    BY <1>1, <1>4, <1>6 DEF NoneNew, NoneOpens
  <2>3. Behind' /\ Review'
    BY <1>1, <1>7, <1>9, <2>1, <2>2, BehindStays, ReviewStays DEF Consistent
  <2>4. Truth'
    BY <1>3, <1>4, <1>6, <1>7 DEF Truth
  <2> QED
    BY <1>6, <1>7, <1>9, <2>3, <2>4 DEF Consistent
<1> QED
  BY <1>6, <1>8, <1>9 DEF HostedInv

\* A phase that failed: the worker is about to say so.
LEMMA FailingKeeps ==
  ASSUME HostedInv, NEW w \in Workers, worker[w].pc \in {"phase", "opened", "sealed"},
         Goes(w, [worker[w] EXCEPT !.pc = "failing"]), worker[w].pc = "opened" => history' # {},
         faults' \in 0..Faults, history' \in SUBSET {"overwritten", "revived", "cut", "detached"},
         history' = {} => history = {},
         UNCHANGED <<job, run, phase, epic, pull, sandbox, launch, request>>
  PROVE  HostedInv'
<1> DEFINE rec == [worker[w] EXCEPT !.pc = "failing"]
<1>1. worker[w] \in Worker /\ WorkerFits(worker[w]) /\ Alive(w) /\ Goes(w, rec)
  BY DEF HostedInv, TypeOK, WorkersFit, Alive
<1>2. rec \in Worker /\ rec.pc = "failing" /\ rec.copy = worker[w].copy /\ rec.at = worker[w].at
  BY <1>1 DEF Worker
<1> HIDE DEF rec
<1>3. WorkerFits(rec)
  BY <1>1, <1>2 DEF WorkerFits
<1>4. /\ worker' \in [Workers -> Worker] /\ worker'[w] = rec /\ \A v \in Workers : v # w => worker'[v] = worker[v]
      /\ JobInHand' /\ WorkersFit' /\ LaunchFits' /\ RequestsFit'
      /\ history = {} => Attached'
  BY <1>1, <1>2, <1>3, WorkerMoves
<1>5. TypeOK'
  BY <1>4 DEF HostedInv, TypeOK
<1>6. ASSUME history' = {} PROVE Consistent'
  <2>1. Consistent
    BY <1>6 DEF HostedInv
  <2>2. NoneNew /\ NoneMissed /\ NoneOpens
    BY <1>2, <1>4, <1>6 DEF NoneNew, NoneMissed, NoneOpens, Finishing
  <2> QED
    BY <1>4, <1>6, <2>1, <2>2, BehindStays, TruthStays, ReviewStays, HasJobStays DEF Consistent
<1> QED
  BY <1>4, <1>5, <1>6 DEF HostedInv

LEMMA PhaseFailsKeeps ==
  ASSUME HostedInv, NEW w \in Workers, PhaseFails(w)
  PROVE  HostedInv'
<1>1. /\ worker[w].pc \in {"phase", "opened", "sealed"} /\ Alive(w) /\ Note("cut", worker[w].pc = "opened")
      /\ UNCHANGED <<job, run, epic, pull, sandbox, launch, request, faults>>
  BY DEF PhaseFails, Alive
<1>2. /\ history' \in SUBSET {"overwritten", "revived", "cut", "detached"}
      /\ history' = {} => history = {} /\ worker[w].pc # "opened"
  BY <1>1, Noted DEF HostedInv
<1>3. CASE run.status = "cancelled"
  <2>1. /\ Exits(w, TRUE)
        /\ phase' = [p \in Phase |-> IF p = run.phase THEN "failed" ELSE phase[p]]
    BY <1>3 DEF PhaseFails
  <2>2. PICK rec \in Worker : WorkerFits(rec) /\ rec.pc = "gone" /\ Goes(w, rec)
    BY <2>1, ExitsAs
  <2>3. /\ worker' \in [Workers -> Worker] /\ worker'[w] = rec /\ \A v \in Workers : v # w => worker'[v] = worker[v]
        /\ JobInHand' /\ WorkersFit' /\ LaunchFits' /\ RequestsFit'
        /\ history = {} => Attached' /\ \A v \in Workers : v # w => worker[v].pc = "gone"
    BY <1>1, <2>2, WorkerMoves
  <2>4. phase' \in [Phase -> PhaseStatus]
    BY <2>1 DEF HostedInv, TypeOK, PhaseStatus
  <2>5. TypeOK'
    BY <1>1, <1>2, <2>3, <2>4 DEF HostedInv, TypeOK
  <2>6. ASSUME history' = {} PROVE Consistent'
    <3>1. Consistent
      BY <1>2, <2>6 DEF HostedInv
    <3>2. NoneOpens
      BY <1>2, <2>2, <2>3, <2>6 DEF NoneOpens
    <3>3. Review' /\ HasJob'
      BY <1>1, <3>1, <3>2, ReviewStays, HasJobStays DEF Consistent
    <3>4. Behind'
      BY <1>2, <2>2, <2>3, <2>6 DEF Behind
    <3>5. Truth'
      BY <1>1, <1>3, <3>1 DEF Consistent, Truth
    <3> QED
      BY <1>2, <2>3, <2>6, <3>3, <3>4, <3>5 DEF Consistent
  <2> QED
    BY <2>3, <2>5, <2>6 DEF HostedInv
<1>4. CASE run.status # "cancelled"
  <2>1. Goes(w, [worker[w] EXCEPT !.pc = "failing"]) /\ UNCHANGED phase
    BY <1>4 DEF PhaseFails
  <2>2. faults' \in 0..Faults
    BY <1>1 DEF HostedInv, TypeOK
  <2> QED
    BY <1>1, <1>2, <2>1, <2>2, FailingKeeps
<1> QED
  BY <1>3, <1>4

LEMMA EventLostKeeps ==
  ASSUME HostedInv, NEW w \in Workers, EventLost(w)
  PROVE  HostedInv'
<1>1. /\ worker[w].pc \in {"phase", "sealed"} /\ Fault /\ Goes(w, [worker[w] EXCEPT !.pc = "failing"])
      /\ UNCHANGED <<job, run, phase, epic, pull, sandbox, launch, request, history>>
  BY DEF EventLost
<1>2. faults' \in 0..Faults /\ history' \in SUBSET {"overwritten", "revived", "cut", "detached"}
  BY <1>1, Faulted DEF HostedInv, TypeOK
<1> QED
  BY <1>1, <1>2, FailingKeeps

LEMMA SaveFailureKeeps ==
  ASSUME HostedInv, NEW w \in Workers, SaveFailure(w)
  PROVE  HostedInv'
<1> DEFINE seen == worker[w].copy
           row == [seen EXCEPT !.status = "failed"]
           rec == [worker[w] EXCEPT !.pc = "failed", !.copy = row]
<1>1. /\ worker[w].pc = "failing" /\ Alive(w) /\ Write(worker[w].copy, row) /\ Goes(w, rec)
      /\ phase' = [phase EXCEPT ![worker[w].at] = "failed"]
      /\ UNCHANGED <<job, epic, pull, sandbox, launch, request, faults>>
  BY DEF SaveFailure, Saves, Alive
<1>2. worker[w] \in Worker /\ WorkerFits(worker[w])
  BY DEF HostedInv, TypeOK, WorkersFit
<1>3. /\ row \in RunRow /\ row.status = "failed" /\ seen.status # "cancelled"
      /\ row.pr = seen.pr /\ row.mode = seen.mode
  BY <1>1, <1>2 DEF Worker, RunRow, RunStatus, WorkerFits
<1> HIDE DEF row
<1>4. rec \in Worker /\ rec.pc = "failed" /\ rec.copy = row /\ rec.at = worker[w].at
  BY <1>1, <1>2, <1>3 DEF Worker
<1> HIDE DEF rec
<1>5. WorkerFits(rec)
  BY <1>1, <1>2, <1>3, <1>4 DEF WorkerFits
<1>6. /\ worker' \in [Workers -> Worker] /\ worker'[w] = rec /\ \A v \in Workers : v # w => worker'[v] = worker[v]
      /\ JobInHand' /\ WorkersFit' /\ LaunchFits' /\ RequestsFit'
      /\ history = {} => Attached' /\ \A v \in Workers : v # w => worker[v].pc = "gone"
  BY <1>1, <1>4, <1>5, WorkerMoves
<1>7. /\ run' = row /\ run' \in RunRow /\ history' \in SUBSET {"overwritten", "revived", "cut", "detached"}
      /\ history' = {} => history = {} /\ run = seen /\ HasJob'
  BY <1>1, <1>3, <1>4, <1>5, SavesMoves
<1>8. phase' \in [Phase -> PhaseStatus]
  BY <1>1 DEF HostedInv, TypeOK, PhaseStatus
<1>9. TypeOK'
  BY <1>1, <1>6, <1>7, <1>8 DEF HostedInv, TypeOK
<1>10. ASSUME history' = {} PROVE Consistent'
  <2>1. Consistent /\ run.pr = row.pr /\ run.mode = row.mode
    BY <1>3, <1>7, <1>10 DEF HostedInv
  <2>2. Behind'
    BY <1>4, <1>6, <1>7, <1>10 DEF Behind
  <2>3. NoneOpens
    BY <1>1, <1>4, <1>6 DEF NoneOpens
  <2>4. Review'
    BY <1>1, <1>7, <1>10, <2>1, <2>3, ReviewStays DEF Consistent
  <2>5. Truth'
    BY <1>3, <1>4, <1>6, <1>7 DEF Truth
  <2> QED
    BY <1>6, <1>7, <1>10, <2>2, <2>4, <2>5 DEF Consistent
<1> QED
  BY <1>6, <1>9, <1>10 DEF HostedInv

LEMMA FailEpicKeeps ==
  ASSUME HostedInv, NEW w \in Workers, FailEpic(w)
  PROVE  HostedInv'
<1>1. /\ worker[w].pc = "failed" /\ Alive(w) /\ epic' = "failed" /\ Exits(w, FALSE)
      /\ Note("overwritten", run # worker[w].copy)
      /\ UNCHANGED <<job, run, phase, pull, sandbox, launch, request, faults>>
  BY DEF FailEpic, Alive
<1>2. PICK rec \in Worker : WorkerFits(rec) /\ rec.pc = "gone" /\ Goes(w, rec)
  BY <1>1, ExitsAs
<1>3. /\ worker' \in [Workers -> Worker] /\ worker'[w] = rec /\ \A v \in Workers : v # w => worker'[v] = worker[v]
      /\ JobInHand' /\ WorkersFit' /\ LaunchFits' /\ RequestsFit'
      /\ history = {} => Attached'
  BY <1>1, <1>2, WorkerMoves
<1>4. /\ history' \in SUBSET {"overwritten", "revived", "cut", "detached"}
      /\ history' = {} => history = {} /\ run = worker[w].copy
  BY <1>1, Noted DEF HostedInv
<1>5. TypeOK'
  BY <1>1, <1>3, <1>4 DEF HostedInv, TypeOK
<1>6. ASSUME history' = {} PROVE Consistent'
  <2>1. Consistent
    BY <1>4, <1>6 DEF HostedInv
  <2>2. NoneNew /\ NoneOpens
    BY <1>1, <1>2, <1>3 DEF NoneNew, NoneOpens
  <2>3. Behind' /\ Review' /\ HasJob'
    BY <1>1, <2>1, <2>2, BehindStays, ReviewStays, HasJobStays DEF Consistent
  <2>4. run'.status = "failed"
    BY <1>1, <1>4, <1>6 DEF HostedInv, WorkersFit, WorkerFits
  <2>5. Truth'
    BY <1>1, <2>4 DEF Truth
  <2> QED
    BY <1>3, <1>4, <1>6, <2>3, <2>5 DEF Consistent
<1> QED
  BY <1>3, <1>5, <1>6 DEF HostedInv

LEMMA WorkerStopsKeeps ==
  ASSUME HostedInv, NEW w \in Workers, WorkerStops(w)
  PROVE  HostedInv'
<1>1. /\ Alive(w) /\ Fault /\ Exits(w, FALSE) /\ Note("cut", Midway(w))
      /\ UNCHANGED <<job, run, phase, epic, pull, sandbox, launch, request>>
  BY DEF WorkerStops
<1>2. PICK rec \in Worker : WorkerFits(rec) /\ rec.pc = "gone" /\ Goes(w, rec)
  BY <1>1, ExitsAs
<1>3. /\ worker' \in [Workers -> Worker] /\ worker'[w] = rec /\ \A v \in Workers : v # w => worker'[v] = worker[v]
      /\ JobInHand' /\ WorkersFit' /\ LaunchFits' /\ RequestsFit'
      /\ history = {} => Attached'
  BY <1>1, <1>2, WorkerMoves
<1>4. /\ history' \in SUBSET {"overwritten", "revived", "cut", "detached"}
      /\ history' = {} => history = {} /\ ~Midway(w)
  <2>1. Midway(w) \in BOOLEAN
    BY DEF Midway
  <2> QED
    BY <1>1, <2>1, Noted DEF HostedInv
<1>5. TypeOK'
  BY <1>1, <1>3, <1>4, Faulted DEF HostedInv, TypeOK
<1>6. ASSUME history' = {} PROVE Consistent'
  <2>1. Consistent
    BY <1>4, <1>6 DEF HostedInv
  <2>2. NoneNew /\ NoneMissed /\ NoneOpens
    BY <1>2, <1>3, <1>4, <1>6 DEF NoneNew, NoneMissed, NoneOpens, Finishing, Midway
  <2> QED
    BY <1>1, <1>3, <1>4, <1>6, <2>1, <2>2, BehindStays, TruthStays, ReviewStays, HasJobStays DEF Consistent
<1> QED
  BY <1>3, <1>5, <1>6 DEF HostedInv

-----------------------------------------------------------------------------
(* The job loop and the launcher *)

LEMMA ProceedsTo ==
  ASSUME TypeOK, NEW pc \in {"ended", "waiting", "answer"}, NEW ok \in BOOLEAN, Proceeds(pc, ok)
  PROVE  launch' \in Launch /\ launch'.pc = pc /\ launch'.job = launch.job /\ (launch'.ok <=> ok)
<1>1. launch \in Launch
  BY DEF TypeOK
<1>2. launch' = [NotLaunching EXCEPT !.pc = pc, !.job = launch.job, !.attempts = launch.attempts, !.ok = ok]
  BY DEF Proceeds, Moves
<1> QED
  BY <1>1, <1>2, NothingYet DEF Launch

\* A step that only moves the launch on.
LEMMA LaunchKeeps ==
  ASSUME HostedInv, launch.pc \notin {"idle", "exec"}, launch' \in Launch, launch'.job = launch.job,
         launch'.pc = "publishing" => launch'.copy.status = "completed",
         launch'.pc = "answer" /\ launch'.ok => run.status \notin Active,
         UNCHANGED <<job, run, phase, epic, pull, sandbox, worker, request, faults, history>>
  PROVE  HostedInv'
<1>1. TypeOK' /\ JobInHand' /\ WorkersFit' /\ LaunchFits' /\ RequestsFit'
  BY JobInHandStays DEF HostedInv, TypeOK, WorkersFit, LaunchFits, RequestsFit
<1>2. ASSUME history' = {} PROVE Consistent'
  <2>1. Consistent /\ NoneNew /\ NoneMissed /\ NoneOpens
    BY <1>2 DEF HostedInv, NoneNew, NoneMissed, NoneOpens, Finishing
  <2>2. Attached'
    BY <2>1 DEF Consistent, Attached, Alive
  <2> QED
    BY <2>1, <2>2, BehindStays, TruthStays, ReviewStays, HasJobStays DEF Consistent
<1> QED
  BY <1>1, <1>2 DEF HostedInv

LEMMA ClaimKeeps ==
  ASSUME HostedInv, NEW j \in Jobs, Claim(j)
  PROVE  HostedInv'
<1>1. /\ launch.pc = "idle" /\ JobLive(j) /\ job' = ClaimedJob(j)
      /\ launch' = [NotLaunching EXCEPT !.pc = "claimed", !.job = j, !.attempts = job[j].attempts + 1]
      /\ UNCHANGED <<run, phase, epic, pull, sandbox, worker, request, faults, history>>
  BY DEF Claim, ClaimableJob, Moves
<1>2. /\ job' \in [Jobs -> JobRow] /\ \A k \in Jobs : k # j => job'[k] = job[k]
      /\ job'[j].status = "running" /\ job'[j].payload = job[j].payload
  BY <1>1, ClaimsJob DEF HostedInv, TypeOK
<1>3. launch' \in Launch /\ launch'.pc = "claimed" /\ launch'.job = j
  <2> DEFINE n == job[j].attempts + 1
  <2>1. n \in Nat /\ j \in 0..MaxJobs
    BY DEF HostedInv, TypeOK, JobRow, Jobs
  <2>2. launch' = [NotLaunching EXCEPT !.pc = "claimed", !.job = j, !.attempts = n]
    BY <1>1
  <2> HIDE DEF n
  <2> QED
    BY <2>1, <2>2, NothingYet DEF Launch
<1>4. TypeOK'
  BY <1>1, <1>2, <1>3 DEF HostedInv, TypeOK
<1>5. job[j].status # "none" /\ \A k \in Jobs : job'[k].status = "none" <=> job[k].status = "none"
  BY <1>1, <1>2 DEF JobLive, Unclaimed
<1>6. JobInHand'
  BY <1>2, <1>3, <1>5 DEF HostedInv, JobInHand
<1>7. WorkersFit' /\ LaunchFits' /\ RequestsFit'
  BY <1>1, <1>3 DEF HostedInv, WorkersFit, LaunchFits, RequestsFit
<1>8. ASSUME history' = {} PROVE Consistent'
  <2>1. Consistent /\ NoneNew /\ NoneMissed /\ NoneOpens
    BY <1>1, <1>8 DEF HostedInv, NoneNew, NoneMissed, NoneOpens, Finishing
  <2>2. Attached' /\ Behind' /\ Truth' /\ Review'
    BY <1>1, <2>1, BehindStays, TruthStays, ReviewStays DEF Consistent, Attached, Alive
  <2>3. JobLive(j)' /\ ~NoneLive /\ ~NoneLive' /\ (Resuming' <=> Resuming)
    BY <1>1, <1>2 DEF JobLive, NoneLive, Resuming
  <2>4. HasJob'
    BY <1>1, <1>2, <1>3, <2>1, <2>3 DEF Consistent, HasJob
  <2> QED
    BY <2>2, <2>4 DEF Consistent
<1> QED
  BY <1>4, <1>6, <1>7, <1>8 DEF HostedInv

LEMMA LookAtRunKeeps ==
  ASSUME HostedInv, LookAtRun
  PROVE  HostedInv'
<1>1. /\ launch.pc = "claimed" /\ TypeOK
      /\ UNCHANGED <<job, run, phase, epic, pull, sandbox, worker, request, faults, history>>
  BY DEF LookAtRun, HostedInv
<1>2. CASE run.status = "completed"
  <2>1. PICK ok \in BOOLEAN : Proceeds("answer", ok)
    BY <1>2 DEF LookAtRun, Answers
  <2>2. launch' \in Launch /\ launch'.pc = "answer" /\ launch'.job = launch.job
    BY <1>1, <2>1, ProceedsTo
  <2>3. run.status \notin Active
    BY <1>2 DEF Active
  <2> QED
    BY <1>1, <2>2, <2>3, LaunchKeeps
<1>3. CASE run.status # "completed"
  <2>1. launch' = [launch EXCEPT !.pc = "launching"] /\ launch \in Launch
    BY <1>1, <1>3 DEF LookAtRun, Moves, TypeOK
  <2>2. launch' \in Launch /\ launch'.pc = "launching" /\ launch'.job = launch.job
    BY <2>1 DEF Launch
  <2> QED
    BY <1>1, <2>2, LaunchKeeps
<1> QED
  BY <1>2, <1>3

LEMMA LaunchFailsKeeps ==
  ASSUME HostedInv, LaunchFails
  PROVE  HostedInv'
<1>1. /\ launch.pc = "launching" /\ TypeOK /\ Proceeds("answer", FALSE)
      /\ UNCHANGED <<job, run, phase, epic, pull, sandbox, worker, request, faults, history>>
  BY DEF LaunchFails, HostedInv, Answers
<1>2. launch' \in Launch /\ launch'.pc = "answer" /\ launch'.job = launch.job /\ ~launch'.ok
  BY <1>1, ProceedsTo
<1> QED
  BY <1>1, <1>2, LaunchKeeps

\* Judge takes no run for done that is not over.
LEMMA Judged ==
  ASSUME TypeOK, Judge(run.status)
  PROVE  /\ launch' \in Launch /\ launch'.job = launch.job /\ launch'.pc \in {"publishing", "answer"}
         /\ launch'.pc = "publishing" => launch'.copy.status = "completed"
         /\ launch'.pc = "answer" /\ launch'.ok => run.status \notin Active
<1>1. CASE run.status = "completed" /\ launch' = [launch EXCEPT !.pc = "publishing", !.copy = run]
  <2>1. launch \in Launch /\ run \in RunRow
    BY DEF TypeOK
  <2>2. launch' \in Launch /\ launch'.pc = "publishing" /\ launch'.job = launch.job /\ launch'.copy = run
    BY <1>1, <2>1 DEF Launch
  <2> QED
    BY <1>1, <2>2
<1>2. CASE run.status = "completed" /\ \E ok \in BOOLEAN : Proceeds("answer", ok)
  <2>1. launch' \in Launch /\ launch'.pc = "answer" /\ launch'.job = launch.job
    BY <1>2, ProceedsTo
  <2> QED
    BY <1>2, <2>1 DEF Active
<1>3. CASE Proceeds("answer", FALSE)
  <2>1. launch' \in Launch /\ launch'.pc = "answer" /\ launch'.job = launch.job /\ ~launch'.ok
    BY <1>3, ProceedsTo
  <2> QED
    BY <2>1
<1> QED
  BY <1>1, <1>2, <1>3 DEF Judge, Answers, Moves

LEMMA LookAtEndKeeps ==
  ASSUME HostedInv, LookAtEnd \/ WaitForEnd
  PROVE  HostedInv'
<1>1. /\ launch.pc \in {"ended", "waiting"} /\ TypeOK
      /\ UNCHANGED <<job, run, phase, epic, pull, sandbox, worker, request, faults, history>>
      /\ Judge(run.status) \/ Proceeds("waiting", FALSE)
  BY DEF LookAtEnd, WaitForEnd, HostedInv
<1>2. CASE Judge(run.status)
  <2>1. /\ launch' \in Launch /\ launch'.job = launch.job
        /\ launch'.pc = "publishing" => launch'.copy.status = "completed"
        /\ launch'.pc = "answer" /\ launch'.ok => run.status \notin Active
    BY <1>1, <1>2, Judged
  <2> QED
    BY <1>1, <2>1, LaunchKeeps
<1>3. CASE Proceeds("waiting", FALSE)
  <2>1. launch' \in Launch /\ launch'.pc = "waiting" /\ launch'.job = launch.job
    BY <1>1, <1>3, ProceedsTo
  <2> QED
    BY <1>1, <2>1, LaunchKeeps
<1> QED
  BY <1>1, <1>2, <1>3

LEMMA StartWorkerKeeps ==
  ASSUME HostedInv, NEW w \in Workers, StartWorker(w)
  PROVE  HostedInv'
<1> DEFINE from == job[launch.job].payload
           rec == [Gone EXCEPT !.pc = "up", !.at = from]
<1>1. /\ launch.pc = "launching" /\ worker[w].pc = "gone" /\ Goes(w, rec)
      /\ sandbox' = (IF sandbox = "none" THEN "live" ELSE sandbox)
      /\ launch' = [launch EXCEPT !.pc = "exec", !.worker = w]
      /\ UNCHANGED <<job, run, phase, epic, pull, request, faults, history>>
  BY DEF StartWorker, Alive, Moves
<1>2. launch' \in Launch /\ launch'.pc = "exec" /\ launch'.worker = w /\ launch'.job = launch.job
  BY <1>1 DEF HostedInv, TypeOK, Launch
<1>3. from \in 0..NumPhases
  BY <1>1 DEF HostedInv, JobInHand
<1> HIDE DEF from
<1>4. rec \in Worker /\ rec.pc = "up"
  BY <1>3, NothingYet DEF Worker
<1> HIDE DEF rec
<1>5. WorkerFits(rec)
  BY <1>4 DEF WorkerFits
<1>6. worker' \in [Workers -> Worker] /\ worker'[w] = rec /\ \A v \in Workers : v # w => worker'[v] = worker[v]
  BY <1>1, <1>4 DEF HostedInv, TypeOK, Goes
<1>7. TypeOK'
  BY <1>1, <1>2, <1>6 DEF HostedInv, TypeOK
<1>8. JobInHand' /\ WorkersFit' /\ LaunchFits' /\ RequestsFit'
  BY <1>1, <1>2, <1>5, <1>6, JobInHandStays DEF HostedInv, WorkersFit, LaunchFits, RequestsFit
<1>9. ASSUME history' = {} PROVE Consistent'
  <2>1. Consistent
    BY <1>1, <1>9 DEF HostedInv
  <2>2. NoneNew /\ NoneMissed /\ NoneOpens
    BY <1>1, <1>4, <1>6 DEF NoneNew, NoneMissed, NoneOpens, Finishing
  <2>3. Attached'
    BY <1>1, <1>2, <1>6, <2>1 DEF Consistent, Attached, Alive
  <2> QED
    BY <1>1, <1>2, <2>1, <2>2, <2>3, BehindStays, TruthStays, ReviewStays, HasJobStays DEF Consistent
<1> QED
  BY <1>7, <1>8, <1>9 DEF HostedInv

LEMMA ExecReturnsKeeps ==
  ASSUME HostedInv, ExecReturns
  PROVE  HostedInv'
<1> DEFINE w == launch.worker
<1>1. /\ launch.pc = "exec" /\ worker[w].pc = "gone" /\ Goes(w, Gone) /\ Proceeds("ended", worker[w].ok)
      /\ UNCHANGED <<job, run, phase, epic, pull, sandbox, request, faults, history>>
  BY DEF ExecReturns, Alive
<1>2. w \in Workers /\ worker[w].ok \in BOOLEAN
  BY DEF HostedInv, TypeOK, Launch, Worker
<1>3. launch' \in Launch /\ launch'.pc = "ended" /\ launch'.job = launch.job
  BY <1>1, <1>2, ProceedsTo DEF HostedInv
<1> HIDE DEF w
<1>4. worker' \in [Workers -> Worker] /\ worker'[w] = Gone /\ \A v \in Workers : v # w => worker'[v] = worker[v]
  BY <1>1, <1>2, NothingYet DEF HostedInv, TypeOK, Goes
<1>5. TypeOK'
  BY <1>1, <1>3, <1>4 DEF HostedInv, TypeOK
<1>6. JobInHand' /\ WorkersFit' /\ LaunchFits' /\ RequestsFit'
  BY <1>1, <1>3, <1>4, NothingYet, JobInHandStays DEF HostedInv, WorkersFit, LaunchFits, RequestsFit
<1>7. ASSUME history' = {} PROVE Consistent'
  <2>1. Consistent
    BY <1>1, <1>7 DEF HostedInv
  <2>2. NoneNew /\ NoneMissed /\ NoneOpens
    BY <1>1, <1>4, NothingYet DEF NoneNew, NoneMissed, NoneOpens, Finishing
  <2>3. Attached'
    BY <1>1, <1>4, <2>1, NothingYet DEF Consistent, Attached, Alive, w
  <2> QED
    BY <1>1, <1>3, <2>1, <2>2, <2>3, BehindStays, TruthStays, ReviewStays, HasJobStays DEF Consistent
<1> QED
  BY <1>5, <1>6, <1>7 DEF HostedInv

\* A worker that is cut off and has nothing left to write down.
LEMMA CutOff ==
  ASSUME HostedInv, NEW w \in Workers, Goes(w, Gone)
  PROVE  /\ worker' \in [Workers -> Worker] /\ WorkersFit'
         /\ \A v \in Workers : worker'[v].pc = "gone" \/ (v # w /\ worker'[v].pc = worker[v].pc)
         /\ ~Midway(w) => NoneNew /\ NoneMissed /\ NoneOpens
<1>1. worker' \in [Workers -> Worker] /\ worker'[w] = Gone /\ \A v \in Workers : v # w => worker'[v] = worker[v]
  BY NothingYet DEF HostedInv, TypeOK, Goes
<1>2. WorkersFit'
  BY <1>1, NothingYet DEF HostedInv, WorkersFit
<1>3. ASSUME ~Midway(w) PROVE NoneNew /\ NoneMissed /\ NoneOpens
  BY <1>1, <1>3, NothingYet DEF NoneNew, NoneMissed, NoneOpens, Finishing, Midway
<1> QED
  BY <1>1, <1>2, <1>3, NothingYet

LEMMA DisconnectedMoves ==
  ASSUME HostedInv, launch.pc = "exec", Disconnected
  PROVE  /\ launch' \in Launch /\ launch'.pc = "ended" /\ launch'.job = launch.job
         /\ worker' \in [Workers -> Worker] /\ WorkersFit' /\ LaunchFits'
         /\ history' \in SUBSET {"overwritten", "revived", "cut", "detached"}
         /\ history' = {} => history = {} /\ Attached' /\ NoneNew /\ NoneMissed /\ NoneOpens
<1> DEFINE w == launch.worker
<1>1. w \in Workers /\ TypeOK
  BY DEF HostedInv, TypeOK, Launch
<1>2. launch' \in Launch /\ launch'.pc = "ended" /\ launch'.job = launch.job
  BY <1>1, ProceedsTo DEF Disconnected
<1>3. CASE UNCHANGED worker /\ Note("detached", TRUE)
  <2>1. history' \in SUBSET {"overwritten", "revived", "cut", "detached"} /\ history' # {}
    BY <1>1, <1>3, Noted
  <2> QED
    BY <1>2, <1>3, <2>1 DEF HostedInv, TypeOK, WorkersFit, LaunchFits
<1>4. CASE Goes(w, Gone) /\ Note("cut", Midway(w))
  <2>1. Midway(w) \in BOOLEAN
    BY DEF Midway
  <2>2. /\ history' \in SUBSET {"overwritten", "revived", "cut", "detached"}
        /\ history' = {} => history = {} /\ ~Midway(w)
    BY <1>1, <1>4, <2>1, Noted
  <2>3. /\ worker' \in [Workers -> Worker] /\ WorkersFit'
        /\ \A v \in Workers : worker'[v].pc = "gone" \/ (v # w /\ worker'[v].pc = worker[v].pc)
        /\ ~Midway(w) => NoneNew /\ NoneMissed /\ NoneOpens
    BY <1>1, <1>4, CutOff
  <2>4. history = {} => Attached'
    BY <2>3 DEF HostedInv, Consistent, Attached, Alive
  <2> QED
    BY <1>2, <2>2, <2>3, <2>4 DEF LaunchFits
<1> QED
  BY <1>3, <1>4 DEF Disconnected

LEMMA TransportLostKeeps ==
  ASSUME HostedInv, TransportLost
  PROVE  HostedInv'
<1>1. /\ launch.pc = "exec" /\ Fault /\ Disconnected
      /\ UNCHANGED <<job, run, phase, epic, pull, sandbox, request>>
  BY DEF TransportLost
<1>2. /\ launch' \in Launch /\ launch'.pc = "ended" /\ launch'.job = launch.job
      /\ worker' \in [Workers -> Worker] /\ WorkersFit' /\ LaunchFits'
      /\ history' \in SUBSET {"overwritten", "revived", "cut", "detached"}
      /\ history' = {} => history = {} /\ Attached' /\ NoneNew /\ NoneMissed /\ NoneOpens
  BY <1>1, DisconnectedMoves
<1>3. TypeOK'
  BY <1>1, <1>2, Faulted DEF HostedInv, TypeOK
<1>4. JobInHand' /\ RequestsFit'
  BY <1>1, <1>2, JobInHandStays DEF HostedInv, RequestsFit
<1>5. ASSUME history' = {} PROVE Consistent'
  <2>1. Consistent
    BY <1>2, <1>5 DEF HostedInv
  <2> QED
    BY <1>1, <1>2, <1>5, <2>1, BehindStays, TruthStays, ReviewStays, HasJobStays DEF Consistent
<1> QED
  BY <1>2, <1>3, <1>4, <1>5 DEF HostedInv

LEMMA PublishKeeps ==
  ASSUME HostedInv, Publish
  PROVE  HostedInv'
<1>1. PICK status \in {"completed", "failed"}, ok \in BOOLEAN :
        /\ Write(launch.copy, [launch.copy EXCEPT !.status = status])
        /\ Proceeds("answer", ok)
  BY DEF Publish, Answers
<1>2. /\ launch.pc = "publishing" /\ launch.copy \in RunRow /\ launch.copy.status = "completed"
      /\ UNCHANGED <<job, phase, epic, pull, sandbox, worker, request, faults>>
  BY DEF Publish, HostedInv, LaunchFits, TypeOK, Launch
<1>3. launch' \in Launch /\ launch'.pc = "answer" /\ launch'.job = launch.job
  BY <1>1, ProceedsTo DEF HostedInv
<1> DEFINE row == [launch.copy EXCEPT !.status = status]
<1>4. row \in RunRow /\ row.status = status /\ row.pr = launch.copy.pr /\ row.mode = launch.copy.mode
  BY <1>2 DEF RunRow, RunStatus
<1>5. Write(launch.copy, row)
  BY <1>1
<1> HIDE DEF row
<1>6. /\ run' = row /\ run' \in RunRow /\ history' \in SUBSET {"overwritten", "revived", "cut", "detached"}
      /\ history' = {} => history = {} /\ run = launch.copy
  BY <1>4, <1>5, Written DEF HostedInv
<1>7. TypeOK'
  BY <1>2, <1>3, <1>6 DEF HostedInv, TypeOK
<1>8. JobInHand' /\ WorkersFit' /\ LaunchFits' /\ RequestsFit'
  BY <1>2, <1>3, JobInHandStays DEF HostedInv, WorkersFit, LaunchFits, RequestsFit
<1>9. ASSUME history' = {} PROVE Consistent'
  <2>1. Consistent /\ NoneNew /\ NoneOpens /\ run'.pr = run.pr /\ run'.mode = run.mode
    BY <1>2, <1>4, <1>6, <1>9 DEF HostedInv, NoneNew, NoneOpens
  <2>2. \A w \in Workers : worker[w].pc = "gone"
    BY <1>2, <2>1 DEF Consistent, Attached, Alive
  <2>3. Attached' /\ Behind' /\ Review'
    BY <1>2, <2>1, <2>2, BehindStays, ReviewStays DEF Consistent, Attached, Alive
  <2>4. AllDone /\ epic \in {"in_review", "completed"}
    BY <1>2, <1>6, <1>9, <2>1, <2>2 DEF Consistent, Truth, Finishing
  <2>5. Truth'
    BY <1>2, <1>4, <1>6, <2>4 DEF Truth, AllDone
  <2>6. run.status = "completed" /\ run'.status \in {"completed", "failed"}
    BY <1>2, <1>4, <1>6, <1>9
  <2>7. (Resuming' <=> Resuming) /\ (NoneLive' <=> NoneLive)
    BY <1>2 DEF Resuming, NoneLive, JobLive
  <2>8. HasJob'
    BY <1>2, <1>3, <2>1, <2>6, <2>7 DEF Consistent, HasJob, Active
  <2> QED
    BY <2>3, <2>5, <2>8 DEF Consistent
<1> QED
  BY <1>7, <1>8, <1>9 DEF HostedInv

LEMMA AnswerKeeps ==
  ASSUME HostedInv, Answer
  PROVE  HostedInv'
<1> DEFINE j == launch.job
<1>1. /\ launch.pc = "answer" /\ launch' = NotLaunching
      /\ job' = CompletedJob(j) \/ job' = FailedJob(j, launch.attempts)
      /\ launch.ok => job' = CompletedJob(j)
      /\ ~launch.ok => job' = FailedJob(j, launch.attempts)
      /\ UNCHANGED <<run, phase, epic, pull, sandbox, worker, request, faults, history>>
  BY DEF Answer, Moves
<1>2. j \in Jobs /\ job[j].status \in {"running", "cancelled"} /\ job \in [Jobs -> JobRow]
  BY <1>1 DEF HostedInv, JobInHand, TypeOK
<1> HIDE DEF j
<1>3. /\ job' \in [Jobs -> JobRow] /\ \A k \in Jobs : k # j => job'[k] = job[k]
      /\ job'[j].payload = job[j].payload
      /\ job[j].status = "cancelled" => job' = job
      /\ launch.ok /\ job[j].status # "cancelled" => job'[j].status = "completed"
      /\ ~launch.ok /\ job[j].status # "cancelled" => job'[j].status \in {"failed", "retry"}
  BY <1>1, <1>2, AnswersJob
<1>4. launch' \in Launch /\ launch'.pc = "idle"
  BY <1>1, NothingYet
<1>5. TypeOK'
  BY <1>1, <1>3, <1>4 DEF HostedInv, TypeOK
<1>6. job[j].status # "none" /\ \A k \in Jobs : job'[k].status = "none" <=> job[k].status = "none"
  BY <1>2, <1>3
<1>7. JobInHand'
  BY <1>2, <1>3, <1>4, <1>6 DEF HostedInv, JobInHand
<1>8. WorkersFit' /\ LaunchFits' /\ RequestsFit'
  BY <1>1, <1>4 DEF HostedInv, WorkersFit, LaunchFits, RequestsFit
<1>9. ASSUME history' = {} PROVE Consistent'
  <2>1. Consistent /\ NoneNew /\ NoneMissed /\ NoneOpens
    BY <1>1, <1>9 DEF HostedInv, NoneNew, NoneMissed, NoneOpens, Finishing
  <2>2. Attached' /\ Behind' /\ Truth' /\ Review'
    BY <1>1, <2>1, BehindStays, TruthStays, ReviewStays DEF Consistent, Attached, Alive
  <2>3. CASE job[j].status = "cancelled"
    <3>1. HasJob'
      BY <1>1, <1>3, <1>4, <2>1, <2>3, HasJobStays DEF Consistent
    <3> QED
      BY <2>2, <3>1 DEF Consistent
  <2>4. CASE job[j].status = "running"
    <3>1. ~NoneLive /\ (Resuming' <=> Resuming)
      BY <1>1, <1>2, <2>4 DEF NoneLive, JobLive, Resuming
    <3>2. run.status # "cancelled" /\ ~Resuming
      BY <2>1, <3>1 DEF Consistent, HasJob
    <3>3. launch.ok => run.status \notin Active
      BY <1>1, <2>1, <2>4 DEF Consistent, HasJob, j
    <3>4. ~launch.ok => \E k \in Jobs : JobLive(k)' \/ job'[k].status = "failed"
      BY <1>2, <1>3, <2>4 DEF JobLive, Unclaimed
    <3>5. HasJob'
      BY <1>1, <1>2, <1>4, <3>1, <3>2, <3>3, <3>4 DEF HasJob
    <3> QED
      BY <2>2, <3>5 DEF Consistent
  <2> QED
    BY <1>2, <2>3, <2>4
<1> QED
  BY <1>5, <1>7, <1>8, <1>9 DEF HostedInv

-----------------------------------------------------------------------------
(* Requests *)

LEMMA RequestMoves ==
  ASSUME HostedInv, NEW h \in Requests, NEW rec \in Request, RequestFits(rec), Serves(h, rec),
         rec.locked => request[h].locked \/ Unlocked
  PROVE  /\ request' \in [Requests -> Request] /\ request'[h] = rec
         /\ \A i \in Requests : i # h => request'[i] = request[i]
         /\ RequestsFit'
<1>1. /\ request' \in [Requests -> Request] /\ request'[h] = rec
      /\ \A i \in Requests : i # h => request'[i] = request[i]
  BY DEF HostedInv, TypeOK, Serves
<1>2. \A i \in Requests : RequestFits(request'[i])
  BY <1>1 DEF HostedInv, RequestsFit
<1>3. \A i, k \in Requests : request'[i].locked /\ request'[k].locked => i = k
  BY <1>1 DEF HostedInv, RequestsFit, Unlocked
<1> QED
  BY <1>1, <1>2, <1>3 DEF RequestsFit

LEMMA ContinuesAs ==
  ASSUME HostedInv, NEW h \in Requests,
         NEW pc \in {"cancelEpic", "cancelExec", "released", "reset", "merged", "closed"}, Continues(h, pc)
  PROVE  \E rec \in Request :
           /\ Serves(h, rec) /\ rec.pc = pc /\ rec.copy = request[h].copy /\ rec.from = request[h].from
           /\ rec.locked <=> request[h].locked
<1> DEFINE rec == [request[h] EXCEPT !.pc = pc]
<1>1. request[h] \in Request
  BY DEF HostedInv, TypeOK
<1>2. rec \in Request /\ rec.pc = pc /\ rec.copy = request[h].copy /\ rec.from = request[h].from
  BY <1>1 DEF Request
<1>3. rec.locked <=> request[h].locked
  BY <1>1 DEF Request
<1> QED
  BY <1>2, <1>3 DEF Continues

\* A request that begins, or ends and owes nothing.
LEMMA RequestKeeps ==
  ASSUME HostedInv, NEW h \in Requests, NEW rec \in Request, RequestFits(rec), Serves(h, rec),
         rec.locked => Unlocked, ~HalfServed(h), rec.pc \in {"idle", "cancel", "resume", "approve", "rollback"},
         rec.pc = "rollback" => run.pr,
         UNCHANGED <<job, run, phase, epic, pull, sandbox, launch, worker, faults, history>>
  PROVE  HostedInv'
<1>1. /\ request' \in [Requests -> Request] /\ request'[h] = rec
      /\ \A i \in Requests : i # h => request'[i] = request[i]
      /\ RequestsFit'
  BY RequestMoves
<1>2. TypeOK' /\ JobInHand' /\ WorkersFit' /\ LaunchFits'
  BY <1>1, JobInHandStays DEF HostedInv, TypeOK, WorkersFit, LaunchFits
<1>3. ASSUME history' = {} PROVE Consistent'
  <2>1. Consistent /\ NoneNew /\ NoneMissed /\ NoneOpens
    BY <1>3 DEF HostedInv, NoneNew, NoneMissed, NoneOpens, Finishing
  <2>2. run.pr => pull # "none"
    BY <2>1 DEF Consistent, Review
  <2>3. /\ \A i \in Requests : HalfServed(i) => request'[i].pc = request[i].pc
        /\ \A i \in Requests : request'[i].pc \in {"merged", "closed", "released", "reset"} =>
                                 request'[i].pc = request[i].pc
        /\ \A i \in Requests : request'[i].pc = "rollback" => request[i].pc = "rollback" \/ pull # "none"
    BY <1>1, <2>2 DEF HalfServed
  <2>4. Truth' /\ Review' /\ HasJob'
    BY <2>1, <2>3, TruthStays, ReviewStays, HasJobStays DEF Consistent, HalfServed
  <2> QED
    BY <2>1, <2>4, BehindStays DEF Consistent, Attached, Alive
<1> QED
  BY <1>1, <1>2, <1>3 DEF HostedInv

LEMMA BeginsKeep ==
  ASSUME HostedInv, NEW h \in Requests, NewRequest(h)
  PROVE  HostedInv'
<1>1. /\ request[h].pc = "idle" /\ ~HalfServed(h)
      /\ UNCHANGED <<job, run, phase, epic, pull, sandbox, launch, worker, faults, history>>
  BY DEF NewRequest, BeginCancel, BeginResume, BeginApprove, BeginRollback, HalfServed
<1>2. run \in RunRow
  BY DEF HostedInv, TypeOK
<1>3. ASSUME NEW locked \in BOOLEAN, BeginCancel(h, locked) PROVE HostedInv'
  <2> DEFINE rec == [NotServing EXCEPT !.pc = "cancel", !.locked = locked]
  <2>1. rec \in Request /\ rec.pc = "cancel" /\ (rec.locked <=> locked)
    BY NothingYet DEF Request
  <2>2. Serves(h, rec) /\ (locked => Unlocked)
    BY <1>3 DEF BeginCancel
  <2> HIDE DEF rec
  <2>3. RequestFits(rec)
    BY <2>1 DEF RequestFits
  <2> QED
    BY <1>1, <2>1, <2>2, <2>3, RequestKeeps
<1>4. ASSUME NEW from \in (ResumeAt \cup {run.phase}) \ {0}, BeginResume(h, from) PROVE HostedInv'
  <2> DEFINE rec == [pc |-> "resume", copy |-> run, from |-> from, locked |-> TRUE]
  <2>1. Serves(h, rec) /\ Unlocked /\ run.status \notin Active
    BY <1>4 DEF BeginResume
  <2>2. from \in 0..NumPhases
    BY <1>2 DEF RunRow
  <2>3. rec \in Request /\ RequestFits(rec)
    BY <1>2, <2>1, <2>2 DEF Request, RequestFits
  <2> QED
    BY <1>1, <2>1, <2>3, RequestKeeps
<1>5. ASSUME BeginApprove(h) \/ BeginRollback(h) PROVE HostedInv'
  <2>1. PICK pc \in {"approve", "rollback"} :
          Serves(h, [NotServing EXCEPT !.pc = pc, !.copy = run]) /\ run.pr /\ run.mode = "draft"
    BY <1>5 DEF BeginApprove, BeginRollback, MayRollBack
  <2> DEFINE rec == [NotServing EXCEPT !.pc = pc, !.copy = run]
  <2>2. rec \in Request /\ rec.pc = pc /\ rec.copy = run /\ (rec.locked <=> NotServing.locked)
    BY <1>2, NothingYet DEF Request
  <2>3. Serves(h, rec)
    BY <2>1
  <2> HIDE DEF rec
  <2>4. RequestFits(rec) /\ ~rec.locked
    BY <2>1, <2>2, NothingYet DEF RequestFits
  <2> QED
    BY <1>1, <2>1, <2>2, <2>3, <2>4, RequestKeeps
<1> QED
  BY <1>3, <1>4, <1>5 DEF NewRequest

\* The job in hand when the jobs of the run are cancelled.
LEMMA CancelsInHand ==
  ASSUME HostedInv, job' = CancelledJobs(Jobs), UNCHANGED launch
  PROVE  /\ job' \in [Jobs -> JobRow] /\ NoneLive' /\ JobInHand'
         /\ launch.pc # "idle" => job'[launch.job].status = "cancelled"
<1>1. /\ job' \in [Jobs -> JobRow] /\ NoneLive'
      /\ \A j \in Jobs : /\ JobLive(j) => job'[j].status = "cancelled"
                         /\ ~JobLive(j) => job'[j] = job[j]
                         /\ job'[j].payload = job[j].payload
  BY CancelsJobs DEF HostedInv, TypeOK
<1>2. \A j \in Jobs : job'[j].status = "none" <=> job[j].status = "none"
  BY <1>1 DEF JobLive, Unclaimed
<1>3. launch.pc # "idle" => job'[launch.job].status = "cancelled"
  BY <1>1 DEF HostedInv, JobInHand, JobLive
<1>4. JobInHand'
  BY <1>1, <1>2, <1>3 DEF HostedInv, JobInHand
<1> QED
  BY <1>1, <1>3, <1>4

LEMMA CancelCommitKeeps ==
  ASSUME HostedInv, NEW h \in Requests, CancelCommit(h)
  PROVE  HostedInv'
<1>1. /\ request[h].pc = "cancel" /\ run' = [run EXCEPT !.status = "cancelled"]
      /\ Note("overwritten", run.status \notin Active)
      /\ job' = CancelledJobs(Jobs) /\ Continues(h, "cancelEpic")
      /\ UNCHANGED <<phase, epic, pull, sandbox, launch, worker, faults>>
  BY DEF CancelCommit
<1>2. PICK rec \in Request : Serves(h, rec) /\ rec.pc = "cancelEpic" /\ (rec.locked <=> request[h].locked)
  BY <1>1, ContinuesAs
<1>3. /\ request' \in [Requests -> Request] /\ request'[h] = rec
      /\ \A i \in Requests : i # h => request'[i] = request[i]
      /\ RequestsFit'
  BY <1>2, RequestMoves DEF RequestFits
<1>4. /\ run' \in RunRow /\ run'.status = "cancelled" /\ run'.pr = run.pr /\ run'.mode = run.mode
  BY <1>1 DEF HostedInv, TypeOK, RunRow, RunStatus
<1>5. /\ history' \in SUBSET {"overwritten", "revived", "cut", "detached"}
      /\ history' = {} => history = {}
  BY <1>1, Noted DEF HostedInv
<1>6. job' \in [Jobs -> JobRow] /\ NoneLive' /\ JobInHand'
  BY <1>1, CancelsInHand
<1>7. TypeOK' /\ WorkersFit' /\ LaunchFits'
  BY <1>1, <1>3, <1>4, <1>5, <1>6 DEF HostedInv, TypeOK, WorkersFit, LaunchFits
<1>8. ASSUME history' = {} PROVE Consistent'
  <2>1. Consistent /\ NoneNew /\ NoneOpens
    BY <1>1, <1>5, <1>8 DEF HostedInv, NoneNew, NoneOpens
  <2>2. Attached' /\ Behind'
    BY <1>1, <2>1, BehindStays DEF Consistent, Attached, Alive
  <2>3. Review'
    BY <1>1, <1>2, <1>3, <1>4, <2>1, ReviewStays DEF Consistent
  <2>4. Truth'
    BY <1>2, <1>3, <1>4 DEF Truth
  <2>5. HasJob'
    BY <1>4, <1>6 DEF HasJob, Active
  <2> QED
    BY <2>2, <2>3, <2>4, <2>5 DEF Consistent
<1> QED
  BY <1>3, <1>6, <1>7, <1>8 DEF HostedInv

LEMMA CancelEpicKeeps ==
  ASSUME HostedInv, NEW h \in Requests, CancelEpic(h)
  PROVE  HostedInv'
<1>1. /\ request[h].pc = "cancelEpic" /\ epic' = "cancelled" /\ Note("overwritten", run.status # "cancelled")
      /\ UNCHANGED <<job, run, phase, pull, sandbox, launch, worker, faults>>
  BY DEF CancelEpic
<1>2. PICK rec \in Request : /\ Serves(h, rec) /\ rec.pc \in {"cancelExec", "idle"}
                             /\ rec.locked => request[h].locked
  <2>1. CASE Continues(h, "cancelExec")
    BY <2>1, ContinuesAs
  <2>2. CASE Replies(h)
    BY <2>2, NothingYet DEF Replies
  <2> QED
    BY <2>1, <2>2 DEF CancelEpic
<1>3. /\ request' \in [Requests -> Request] /\ request'[h] = rec
      /\ \A i \in Requests : i # h => request'[i] = request[i]
      /\ RequestsFit'
  BY <1>2, RequestMoves DEF RequestFits
<1>4. /\ history' \in SUBSET {"overwritten", "revived", "cut", "detached"}
      /\ history' = {} => history = {} /\ run.status = "cancelled"
  BY <1>1, Noted DEF HostedInv
<1>5. TypeOK' /\ JobInHand' /\ WorkersFit' /\ LaunchFits'
  BY <1>1, <1>3, <1>4, JobInHandStays DEF HostedInv, TypeOK, WorkersFit, LaunchFits
<1>6. ASSUME history' = {} PROVE Consistent'
  <2>1. Consistent /\ NoneNew /\ NoneOpens
    BY <1>1, <1>4, <1>6 DEF HostedInv, NoneNew, NoneOpens
  <2>2. Attached' /\ Behind'
    BY <1>1, <2>1, BehindStays DEF Consistent, Attached, Alive
  <2>3. Review' /\ HasJob'
    BY <1>1, <1>2, <1>3, <2>1, ReviewStays, HasJobStays DEF Consistent
  <2>4. Truth'
    BY <1>1, <1>4, <1>6 DEF Truth
  <2> QED
    BY <2>2, <2>3, <2>4 DEF Consistent
<1> QED
  BY <1>3, <1>5, <1>6 DEF HostedInv

LEMMA CancelExecKeeps ==
  ASSUME HostedInv, NEW h \in Requests, CancelExec(h)
  PROVE  HostedInv'
<1>1. /\ request[h].pc = "cancelExec" /\ Serves(h, NotServing)
      /\ UNCHANGED <<job, run, phase, epic, pull, sandbox, faults>>
  BY DEF CancelExec, Replies
<1>2. /\ request' \in [Requests -> Request] /\ request'[h] = NotServing
      /\ \A i \in Requests : i # h => request'[i] = request[i]
      /\ RequestsFit'
  BY <1>1, NothingYet, RequestMoves
<1>3. CASE launch.pc = "exec" /\ Disconnected
  <2>1. /\ launch' \in Launch /\ launch'.pc = "ended" /\ launch'.job = launch.job
        /\ worker' \in [Workers -> Worker] /\ WorkersFit' /\ LaunchFits'
        /\ history' \in SUBSET {"overwritten", "revived", "cut", "detached"}
        /\ history' = {} => history = {} /\ Attached' /\ NoneNew /\ NoneMissed /\ NoneOpens
    BY <1>3, DisconnectedMoves
  <2>2. TypeOK' /\ JobInHand'
    BY <1>1, <1>2, <1>3, <2>1, JobInHandStays DEF HostedInv, TypeOK
  <2>3. ASSUME history' = {} PROVE Consistent'
    <3>1. Consistent
      BY <2>1, <2>3 DEF HostedInv
    <3>2. Behind' /\ Truth' /\ Review' /\ HasJob'
      BY <1>1, <1>2, <1>3, <2>1, <2>3, <3>1, NothingYet, BehindStays, TruthStays, ReviewStays, HasJobStays
      DEF Consistent
    <3> QED
      BY <2>1, <2>3, <3>2 DEF Consistent
  <2> QED
    BY <1>2, <2>1, <2>2, <2>3 DEF HostedInv
<1>4. CASE UNCHANGED <<launch, worker, history>>
  <2>1. ~HalfServed(h)
    BY <1>1 DEF HalfServed
  <2> QED
    BY <1>1, <1>4, <2>1, NothingYet, RequestKeeps
<1> QED
  BY <1>3, <1>4 DEF CancelExec

LEMMA ResumeReleaseKeeps ==
  ASSUME HostedInv, NEW h \in Requests, ResumeRelease(h)
  PROVE  HostedInv'
<1>1. /\ request[h].pc = "resume" /\ Note("overwritten", run # request[h].copy)
      /\ job' = CancelledJobs(Jobs) /\ Continues(h, "released")
      /\ UNCHANGED <<run, phase, epic, pull, sandbox, launch, worker, faults>>
  BY DEF ResumeRelease
<1>2. RequestFits(request[h])
  BY DEF HostedInv, RequestsFit
<1>3. PICK rec \in Request : Serves(h, rec) /\ rec.pc = "released" /\ (rec.locked <=> request[h].locked)
  BY <1>1, ContinuesAs
<1>4. /\ request' \in [Requests -> Request] /\ request'[h] = rec
      /\ \A i \in Requests : i # h => request'[i] = request[i]
      /\ RequestsFit'
  BY <1>1, <1>2, <1>3, RequestMoves DEF RequestFits
<1>5. /\ history' \in SUBSET {"overwritten", "revived", "cut", "detached"}
      /\ history' = {} => history = {} /\ run = request[h].copy
  BY <1>1, Noted DEF HostedInv
<1>6. job' \in [Jobs -> JobRow] /\ NoneLive' /\ JobInHand'
  BY <1>1, CancelsInHand
<1>7. TypeOK' /\ WorkersFit' /\ LaunchFits'
  BY <1>1, <1>4, <1>5, <1>6 DEF HostedInv, TypeOK, WorkersFit, LaunchFits
<1>8. ASSUME history' = {} PROVE Consistent'
  <2>1. Consistent /\ NoneNew /\ NoneMissed /\ NoneOpens
    BY <1>1, <1>5, <1>8 DEF HostedInv, NoneNew, NoneMissed, NoneOpens, Finishing
  <2>2. Attached' /\ Behind' /\ Truth' /\ Review'
    BY <1>1, <1>3, <1>4, <2>1, BehindStays, TruthStays, ReviewStays DEF Consistent, Attached, Alive
  <2>3. Resuming' /\ run'.status \notin Active
    BY <1>1, <1>2, <1>3, <1>4, <1>5, <1>8 DEF Resuming, RequestFits
  <2>4. HasJob'
    BY <1>6, <2>3 DEF HasJob
  <2> QED
    BY <2>2, <2>4 DEF Consistent
<1> QED
  BY <1>4, <1>6, <1>7, <1>8 DEF HostedInv

LEMMA ResumeResetKeeps ==
  ASSUME HostedInv, NEW h \in Requests, ResumeReset(h)
  PROVE  HostedInv'
<1> DEFINE seen == request[h].copy
           row == [seen EXCEPT !.status = "pending", !.phase = request[h].from]
<1>1. /\ request[h].pc = "released" /\ Write(seen, row) /\ Continues(h, "reset")
      /\ UNCHANGED <<job, phase, epic, pull, sandbox, launch, worker, faults>>
  BY DEF ResumeReset
<1>2. request[h] \in Request /\ RequestFits(request[h])
  BY DEF HostedInv, TypeOK, RequestsFit
<1>3. row \in RunRow /\ row.status = "pending" /\ row.pr = seen.pr /\ row.mode = seen.mode
  BY <1>2 DEF Request, RunRow, RunStatus
<1> HIDE DEF row
<1>4. PICK rec \in Request : Serves(h, rec) /\ rec.pc = "reset" /\ (rec.locked <=> request[h].locked)
  BY <1>1, ContinuesAs
<1>5. /\ request' \in [Requests -> Request] /\ request'[h] = rec
      /\ \A i \in Requests : i # h => request'[i] = request[i]
      /\ RequestsFit'
  BY <1>1, <1>2, <1>4, RequestMoves DEF RequestFits
<1>6. /\ run' = row /\ run' \in RunRow /\ history' \in SUBSET {"overwritten", "revived", "cut", "detached"}
      /\ history' = {} => history = {} /\ run = seen
  BY <1>1, <1>3, Written DEF HostedInv
<1>7. TypeOK' /\ JobInHand' /\ WorkersFit' /\ LaunchFits'
  BY <1>1, <1>5, <1>6, JobInHandStays DEF HostedInv, TypeOK, WorkersFit, LaunchFits
<1>8. ASSUME history' = {} PROVE Consistent'
  <2>1. /\ Consistent /\ NoneNew /\ NoneMissed /\ NoneOpens
        /\ run'.pr = run.pr /\ run'.mode = run.mode /\ run'.status = "pending"
    BY <1>1, <1>3, <1>6, <1>8 DEF HostedInv, NoneNew, NoneMissed, NoneOpens, Finishing
  <2>2. Attached' /\ Behind' /\ Review'
    BY <1>1, <1>4, <1>5, <2>1, BehindStays, ReviewStays DEF Consistent, Attached, Alive
  <2>3. Truth'
    BY <2>1 DEF Truth
  <2>4. Resuming /\ Resuming' /\ (NoneLive' <=> NoneLive)
    BY <1>1, <1>4, <1>5 DEF Resuming, NoneLive, JobLive
  <2>5. NoneLive
    BY <2>1, <2>4 DEF Consistent, HasJob
  <2>6. launch.pc # "idle" => job[launch.job].status = "cancelled"
    BY <2>5 DEF HostedInv, JobInHand, NoneLive, JobLive
  <2>7. HasJob'
    BY <1>1, <2>1, <2>4, <2>5, <2>6 DEF HasJob
  <2> QED
    BY <2>2, <2>3, <2>7 DEF Consistent
<1> QED
  BY <1>5, <1>7, <1>8 DEF HostedInv

LEMMA ResumeEnqueueKeeps ==
  ASSUME HostedInv, NEW h \in Requests, ResumeEnqueue(h)
  PROVE  HostedInv'
<1>1. /\ request[h].pc = "reset" /\ HasRoom /\ job' = Enqueued(request[h].from)
      /\ Note("overwritten", run.status # "pending") /\ Serves(h, NotServing)
      /\ UNCHANGED <<run, phase, epic, pull, sandbox, launch, worker, faults>>
  BY DEF ResumeEnqueue, Replies
<1>2. request[h] \in Request /\ RequestFits(request[h]) /\ request[h].from \in Payloads
  BY DEF HostedInv, TypeOK, RequestsFit, Request
<1>3. /\ request' \in [Requests -> Request] /\ request'[h] = NotServing
      /\ \A i \in Requests : i # h => request'[i] = request[i]
      /\ RequestsFit'
  BY <1>1, NothingYet, RequestMoves
<1>4. /\ history' \in SUBSET {"overwritten", "revived", "cut", "detached"}
      /\ history' = {} => history = {} /\ run.status = "pending"
  BY <1>1, Noted DEF HostedInv
<1>5. /\ job' \in [Jobs -> JobRow]
      /\ \A j \in Jobs : job[j].status # "none" => job'[j] = job[j]
      /\ \A j \in Jobs : job'[j].status # "none" => job'[j].payload \in Payloads
      /\ \E j \in Jobs : JobLive(j)'
      /\ \E n \in 0..MaxJobs : \A j \in Jobs : job'[j].status = "none" <=> j > n
  BY <1>1, <1>2, EnqueuesJob DEF HostedInv, TypeOK
<1>6. launch.pc # "idle" => launch.job \in Jobs /\ job'[launch.job] = job[launch.job]
  BY <1>5 DEF HostedInv, JobInHand
<1>7. JobInHand'
  BY <1>1, <1>5, <1>6 DEF HostedInv, JobInHand
<1>8. TypeOK' /\ WorkersFit' /\ LaunchFits'
  BY <1>1, <1>3, <1>4, <1>5 DEF HostedInv, TypeOK, WorkersFit, LaunchFits
<1>9. ASSUME history' = {} PROVE Consistent'
  <2>1. Consistent /\ NoneNew /\ NoneMissed /\ NoneOpens
    BY <1>1, <1>4, <1>9 DEF HostedInv, NoneNew, NoneMissed, NoneOpens, Finishing
  <2>2. Attached' /\ Behind' /\ Truth' /\ Review'
    BY <1>1, <1>3, <2>1, NothingYet, BehindStays, TruthStays, ReviewStays DEF Consistent, Attached, Alive
  <2>3. ~Resuming'
    <3>1. \A i \in Requests : request[i].pc \in {"released", "reset"} => i = h
      BY <1>1 DEF HostedInv, RequestsFit, RequestFits
    <3> QED
      BY <1>3, <3>1, NothingYet DEF Resuming
  <2>4. run'.status = "pending" /\ run'.status \in Active
    BY <1>1, <1>4, <1>9 DEF Active
  <2>5. HasJob'
    BY <1>1, <1>4, <1>5, <1>6, <1>9, <2>1, <2>3, <2>4 DEF Consistent, HasJob, NoneLive
  <2> QED
    BY <2>2, <2>5 DEF Consistent
<1> QED
  BY <1>3, <1>7, <1>8, <1>9 DEF HostedInv

LEMMA MergeKeeps ==
  ASSUME HostedInv, NEW h \in Requests, Merge(h)
  PROVE  HostedInv'
<1>1. /\ request[h].pc = "approve" /\ pull = "open" /\ pull' = "merged" /\ Continues(h, "merged")
      /\ UNCHANGED <<job, run, phase, epic, sandbox, launch, worker, faults, history>>
  BY DEF Merge
<1>2. RequestFits(request[h])
  BY DEF HostedInv, RequestsFit
<1>3. PICK rec \in Request : /\ Serves(h, rec) /\ rec.pc = "merged" /\ rec.copy = request[h].copy
                             /\ rec.locked <=> request[h].locked
  BY <1>1, ContinuesAs
<1>4. /\ request' \in [Requests -> Request] /\ request'[h] = rec
      /\ \A i \in Requests : i # h => request'[i] = request[i]
      /\ RequestsFit'
  BY <1>1, <1>2, <1>3, RequestMoves DEF RequestFits
<1>5. TypeOK' /\ JobInHand' /\ WorkersFit' /\ LaunchFits'
  BY <1>1, <1>4, JobInHandStays DEF HostedInv, TypeOK, WorkersFit, LaunchFits
<1>6. ASSUME history' = {} PROVE Consistent'
  <2>1. Consistent /\ NoneNew /\ NoneMissed /\ NoneOpens
    BY <1>1, <1>6 DEF HostedInv, NoneNew, NoneMissed, NoneOpens, Finishing
  <2>2. Attached' /\ Behind' /\ Truth' /\ HasJob'
    BY <1>1, <1>3, <1>4, <2>1, BehindStays, TruthStays, HasJobStays DEF Consistent, Attached, Alive
  <2>3. Merging' /\ (Opening' <=> Opening)
    BY <1>1, <1>3, <1>4 DEF Merging, Opening
  <2>4. Review'
    BY <1>1, <2>1, <2>3 DEF Consistent, Review
  <2> QED
    BY <2>2, <2>4 DEF Consistent
<1> QED
  BY <1>4, <1>5, <1>6 DEF HostedInv

LEMMA CloseKeeps ==
  ASSUME HostedInv, NEW h \in Requests, Close(h)
  PROVE  HostedInv'
<1>1. /\ request[h].pc = "rollback" /\ pull' = (IF pull = "open" THEN "closed" ELSE pull) /\ Continues(h, "closed")
      /\ UNCHANGED <<job, run, phase, epic, sandbox, launch, worker, faults, history>>
  BY DEF Close
<1>2. RequestFits(request[h])
  BY DEF HostedInv, RequestsFit
<1>3. PICK rec \in Request : /\ Serves(h, rec) /\ rec.pc = "closed" /\ rec.copy = request[h].copy
                             /\ rec.locked <=> request[h].locked
  BY <1>1, ContinuesAs
<1>4. /\ request' \in [Requests -> Request] /\ request'[h] = rec
      /\ \A i \in Requests : i # h => request'[i] = request[i]
      /\ RequestsFit'
  BY <1>1, <1>2, <1>3, RequestMoves DEF RequestFits
<1>5. TypeOK' /\ JobInHand' /\ WorkersFit' /\ LaunchFits'
  BY <1>1, <1>4, JobInHandStays DEF HostedInv, TypeOK, WorkersFit, LaunchFits
<1>6. ASSUME history' = {} PROVE Consistent'
  <2>1. Consistent /\ NoneNew /\ NoneMissed /\ NoneOpens
    BY <1>1, <1>6 DEF HostedInv, NoneNew, NoneMissed, NoneOpens, Finishing
  <2>2. Attached' /\ Behind' /\ Truth' /\ HasJob'
    BY <1>1, <1>3, <1>4, <2>1, BehindStays, TruthStays, HasJobStays DEF Consistent, Attached, Alive
  <2>3. Closing' /\ (Opening' <=> Opening) /\ (Merging' <=> Merging)
    BY <1>1, <1>3, <1>4 DEF Closing, Merging, Opening
  <2>4. \A i \in Requests : i # h => request'[i].pc = request[i].pc
    BY <1>4
  <2>5. pull \in {"open", "closed", "merged"} /\ run' = run
    BY <1>1, <2>1 DEF HostedInv, TypeOK, Consistent, Review
  <2>6. Review'
    <3>1. CASE pull = "open"
      BY <1>1, <1>3, <1>4, <2>1, <2>3, <2>4, <2>5, <3>1 DEF Consistent, Review
    <3>2. CASE pull \in {"closed", "merged"}
      BY <1>1, <1>3, <1>4, <2>1, <2>3, <2>4, <2>5, <3>2 DEF Consistent, Review
    <3> QED
      BY <2>5, <3>1, <3>2
  <2> QED
    BY <2>2, <2>6 DEF Consistent
<1> QED
  BY <1>4, <1>5, <1>6 DEF HostedInv

LEMMA RecordReviewKeeps ==
  ASSUME HostedInv, NEW h \in Requests, RecordMerge(h) \/ RecordClose(h)
  PROVE  HostedInv'
<1>1. PICK mode \in {"merged", "rolled_back"} :
        /\ request[h].pc = (IF mode = "merged" THEN "merged" ELSE "closed")
        /\ RecordReview(h, mode)
  BY DEF RecordMerge, RecordClose
<1> DEFINE seen == request[h].copy
           row == [seen EXCEPT !.mode = mode]
<1>2. /\ Write(seen, row) /\ sandbox' = "destroyed" /\ Serves(h, NotServing)
      /\ UNCHANGED <<job, phase, epic, pull, launch, worker, faults>>
  BY <1>1 DEF RecordReview, Replies
<1>3. request[h] \in Request /\ RequestFits(request[h])
  BY DEF HostedInv, TypeOK, RequestsFit
<1>4. row \in RunRow /\ row.mode = mode /\ row.pr = seen.pr /\ row.status = seen.status /\ seen.mode = "draft"
  BY <1>1, <1>3 DEF Request, RunRow, RequestFits
<1> HIDE DEF row
<1>5. /\ request' \in [Requests -> Request] /\ request'[h] = NotServing
      /\ \A i \in Requests : i # h => request'[i] = request[i]
      /\ RequestsFit'
  BY <1>2, NothingYet, RequestMoves
<1>6. /\ run' = row /\ run' \in RunRow /\ history' \in SUBSET {"overwritten", "revived", "cut", "detached"}
      /\ history' = {} => history = {} /\ run = seen
  BY <1>2, <1>4, Written DEF HostedInv
<1>7. TypeOK' /\ JobInHand' /\ WorkersFit' /\ LaunchFits'
  BY <1>2, <1>5, <1>6, JobInHandStays DEF HostedInv, TypeOK, WorkersFit, LaunchFits
<1>8. ASSUME history' = {} PROVE Consistent'
  <2>1. /\ Consistent /\ NoneNew /\ NoneMissed /\ NoneOpens
        /\ run'.status = run.status /\ run'.pr = run.pr /\ run'.mode = mode /\ run.mode = "draft"
    BY <1>2, <1>4, <1>6, <1>8 DEF HostedInv, NoneNew, NoneMissed, NoneOpens, Finishing
  <2>2. Attached' /\ Behind' /\ Truth' /\ HasJob'
    BY <1>1, <1>2, <1>5, <2>1, NothingYet, BehindStays, TruthStays, HasJobStays DEF Consistent, Attached, Alive
  <2>3. Opening' <=> Opening
    BY <2>1 DEF NoneOpens, Opening
  <2>4. \A i \in Requests : request'[i].pc \in {"merged", "closed", "rollback"} => request'[i].pc = request[i].pc
    BY <1>5, NothingYet
  <2>5. CASE mode = "merged"
    <3>1. pull = "merged"
      BY <1>1, <2>1, <2>5 DEF Consistent, Review
    <3>2. Review'
      BY <1>2, <2>1, <2>3, <2>4, <2>5, <3>1 DEF Consistent, Review
    <3> QED
      BY <2>2, <3>2 DEF Consistent
  <2>6. CASE mode = "rolled_back"
    <3>1. pull \in {"closed", "merged"} /\ (pull = "merged" => Merging)
      BY <1>1, <2>1, <2>6 DEF Consistent, Review
    <3>2. Merging => Merging'
      BY <1>1, <1>5, <2>6 DEF Merging
    <3>3. Review'
      BY <1>2, <2>1, <2>3, <2>4, <2>6, <3>1, <3>2 DEF Consistent, Review
    <3> QED
      BY <2>2, <3>3 DEF Consistent
  <2> QED
    BY <2>5, <2>6
<1> QED
  BY <1>5, <1>7, <1>8 DEF HostedInv

LEMMA AbortKeeps ==
  ASSUME HostedInv, NEW h \in Requests, Abort(h)
  PROVE  HostedInv'
<1>1. /\ Serves(h, NotServing) /\ Note("cut", HalfServed(h))
      /\ IF HalfServed(h) THEN Fault ELSE UNCHANGED faults
      /\ UNCHANGED <<job, run, phase, epic, pull, sandbox, launch, worker>>
  BY DEF Abort, Replies
<1>2. HalfServed(h) \in BOOLEAN
  BY DEF HalfServed
<1>3. /\ history' \in SUBSET {"overwritten", "revived", "cut", "detached"}
      /\ history' = {} => ~HalfServed(h)
  BY <1>1, <1>2, Noted DEF HostedInv
<1>4. CASE HalfServed(h)
  <2>1. /\ request' \in [Requests -> Request] /\ request'[h] = NotServing
        /\ \A i \in Requests : i # h => request'[i] = request[i]
        /\ RequestsFit'
    BY <1>1, NothingYet, RequestMoves
  <2>2. TypeOK' /\ JobInHand' /\ WorkersFit' /\ LaunchFits'
    BY <1>1, <1>3, <1>4, <2>1, Faulted, JobInHandStays DEF HostedInv, TypeOK, WorkersFit, LaunchFits
  <2> QED
    BY <1>3, <1>4, <2>1, <2>2 DEF HostedInv
<1>5. CASE ~HalfServed(h)
  <2>1. UNCHANGED <<faults, history>>
    BY <1>1, <1>5 DEF Note
  <2> QED
    BY <1>1, <1>5, <2>1, NothingYet, RequestKeeps
<1> QED
  BY <1>4, <1>5

LEMMA ServerStopsKeeps ==
  ASSUME HostedInv, ServerStops
  PROVE  HostedInv'
<1> DEFINE w == launch.worker
           attached == launch.pc = "exec" /\ Alive(w)
           half == \E h \in Requests : HalfServed(h)
<1>1. /\ Fault /\ launch' = NotLaunching /\ request' = [h \in Requests |-> NotServing]
      /\ UNCHANGED <<job, run, phase, epic, pull, sandbox>>
      /\ \/ /\ UNCHANGED worker
            /\ history' = history \cup (IF half THEN {"cut"} ELSE {})
                                  \cup (IF attached THEN {"detached"} ELSE {})
         \/ attached /\ Goes(w, Gone) /\ Note("cut", half \/ Midway(w))
  BY DEF ServerStops, Moves
<1>2. w \in Workers
  BY DEF HostedInv, TypeOK, Launch
<1>3. faults' \in 0..Faults
  BY <1>1, Faulted DEF HostedInv
<1>4. launch' \in Launch /\ launch'.pc = "idle" /\ request' \in [Requests -> Request]
  BY <1>1, NothingYet
<1>5. \A h \in Requests : request'[h] = NotServing
  BY <1>1
<1>6. JobInHand' /\ LaunchFits' /\ RequestsFit'
  BY <1>1, <1>4, <1>5, NothingYet, JobInHandStays DEF HostedInv, LaunchFits, RequestsFit
<1>7. /\ worker' \in [Workers -> Worker] /\ WorkersFit'
      /\ history' \in SUBSET {"overwritten", "revived", "cut", "detached"}
      /\ history' = {} => /\ history = {} /\ ~half /\ NoneNew /\ NoneMissed /\ NoneOpens
                          /\ \A v \in Workers : worker'[v].pc = "gone"
  <2>1. CASE UNCHANGED worker /\ history' = history \cup (IF half THEN {"cut"} ELSE {})
                                                   \cup (IF attached THEN {"detached"} ELSE {})
    <3>1. worker' \in [Workers -> Worker] /\ WorkersFit' /\ NoneNew /\ NoneMissed /\ NoneOpens
      BY <2>1 DEF HostedInv, TypeOK, WorkersFit, NoneNew, NoneMissed, NoneOpens, Finishing
    <3>2. history' \in SUBSET {"overwritten", "revived", "cut", "detached"}
      BY <2>1 DEF HostedInv, TypeOK
    <3>3. history' = {} => history = {} /\ ~half /\ ~attached
      BY <2>1
    <3>4. history = {} /\ ~attached => \A v \in Workers : worker[v].pc = "gone"
      BY DEF HostedInv, Consistent, Attached, Alive
    <3> QED
      BY <2>1, <3>1, <3>2, <3>3, <3>4
  <2>2. CASE attached /\ Goes(w, Gone) /\ Note("cut", half \/ Midway(w))
    <3>1. /\ worker' \in [Workers -> Worker] /\ WorkersFit'
          /\ \A v \in Workers : worker'[v].pc = "gone" \/ (v # w /\ worker'[v].pc = worker[v].pc)
          /\ ~Midway(w) => NoneNew /\ NoneMissed /\ NoneOpens
      BY <1>2, <2>2, CutOff
    <3>2. (half \/ Midway(w)) \in BOOLEAN
      BY DEF Midway
    <3>3. /\ history' \in SUBSET {"overwritten", "revived", "cut", "detached"}
          /\ history' = {} => history = {} /\ ~(half \/ Midway(w))
      BY <2>2, <3>2, Noted DEF HostedInv
    <3>4. history = {} => \A v \in Workers : worker'[v].pc = "gone"
      BY <3>1 DEF HostedInv, Consistent, Attached, Alive
    <3> QED
      BY <3>1, <3>3, <3>4
  <2> QED
    BY <1>1, <2>1, <2>2
<1>8. TypeOK'
  BY <1>1, <1>3, <1>4, <1>7 DEF HostedInv, TypeOK
<1>9. ASSUME history' = {} PROVE Consistent'
  <2>1. Consistent
    BY <1>7, <1>9 DEF HostedInv
  <2>2. /\ \A h \in Requests : ~HalfServed(h)
        /\ \A h \in Requests : request'[h].pc = "idle"
    BY <1>5, <1>7, <1>9, NothingYet
  <2>3. Truth' /\ Review' /\ HasJob'
    BY <1>1, <1>4, <1>7, <1>9, <2>1, <2>2, TruthStays, ReviewStays, HasJobStays DEF Consistent, HalfServed
  <2>4. Attached' /\ Behind'
    BY <1>1, <1>7, <1>9, <2>1, BehindStays DEF Consistent, Attached, Alive
  <2> QED
    BY <2>3, <2>4 DEF Consistent
<1> QED
  BY <1>6, <1>7, <1>8, <1>9 DEF HostedInv

-----------------------------------------------------------------------------
(* The invariant *)

LEMMA HostedInit ==
  ASSUME Init
  PROVE  HostedInv
<1>1. 1 \in Jobs /\ MaxJobs \in Nat
  BY DEF Jobs
<1>2. 0 \in Payloads
  BY NothingYet
<1> DEFINE r == [status |-> "pending", attempts |-> 0, payload |-> 0]
<1>3. r \in JobRow /\ r.status = "pending" /\ r.payload = 0 /\ NoJob \in JobRow /\ NoJob.status = "none"
  BY <1>2 DEF JobRow, JobStatus, NoJob
<1>4. job = [j \in Jobs |-> IF j = 1 THEN r ELSE NoJob]
  BY DEF Init
<1> HIDE DEF r
<1>5. job \in [Jobs -> JobRow] /\ job[1] = r /\ \A j \in Jobs : j # 1 => job[j].status = "none"
  BY <1>1, <1>3, <1>4
<1>6. JobLive(1)
  BY <1>3, <1>5 DEF JobLive, Unclaimed
<1>7. \A j \in Jobs : job[j].status = "none" <=> j > 1
  BY <1>3, <1>5 DEF Jobs
<1>8. launch = NotLaunching /\ (\A w \in Workers : worker[w] = Gone) /\ \A h \in Requests : request[h] = NotServing
  BY DEF Init
<1>9. TypeOK
  BY <1>5, NothingYet DEF Init, TypeOK, PhaseStatus
<1>10. JobInHand
  <2>1. 1 \in 0..MaxJobs
    BY <1>1
  <2>2. \A j \in Jobs : job[j].status # "none" => job[j].payload \in Payloads
    BY <1>2, <1>3, <1>5
  <2> QED
    BY <1>7, <1>8, <2>1, <2>2, NothingYet DEF JobInHand
<1>11. WorkersFit /\ LaunchFits /\ RequestsFit
  BY <1>8, NothingYet DEF WorkersFit, LaunchFits, RequestsFit
<1>12. run.status = "pending" /\ ~run.pr /\ run.mode = "draft" /\ pull = "none"
  BY DEF Init, NewRun
<1>13. Attached /\ Behind
  BY <1>8, NothingYet DEF Attached, Alive, Behind
<1>14. Truth
  BY <1>12 DEF Truth
<1>15. Review
  BY <1>8, <1>12, NothingYet DEF Review, Opening, Merging, Closing
<1>16. HasJob
  BY <1>1, <1>6, <1>8, <1>12, NothingYet DEF HasJob, Resuming, Active
<1> QED
  BY <1>9, <1>10, <1>11, <1>13, <1>14, <1>15, <1>16 DEF HostedInv, Consistent

LEMMA WorkerKeeps ==
  ASSUME HostedInv, NEW w \in Workers, WorkerStep(w) \/ EventLost(w) \/ WorkerStops(w)
  PROVE  HostedInv'
BY LoadKeeps, BeginKeeps, PlanEpicKeeps, OpenPullKeeps, RecordPullKeeps, NextPhaseKeeps, SealKeeps,
   RetireSandboxKeeps, FinishKeeps, FinishEpicKeeps, UnsayKeeps, PhaseFailsKeeps, EventLostKeeps,
   SaveFailureKeeps, FailEpicKeeps, WorkerStopsKeeps
DEF WorkerStep

LEMMA LauncherKeeps ==
  ASSUME HostedInv, LaunchStep \/ TransportLost \/ ServerStops
  PROVE  HostedInv'
BY ClaimKeeps, LookAtRunKeeps, LaunchFailsKeeps, StartWorkerKeeps, ExecReturnsKeeps, LookAtEndKeeps,
   PublishKeeps, AnswerKeeps, TransportLostKeeps, ServerStopsKeeps
DEF LaunchStep

LEMMA ServesKeeps ==
  ASSUME HostedInv, NEW h \in Requests, NewRequest(h) \/ RequestStep(h)
  PROVE  HostedInv'
BY BeginsKeep, CancelCommitKeeps, CancelEpicKeeps, CancelExecKeeps, ResumeReleaseKeeps, ResumeResetKeeps,
   ResumeEnqueueKeeps, MergeKeeps, CloseKeeps, RecordReviewKeeps, AbortKeeps
DEF RequestStep

LEMMA StutterKeeps ==
  ASSUME HostedInv, UNCHANGED vars
  PROVE  HostedInv'
<1>1. UNCHANGED <<job, run, phase, epic, pull, sandbox, launch, worker, request, faults, history>>
  BY DEF vars
<1>2. TypeOK' /\ JobInHand' /\ WorkersFit' /\ LaunchFits' /\ RequestsFit'
  BY <1>1, JobInHandStays DEF HostedInv, TypeOK, WorkersFit, LaunchFits, RequestsFit
<1>3. ASSUME history' = {} PROVE Consistent'
  <2>1. Consistent /\ NoneNew /\ NoneMissed /\ NoneOpens
    BY <1>1, <1>3 DEF HostedInv, NoneNew, NoneMissed, NoneOpens, Finishing
  <2> QED
    BY <1>1, <2>1, BehindStays, TruthStays, ReviewStays, HasJobStays DEF Consistent, Attached, Alive
<1> QED
  BY <1>2, <1>3 DEF HostedInv

LEMMA HostedNext ==
  ASSUME HostedInv, [Next]_vars
  PROVE  HostedInv'
BY WorkerKeeps, LauncherKeeps, ServesKeeps, StutterKeeps DEF Next

\* The inductive invariant of the run, its launches and its requests.
THEOREM HostedInvariant == Spec => []HostedInv
BY HostedInit, HostedNext, PTL DEF Spec

\* Every row and every copy of one keeps its type, whichever process writes it, dies or is cut off.
THEOREM TypeCorrect == Spec => []TypeOK
<1>1. HostedInv => TypeOK
  BY DEF HostedInv
<1> QED
  BY <1>1, HostedInvariant, PTL

\* When the run is over and nobody is about to write, its phases and its epic say what its row
\* says: what execute, failRun, CancelRunAndJobs and the preview write one after the other.
THEOREM TerminalTruthCorrect == Spec => []TerminalTruth
<1>1. HostedInv => TerminalTruth
  BY DEF HostedInv, Consistent, Truth, TerminalTruth, Settled, Alive, Finishing
<1> QED
  BY <1>1, HostedInvariant, PTL

\* What the run's row says of its pull request is what GitHub says, when nobody is about to write.
THEOREM ReviewMatchesPullCorrect == Spec => []ReviewMatchesPull
<1>1. HostedInv => ReviewMatchesPull
  BY DEF HostedInv, Consistent, Review, Opening, Merging, Closing, ReviewMatchesPull, Settled, Alive
<1> QED
  BY <1>1, HostedInvariant, PTL

\* A run that is pending or running is never left without a job: claims, answers, cancellations
\* and resumes leave it one, unless the last has used up its attempts.
THEOREM RunHasJobCorrect == Spec => []RunHasJob
<1>1. HostedInv => RunHasJob
  BY DEF HostedInv, Consistent, HasJob, Resuming, RunHasJob
<1> QED
  BY <1>1, HostedInvariant, PTL

\* CancelRunAndJobs leaves no job that would launch a cancelled run again, nor does a launch that
\* answers afterwards.
THEOREM CancelReleasesJobsCorrect == Spec => []CancelReleasesJobs
<1>1. HostedInv => CancelReleasesJobs
  BY DEF HostedInv, Consistent, HasJob, NoneLive, CancelReleasesJobs
<1> QED
  BY <1>1, HostedInvariant, PTL

\* CompleteJob and FailJob do not touch a job that was cancelled meanwhile, and no claim, resume
\* or cancellation takes up a job that is over.
THEOREM JobsStayCorrect == Spec => JobsStay
<1>1. ASSUME HostedInv, [Next]_vars, NEW j \in Jobs, JobOver(j)
      PROVE  job'[j].status = job[j].status
  <2>1. job \in [Jobs -> JobRow] /\ ~JobLive(j) /\ job[j].status # "none"
    BY <1>1 DEF HostedInv, TypeOK, JobOver, JobLive, Unclaimed
  <2>2. CASE UNCHANGED job
    BY <2>2
  <2>3. ASSUME NEW k \in Jobs, Claim(k) PROVE job'[j] = job[j]
    <3>1. JobLive(k) /\ job' = ClaimedJob(k)
      BY <2>3 DEF Claim, ClaimableJob
    <3> QED
      BY <2>1, <3>1, ClaimsJob
  <2>4. ASSUME Answer PROVE job'[j] = job[j]
    <3>1. /\ launch.job \in Jobs /\ job[launch.job].status \in {"running", "cancelled"}
          /\ job' = CompletedJob(launch.job) \/ job' = FailedJob(launch.job, launch.attempts)
      BY <1>1, <2>4 DEF Answer, HostedInv, JobInHand
    <3>2. CASE job[launch.job].status = "cancelled"
      BY <2>1, <3>1, <3>2, AnswersJob
    <3>3. CASE job[launch.job].status = "running"
      <4>1. launch.job # j
        BY <2>1, <3>3 DEF JobLive
      <4> QED
        BY <2>1, <3>1, <4>1, AnswersJob
    <3> QED
      BY <3>1, <3>2, <3>3
  <2>5. ASSUME job' = CancelledJobs(Jobs) PROVE job'[j] = job[j]
    BY <2>1, <2>5, CancelsJobs
  <2>6. ASSUME NEW h \in Requests, ResumeEnqueue(h) PROVE job'[j] = job[j]
    <3>1. HasRoom /\ job' = Enqueued(request[h].from) /\ JobInHand
      BY <1>1, <2>6 DEF ResumeEnqueue, HostedInv
    <3>2. request[h].from \in Payloads
      BY <1>1 DEF HostedInv, TypeOK, Request
    <3> QED
      BY <2>1, <3>1, <3>2, EnqueuesJob
  <2>7. ASSUME NEW w \in Workers, WorkerStep(w) \/ EventLost(w) \/ WorkerStops(w) PROVE UNCHANGED job
    BY <2>7 DEF WorkerStep, EventLost, WorkerStops, Load, Begin, PlanEpic, OpenPull, RecordPull, NextPhase, Seal,
                RetireSandbox, Finish, FinishEpic, Unsay, PhaseFails, SaveFailure, FailEpic
  <2>8. ASSUME LaunchStep \/ TransportLost \/ ServerStops
        PROVE  UNCHANGED job \/ Answer \/ \E k \in Jobs : Claim(k)
    BY <2>8 DEF LaunchStep, TransportLost, ServerStops, LookAtRun, LaunchFails, StartWorker, ExecReturns,
                LookAtEnd, WaitForEnd, Publish
  <2>9. ASSUME NEW h \in Requests, NewRequest(h) \/ RequestStep(h)
        PROVE  UNCHANGED job \/ job' = CancelledJobs(Jobs) \/ ResumeEnqueue(h)
    BY <2>9 DEF NewRequest, RequestStep, BeginCancel, BeginResume, BeginApprove, BeginRollback, CancelCommit,
                CancelEpic, CancelExec, ResumeRelease, ResumeReset, Merge, RecordMerge, Close, RecordClose,
                RecordReview, Abort
  <2>10. ASSUME UNCHANGED vars PROVE UNCHANGED job
    BY <2>10 DEF vars
  <2> QED
    BY <1>1, <2>2, <2>3, <2>4, <2>5, <2>6, <2>7, <2>8, <2>9, <2>10 DEF Next
<1>2. HostedInv /\ [Next]_vars => [\A j \in Jobs : JobOver(j) => job'[j].status = job[j].status]_vars
  BY <1>1
<1> QED
  BY <1>2, HostedInvariant, PTL DEF Spec, JobsStay
=============================================================================
