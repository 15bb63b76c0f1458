----------------------------- MODULE HostedRun -----------------------------
(***************************************************************************)
(* One run of an epic under the hosted control plane: the loop that takes  *)
(* its jobs and launches workers in a sandbox, the workers that go through *)
(* the phases, and the requests that cancel, resume, approve and roll back.*)
(*                                                                         *)
(* Everyone keeps a copy of the run's row and UpdateRun writes every       *)
(* column of it (Write): what others wrote since is lost.  history records *)
(* what the properties have to make an exception for:                      *)
(*   "overwritten"  a row was written over, or jobs and epic were changed, *)
(*                  by one that had not seen the row as it was by then     *)
(*   "revived"      a worker set a run to work that it found cancelled     *)
(*   "cut"          a worker or request stopped between two of its writes  *)
(*   "detached"     a worker went on without the launcher that started it  *)
(***************************************************************************)
EXTENDS JobQueue

CONSTANTS
  NumPhases,  \* SoftwareEpicPhases; the last one writes the receipt
  PrPhase,    \* the phase "pr"
  Workers,    \* processes in the sandbox
  Requests,   \* HTTP requests served at a time
  ResumeAt,   \* phases a resume asks for by name (bound)
  Faults      \* crashes, lost connections, lost events and refused calls (bound)

ASSUME PhasesAssumption == NumPhases \in Nat /\ PrPhase \in 1..(NumPhases - 1)
\* A payload is the phase a resume asked for; 0 is FromPhase = "".
ASSUME FromAssumption == Payloads = 0..NumPhases /\ ResumeAt \subseteq 1..NumPhases
\* The run comes with its first job.
ASSUME ProcessesAssumption == MaxJobs # 0 /\ Workers # {} /\ Faults \in Nat

VARIABLES
  run,      \* runs: status, current_phase, pr_url # "", pr_mode
  phase,    \* run_phases
  epic,     \* epics.status
  pull,     \* the pull request (GitHub)
  sandbox,  \* sandboxes.status
  launch,   \* the job loop and RailwayLauncher
  worker,   \* `ves control-plane worker`
  request,  \* the handlers
  faults, history

vars == <<job, run, phase, epic, pull, sandbox, launch, worker, request, faults, history>>

-----------------------------------------------------------------------------
(* Rows and processes *)

Phase == 1..NumPhases
RunStatus == {"pending", "running", "completed", "failed", "cancelled"}
Active == {"pending", "running"}
RunRow == [status: RunStatus, phase: 0..NumPhases, pr: BOOLEAN,
           mode: {"draft", "merged", "rolled_back"}]
PhaseStatus == {"pending", "running", "completed", "failed", "skipped"}

\* at: the phase the worker is in, or is to start from; ok: its exit code is 0.
Worker == [pc: {"gone", "up", "loaded", "phase", "opened", "sealed", "done",
                "failing", "unsaying", "failed"},
           copy: RunRow, at: 0..NumPhases, ok: BOOLEAN]
Launch == [pc: {"idle", "claimed", "launching", "exec", "ended", "waiting", "publishing", "answer"},
           job: 0..MaxJobs, attempts: Nat, worker: Workers, copy: RunRow, ok: BOOLEAN]
\* locked: the request holds mutationMu.
Request == [pc: {"idle", "cancel", "cancelEpic", "cancelExec", "resume", "released", "reset",
                 "approve", "merged", "rollback", "closed"},
            copy: RunRow, from: 0..NumPhases, locked: BOOLEAN]

\* handleStartEpicRun: CreateRun and its job.
NewRun == [status |-> "pending", phase |-> 0, pr |-> FALSE, mode |-> "draft"]
Gone == [pc |-> "gone", copy |-> NewRun, at |-> 0, ok |-> FALSE]
NotServing == [pc |-> "idle", copy |-> NewRun, from |-> 0, locked |-> FALSE]
NotLaunching == [pc |-> "idle", job |-> 0, attempts |-> 0, worker |-> CHOOSE w \in Workers : TRUE,
                 copy |-> NewRun, ok |-> FALSE]

Init ==
  /\ job = [j \in Jobs |-> IF j = 1 THEN [status |-> "pending", attempts |-> 0, payload |-> 0]
                           ELSE NoJob]
  /\ run = NewRun
  /\ phase = [p \in Phase |-> "pending"]
  /\ epic = "draft"
  /\ pull = "none"
  /\ sandbox = "none"
  /\ launch = NotLaunching
  /\ worker = [w \in Workers |-> Gone]
  /\ request = [h \in Requests |-> NotServing]
  /\ faults = 0
  /\ history = {}

Alive(w) == worker[w].pc # "gone"
Note(what, condition) == history' = history \cup (IF condition THEN {what} ELSE {})
Fault == faults < Faults /\ faults' = faults + 1

\* What has been done is not written down yet, or not everywhere.
Midway(w) ==
  \/ worker[w].pc \in {"opened", "failed"}
  \/ worker[w].pc # "unsaying" /\ worker[w].copy.status = "completed"
HalfServed(h) == request[h].pc \in {"cancelEpic", "released", "reset", "merged", "closed"}

\* UpdateRun, by one that last saw the row as seen.
Write(seen, row) ==
  /\ run' = row
  /\ history' = history \cup (IF run # seen THEN {"overwritten"} ELSE {})
                        \cup (IF seen.status = "cancelled" /\ row.status = "running"
                              THEN {"revived"} ELSE {})

-----------------------------------------------------------------------------
(* The worker: Engine.Resume and execute *)

Goes(w, rec) == worker' = [worker EXCEPT ![w] = rec]
\* The exit code is there for the launcher that executes the worker.
Exits(w, ok) == Goes(w, [Gone EXCEPT !.ok = ok /\ launch.pc = "exec" /\ launch.worker = w])
\* The worker writes its copy with the changes of row and goes on at pc.
Saves(w, row, pc) ==
  /\ Write(worker[w].copy, row)
  /\ Goes(w, [worker[w] EXCEPT !.pc = pc, !.copy = row])

\* resumeStartPhase: a phase that is done is not repeated unless asked for.
StartPhase(from) ==
  LET p == run.phase IN
  IF from # 0 THEN from
  ELSE IF p = 0 THEN 1
  ELSE IF phase[p] \in {"completed", "skipped"} /\ p < NumPhases THEN p + 1 ELSE p

\* Resume reads the row and the phases ...
Load(w) ==
  /\ worker[w].pc = "up"
  /\ Goes(w, [worker[w] EXCEPT !.pc = "loaded", !.copy = run, !.at = StartPhase(worker[w].at)])
  /\ UNCHANGED <<job, run, phase, epic, pull, sandbox, launch, request, faults, history>>

\* ... says that the run is running, whatever it was, and skips to the phase.
Begin(w) ==
  /\ worker[w].pc = "loaded"
  /\ Saves(w, [worker[w].copy EXCEPT !.status = "running", !.phase = worker[w].at], "phase")
  /\ phase' = [p \in Phase |->
                 IF p = worker[w].at THEN "running"
                 ELSE IF p < worker[w].at /\ phase[p] # "completed" THEN "skipped" ELSE phase[p]]
  /\ UNCHANGED <<job, epic, pull, sandbox, launch, request, faults>>

\* phaseTicketize, which does not look at the run.
PlanEpic(w) ==
  /\ worker[w].pc = "phase" /\ worker[w].at < PrPhase
  /\ epic' = "planned" /\ epic # "planned"
  /\ Note("overwritten", run # worker[w].copy)
  /\ UNCHANGED <<job, run, phase, pull, sandbox, launch, worker, request, faults>>

\* phasePR creates the pull request; GitHub refuses a second one for the branch.
OpenPull(w) ==
  /\ worker[w].pc = "phase" /\ worker[w].at = PrPhase /\ ~worker[w].copy.pr
  /\ pull = "none" /\ pull' = "open"
  /\ Goes(w, [worker[w] EXCEPT !.pc = "opened"])
  /\ UNCHANGED <<job, run, phase, epic, sandbox, launch, request, faults, history>>

RecordPull(w) ==
  /\ worker[w].pc = "opened"
  /\ Saves(w, [worker[w].copy EXCEPT !.pr = TRUE], "phase")
  /\ UNCHANGED <<job, phase, epic, pull, sandbox, launch, request, faults>>

\* A phase ends well: on to the next.
NextPhase(w) ==
  LET p == worker[w].at IN
  /\ worker[w].pc = "phase" /\ p < NumPhases
  /\ p = PrPhase => worker[w].copy.pr
  /\ phase' = [phase EXCEPT ![p] = "completed", ![p + 1] = "running"]
  /\ Write(worker[w].copy, [worker[w].copy EXCEPT !.phase = p + 1])
  /\ Goes(w, [worker[w] EXCEPT !.at = p + 1, !.copy.phase = p + 1])
  /\ UNCHANGED <<job, epic, pull, sandbox, launch, request, faults>>

\* phaseReceipt says that the run is completed before it finalizes the receipt ...
Seal(w) ==
  /\ worker[w].pc = "phase" /\ worker[w].at = NumPhases
  /\ Saves(w, [worker[w].copy EXCEPT !.status = "completed"], "sealed")
  /\ UNCHANGED <<job, phase, epic, pull, sandbox, launch, request, faults>>

\* ... and, of a run without a preview, that its sandbox is destroyed; Railway's goes on.
RetireSandbox(w) ==
  /\ worker[w].pc = "sealed" /\ sandbox = "live"
  /\ sandbox' = "retired"
  /\ UNCHANGED <<job, run, phase, epic, pull, launch, worker, request, faults, history>>

\* execute says again that the run is completed.
Finish(w) ==
  /\ worker[w].pc = "sealed"
  /\ phase' = [phase EXCEPT ![NumPhases] = "completed"]
  /\ Saves(w, worker[w].copy, "done")
  /\ UNCHANGED <<job, epic, pull, sandbox, launch, request, faults>>

\* terminalEpicStatus, from the worker's copy.
TerminalEpic(row) == IF row.pr /\ row.mode # "merged" THEN "in_review" ELSE "completed"

FinishEpic(w) ==
  /\ worker[w].pc = "done"
  /\ epic' = TerminalEpic(worker[w].copy)
  /\ Note("overwritten", run # worker[w].copy)
  /\ \/ Exits(w, TRUE) /\ UNCHANGED faults
     \* The event run.completed cannot be appended: the run has failed after all.
     \/ Goes(w, [worker[w] EXCEPT !.pc = "unsaying"]) /\ Fault
  /\ UNCHANGED <<job, run, phase, pull, sandbox, launch, request>>

Unsay(w) ==
  /\ worker[w].pc = "unsaying"
  /\ Saves(w, [worker[w].copy EXCEPT !.status = "failed"], "failed")
  /\ UNCHANGED <<job, phase, epic, pull, sandbox, launch, request, faults>>

\* A phase fails.  Only now does the worker see whether the run was cancelled.
PhaseFails(w) ==
  /\ worker[w].pc \in {"phase", "opened", "sealed"}
  /\ IF run.status = "cancelled"
     THEN /\ Exits(w, TRUE)
          /\ phase' = [p \in Phase |-> IF p = run.phase THEN "failed" ELSE phase[p]]
     ELSE /\ Goes(w, [worker[w] EXCEPT !.pc = "failing"])
          /\ UNCHANGED phase
  /\ Note("cut", worker[w].pc = "opened")
  /\ UNCHANGED <<job, run, epic, pull, sandbox, launch, request, faults>>

\* An event of the phase was lost: failed, and no look at the row.
EventLost(w) ==
  /\ worker[w].pc \in {"phase", "sealed"}
  /\ Fault
  /\ Goes(w, [worker[w] EXCEPT !.pc = "failing"])
  /\ UNCHANGED <<job, run, phase, epic, pull, sandbox, launch, request, history>>

SaveFailure(w) ==
  /\ worker[w].pc = "failing"
  /\ phase' = [phase EXCEPT ![worker[w].at] = "failed"]
  /\ Saves(w, [worker[w].copy EXCEPT !.status = "failed"], "failed")
  /\ UNCHANGED <<job, epic, pull, sandbox, launch, request, faults>>

\* Mutant of FailEpic: the run has failed, the epic is left as it was.
FailRunOnly(w) ==
  /\ worker[w].pc = "failed"
  /\ Exits(w, FALSE)
  /\ UNCHANGED <<job, run, phase, epic, pull, sandbox, launch, request, faults, history>>

FailEpic(w) ==
  /\ worker[w].pc = "failed"
  /\ epic' = "failed"
  /\ Note("overwritten", run # worker[w].copy)
  /\ Exits(w, FALSE)
  /\ UNCHANGED <<job, run, phase, pull, sandbox, launch, request, faults>>

\* The process dies, or one of its statements fails and it returns there.
WorkerStops(w) ==
  /\ Alive(w) /\ Fault
  /\ Exits(w, FALSE)
  /\ Note("cut", Midway(w))
  /\ UNCHANGED <<job, run, phase, epic, pull, sandbox, launch, request>>

WorkerStep(w) ==
  \/ Load(w)
  \/ Begin(w)
  \/ PlanEpic(w)
  \/ OpenPull(w)
  \/ RecordPull(w)
  \/ NextPhase(w)
  \/ Seal(w)
  \/ RetireSandbox(w)
  \/ Finish(w)
  \/ FinishEpic(w)
  \/ Unsay(w)
  \/ PhaseFails(w)
  \/ SaveFailure(w)
  \/ FailEpic(w)

-----------------------------------------------------------------------------
(* The job loop and the launcher *)

Moves(rec) == launch' = rec
\* The launch goes on at pc with its job and what it knows of the exit code.
Proceeds(pc, ok) == Moves([NotLaunching EXCEPT !.pc = pc, !.job = launch.job,
                                               !.attempts = launch.attempts, !.ok = ok])
Answers(ok) == Proceeds("answer", ok)

Claim(j) ==
  /\ launch.pc = "idle"
  /\ ClaimableJob(j, 0)
  /\ job' = ClaimedJob(j)
  /\ Moves([NotLaunching EXCEPT !.pc = "claimed", !.job = j, !.attempts = job[j].attempts + 1])
  /\ UNCHANGED <<run, phase, epic, pull, sandbox, worker, request, faults, history>>

\* processRunEpic: a run that is completed is projected to Linear, which may fail,
\* and any other is launched, a cancelled one too.
LookAtRun ==
  /\ launch.pc = "claimed"
  /\ IF run.status = "completed" THEN \E ok \in BOOLEAN : Answers(ok)
     ELSE Moves([launch EXCEPT !.pc = "launching"])
  /\ UNCHANGED <<job, run, phase, epic, pull, sandbox, worker, request, faults, history>>

\* The sandbox cannot be created or reached, or is destroyed.
LaunchFails ==
  /\ launch.pc = "launching"
  /\ Answers(FALSE)
  /\ UNCHANGED <<job, run, phase, epic, pull, sandbox, worker, request, faults, history>>

StartWorker(w) ==
  /\ launch.pc = "launching"
  /\ ~Alive(w) /\ sandbox # "destroyed"
  /\ Goes(w, [Gone EXCEPT !.pc = "up", !.at = job[launch.job].payload])
  /\ sandbox' = IF sandbox = "none" THEN "live" ELSE sandbox
  /\ Moves([launch EXCEPT !.pc = "exec", !.worker = w])
  /\ UNCHANGED <<job, run, phase, epic, pull, request, faults, history>>

ExecReturns ==
  /\ launch.pc = "exec" /\ ~Alive(launch.worker)
  /\ Proceeds("ended", worker[launch.worker].ok)
  /\ Goes(launch.worker, Gone)
  /\ UNCHANGED <<job, run, phase, epic, pull, sandbox, request, faults, history>>

\* The connection of the exec is gone, by itself or as CancelRun cancels its
\* context: the worker goes with it or goes on.
Disconnected ==
  /\ Proceeds("ended", FALSE)
  /\ LET w == launch.worker IN
     \/ Alive(w) /\ UNCHANGED worker /\ Note("detached", TRUE)
     \/ Goes(w, Gone) /\ Note("cut", Midway(w))

TransportLost ==
  /\ launch.pc = "exec" /\ Fault
  /\ Disconnected
  /\ UNCHANGED <<job, run, phase, epic, pull, sandbox, request>>

\* Mutant of Judge: any run that has not failed is taken for a success.
JudgeLeniently(status) == Answers(status # "failed")

\* A completed run may have a preview to publish; the row read here is kept.
Judge(status) ==
  IF status = "completed"
  THEN \/ sandbox = "live" /\ Moves([launch EXCEPT !.pc = "publishing", !.copy = run])
       \/ \E ok \in BOOLEAN : Answers(ok)
  ELSE Answers(FALSE)

LookAtEnd ==
  /\ launch.pc = "ended"
  /\ IF ~launch.ok /\ run.status \in Active
     THEN Proceeds("waiting", FALSE)
     ELSE Judge(run.status)
  /\ UNCHANGED <<job, run, phase, epic, pull, sandbox, worker, request, faults, history>>

\* waitForRunTerminalAfterDisconnect: until the run is over, or for five minutes.
WaitForEnd ==
  /\ launch.pc = "waiting"
  /\ Judge(run.status)
  /\ UNCHANGED <<job, run, phase, epic, pull, sandbox, worker, request, faults, history>>

\* publishPreview and the UpdateRun after it; a preview that cannot be published
\* fails the run and not the launch.  Then the run is projected.
Publish ==
  /\ launch.pc = "publishing"
  /\ \E status \in {"completed", "failed"}, ok \in BOOLEAN :
       /\ Write(launch.copy, [launch.copy EXCEPT !.status = status])
       /\ Answers(ok)
  /\ UNCHANGED <<job, phase, epic, pull, sandbox, worker, request, faults>>

Answer ==
  /\ launch.pc = "answer"
  /\ job' = IF launch.ok THEN CompletedJob(launch.job) ELSE FailedJob(launch.job, launch.attempts)
  /\ Moves(NotLaunching)
  /\ UNCHANGED <<run, phase, epic, pull, sandbox, worker, request, faults, history>>

LaunchStep ==
  \/ \E j \in Jobs : Claim(j)
  \/ LookAtRun
  \/ LaunchFails
  \/ \E w \in Workers : StartWorker(w)
  \/ ExecReturns
  \/ LookAtEnd
  \/ WaitForEnd
  \/ Publish
  \/ Answer

-----------------------------------------------------------------------------
(* Requests *)

Serves(h, rec) == request' = [request EXCEPT ![h] = rec]
Replies(h) == Serves(h, NotServing)
Continues(h, pc) == Serves(h, [request[h] EXCEPT !.pc = pc])
Unlocked == \A h \in Requests : ~request[h].locked

\* Cancel looks at the status; the API holds mutationMu, the dashboard does not.
BeginCancel(h, locked) ==
  /\ request[h].pc = "idle"
  /\ locked => Unlocked
  /\ run.status \in Active
  /\ Serves(h, [NotServing EXCEPT !.pc = "cancel", !.locked = locked])
  /\ UNCHANGED <<job, run, phase, epic, pull, sandbox, launch, worker, faults, history>>

\* CancelRunAndJobs
CancelCommit(h) ==
  /\ request[h].pc = "cancel"
  /\ run' = [run EXCEPT !.status = "cancelled"]
  /\ Note("overwritten", run.status \notin Active)
  /\ job' = CancelledJobs(Jobs)
  /\ Continues(h, "cancelEpic")
  /\ UNCHANGED <<phase, epic, pull, sandbox, launch, worker, faults>>

CancelEpic(h) ==
  /\ request[h].pc = "cancelEpic"
  /\ epic' = "cancelled"
  /\ Note("overwritten", run.status # "cancelled")
  /\ IF request[h].locked THEN Continues(h, "cancelExec") ELSE Replies(h)
  /\ UNCHANGED <<job, run, phase, pull, sandbox, launch, worker, faults>>

\* CancelRun knows the run only while its worker is being executed.
CancelExec(h) ==
  /\ request[h].pc = "cancelExec"
  /\ IF launch.pc = "exec" THEN Disconnected ELSE UNCHANGED <<launch, worker, history>>
  /\ Replies(h)
  /\ UNCHANGED <<job, run, phase, epic, pull, sandbox, faults>>

\* handleResumeRun reads the row ...
BeginResume(h, from) ==
  /\ request[h].pc = "idle" /\ Unlocked
  /\ run.status \notin Active /\ sandbox = "live" /\ HasRoom
  /\ Serves(h, [pc |-> "resume", copy |-> run, from |-> from, locked |-> TRUE])
  /\ UNCHANGED <<job, run, phase, epic, pull, sandbox, launch, worker, faults, history>>

\* ... cancels the jobs of the run ...
ResumeRelease(h) ==
  /\ request[h].pc = "resume"
  /\ job' = CancelledJobs(Jobs)
  /\ Note("overwritten", run # request[h].copy)
  /\ Continues(h, "released")
  /\ UNCHANGED <<run, phase, epic, pull, sandbox, launch, worker, faults>>

\* ... writes the row back as pending ...
ResumeReset(h) ==
  /\ request[h].pc = "released"
  /\ Write(request[h].copy, [request[h].copy EXCEPT !.status = "pending", !.phase = request[h].from])
  /\ Continues(h, "reset")
  /\ UNCHANGED <<job, phase, epic, pull, sandbox, launch, worker, faults>>

\* ... and gives the run a new job.
ResumeEnqueue(h) ==
  /\ request[h].pc = "reset"
  /\ HasRoom
  /\ job' = Enqueued(request[h].from)
  /\ Note("overwritten", run.status # "pending")
  /\ Replies(h)
  /\ UNCHANGED <<run, phase, epic, pull, sandbox, launch, worker, faults>>

BeginApprove(h) ==
  /\ request[h].pc = "idle"
  /\ run.status = "completed" /\ run.pr /\ run.mode = "draft"
  /\ Serves(h, [NotServing EXCEPT !.pc = "approve", !.copy = run])
  /\ UNCHANGED <<job, run, phase, epic, pull, sandbox, launch, worker, faults, history>>

\* GitHub merges an open pull request only.
Merge(h) ==
  /\ request[h].pc = "approve" /\ pull = "open"
  /\ pull' = "merged"
  /\ Continues(h, "merged")
  /\ UNCHANGED <<job, run, phase, epic, sandbox, launch, worker, faults, history>>

RecordReview(h, mode) ==
  /\ Write(request[h].copy, [request[h].copy EXCEPT !.mode = mode])
  /\ sandbox' = "destroyed"
  /\ Replies(h)
  /\ UNCHANGED <<job, phase, epic, pull, launch, worker, faults>>

RecordMerge(h) == request[h].pc = "merged" /\ RecordReview(h, "merged")

\* Mutant of MayRollBack: a merged run is closed and recorded as rolled back.
MayRollBackMerged == run.pr

\* rollbackRun does not ask whether the run is completed.
MayRollBack == run.pr /\ run.mode = "draft"

BeginRollback(h) ==
  /\ request[h].pc = "idle" /\ MayRollBack
  /\ Serves(h, [NotServing EXCEPT !.pc = "rollback", !.copy = run])
  /\ UNCHANGED <<job, run, phase, epic, pull, sandbox, launch, worker, faults, history>>

\* Closing what is closed or merged changes nothing.
Close(h) ==
  /\ request[h].pc = "rollback"
  /\ pull' = IF pull = "open" THEN "closed" ELSE pull
  /\ Continues(h, "closed")
  /\ UNCHANGED <<job, run, phase, epic, sandbox, launch, worker, faults, history>>

RecordClose(h) == request[h].pc = "closed" /\ RecordReview(h, "rolled_back")

\* The handler returns early: its client is gone, GitHub or a statement refuses.
Abort(h) ==
  /\ request[h].pc # "idle"
  /\ Replies(h)
  /\ IF HalfServed(h) THEN Fault ELSE UNCHANGED faults
  /\ Note("cut", HalfServed(h))
  /\ UNCHANGED <<job, run, phase, epic, pull, sandbox, launch, worker>>

RequestStep(h) ==
  \/ CancelCommit(h)
  \/ CancelEpic(h)
  \/ CancelExec(h)
  \/ ResumeRelease(h)
  \/ ResumeReset(h)
  \/ ResumeEnqueue(h)
  \/ Merge(h)
  \/ RecordMerge(h)
  \/ Close(h)
  \/ RecordClose(h)
  \/ Abort(h)

NewRequest(h) ==
  \/ \E locked \in BOOLEAN : BeginCancel(h, locked)
  \/ \E from \in (ResumeAt \cup {run.phase}) \ {0} : BeginResume(h, from)
  \/ BeginApprove(h)
  \/ BeginRollback(h)

\* The control plane stops, by a deployment or a crash, and another is started.
\* The job stays leased; the worker is cut off or goes on.
ServerStops ==
  /\ Fault
  /\ Moves(NotLaunching)
  /\ request' = [h \in Requests |-> NotServing]
  /\ LET w == launch.worker
         attached == launch.pc = "exec" /\ Alive(w)
         half == \E h \in Requests : HalfServed(h)
     IN \/ /\ UNCHANGED worker
           /\ history' = history \cup (IF half THEN {"cut"} ELSE {})
                                 \cup (IF attached THEN {"detached"} ELSE {})
        \/ attached /\ Goes(w, Gone) /\ Note("cut", half \/ Midway(w))
  /\ UNCHANGED <<job, run, phase, epic, pull, sandbox>>

Next ==
  \/ LaunchStep
  \/ TransportLost
  \/ ServerStops
  \/ \E w \in Workers : WorkerStep(w) \/ EventLost(w) \/ WorkerStops(w)
  \/ \E h \in Requests : NewRequest(h) \/ RequestStep(h)

Spec == Init /\ [][Next]_vars

-----------------------------------------------------------------------------
(* Properties *)

TypeOK ==
  /\ job \in [Jobs -> JobRow]
  /\ run \in RunRow
  /\ phase \in [Phase -> PhaseStatus]
  /\ epic \in {"draft", "planned", "in_review", "completed", "failed", "cancelled"}
  /\ pull \in {"none", "open", "merged", "closed"}
  /\ sandbox \in {"none", "live", "retired", "destroyed"}
  /\ launch \in Launch
  /\ worker \in [Workers -> Worker]
  /\ request \in [Requests -> Request]
  /\ faults \in 0..Faults
  /\ history \in SUBSET {"overwritten", "revived", "cut", "detached"}

\* A job that is cancelled, completed or has failed for good is not taken up again,
\* whatever a launch that is still under way answers.
JobsStay == [][\A j \in Jobs : JobOver(j) => job'[j].status = job[j].status]_vars

\* Nobody is about to write what the row, the epic or GitHub does not say yet.
Settled ==
  /\ \A w \in Workers : ~Alive(w)
  /\ \A h \in Requests : request[h].pc = "idle"

AllDone == \A p \in Phase : phase[p] \in {"completed", "skipped"}

\* "Epic lifecycle state follows terminal run truth" (ARCHITECTURE.md): phases and
\* epic agree with a run that is over, except that a preview that could not be
\* published fails a run whose phases are done and leaves the epic.
TerminalTruth ==
  history = {} /\ Settled =>
    /\ run.status = "completed" => AllDone /\ epic \in {"in_review", "completed"}
    /\ run.status = "failed" => epic = "failed" \/ AllDone
    /\ run.status = "cancelled" => epic = "cancelled"

\* What the run says of its review is what GitHub says of the pull request.
ReviewMatchesPull ==
  history = {} /\ Settled =>
    /\ run.pr <=> pull # "none"
    /\ run.mode = "merged" <=> pull = "merged"
    /\ run.mode = "rolled_back" <=> pull = "closed"

\* A run that is not over has a job, or is about to get one, unless its job has used
\* up its attempts: a resume refuses such a run, and nothing else would end it.
RunHasJob ==
  history = {} /\ run.status \in Active =>
    \/ \E j \in Jobs : JobLive(j) \/ job[j].status = "failed"
    \/ \E h \in Requests : request[h].pc \in {"released", "reset"}

\* A cancelled run has no job that would launch it again.
CancelReleasesJobs ==
  history = {} /\ run.status = "cancelled" => \A j \in Jobs : ~JobLive(j)

\* "Cancel releases active job leases, persists a terminal run" (Hosted_Railway.md):
\* a cancelled run stays cancelled until somebody resumes it.
CancelledStays ==
  [][run.status = "cancelled" => run'.status \in {"cancelled", "pending"}]_vars
=============================================================================
