---------------------------- MODULE LinearIntake ----------------------------
(***************************************************************************)
(* How an issue of Linear becomes an epic and a run: webhooks become jobs, *)
(* a job imports the issue unless it is mapped to an epic already, and the *)
(* import's last step is the job that creates the run and launches it.  A  *)
(* second loop imports what Linear lists as to be done, so that a lost     *)
(* webhook does no harm.  Both hold importMu while they import.            *)
(*                                                                         *)
(* Every step is a statement of its own, and between any two of them one   *)
(* may fail or the process may stop; history says where that leaves a gap: *)
(*   "unmapped"  an epic was created and not mapped to its issue           *)
(*   "unread"    the look-up of the mapping failed, and an epic was        *)
(*               created for an issue that has one                         *)
(*   "unqueued"  an epic was mapped and got no job                         *)
(*   "unlinked"  a run was created and its job does not say so             *)
(* What a launch does is the matter of HostedRun.                          *)
(***************************************************************************)
EXTENDS JobQueue, FiniteSets

CONSTANTS
  Deliveries,  \* webhooks, by their delivery ids
  MaxEpics, MaxRuns,
  Faults       \* stops of the process and failures of statements and calls (bound)

\* Room enough for what the faults may duplicate.
ASSUME IntakeAssumption ==
  /\ MaxEpics \in Nat /\ MaxRuns \in Nat /\ Faults \in Nat
  /\ MaxEpics > Faults /\ MaxRuns > Faults
  /\ IsFiniteSet(Deliveries) /\ MaxJobs >= Cardinality(Deliveries) + MaxEpics
  /\ Payloads = Deliveries \cup 1..MaxEpics /\ Deliveries \cap 1..MaxEpics = {}

VARIABLES
  issue,     \* the issue in Linear: to be done and labelled, or not
  delivery,  \* webhook_deliveries.status
  epics,     \* how many epics have been created for the issue
  mapping,   \* the epic the issue is mapped to
  runs,      \* the epic and the state of each run
  jobRun,    \* jobs.run_id
  lock,      \* importMu
  importer,  \* ImportLinearIssue: its progress and its epic
  loop,      \* jobLoop
  faults, history

vars == <<job, issue, delivery, epics, mapping, runs, jobRun, lock, importer, loop, faults, history>>

Epics == 1..MaxEpics
Runs == 1..MaxRuns
Importers == {"loop", "reconciler"}

Import == [pc: {"idle", "look", "create", "map", "enqueue"}, epic: 0..MaxEpics]
NoImport == [pc |-> "idle", epic |-> 0]
Loop == [pc: {"idle", "claimed", "import", "check", "create", "link", "launch", "sync", "answer"},
         job: 0..MaxJobs, attempts: Nat, run: 0..MaxRuns, ok: BOOLEAN]
NoLoop == [pc |-> "idle", job |-> 0, attempts |-> 0, run |-> 0, ok |-> FALSE]
RunRow == [epic: Epics, done: BOOLEAN]

Init ==
  /\ job = [j \in Jobs |-> NoJob]
  /\ issue = "todo"
  /\ delivery = [d \in Deliveries |-> "none"]
  /\ epics = 0
  /\ mapping = 0
  /\ runs = [r \in {} |-> 0]
  /\ jobRun = [j \in Jobs |-> 0]
  /\ lock = "free"
  /\ importer = [a \in Importers |-> NoImport]
  /\ loop = NoLoop
  /\ faults = 0
  /\ history = {}

Fault == faults < Faults /\ faults' = faults + 1
Gap(what, condition) == IF condition THEN {what} ELSE {}

-----------------------------------------------------------------------------
(* Webhooks *)

IsNewDelivery(d) == delivery[d] = "none"

\* Delivery and job in one transaction; a repeated delivery changes nothing.
ReceiveWebhook(d) ==
  /\ IsNewDelivery(d)
  /\ delivery' = [delivery EXCEPT ![d] = "pending"]
  /\ job' = Enqueued(d)
  /\ UNCHANGED <<issue, epics, mapping, runs, jobRun, lock, importer, loop, faults, history>>

\* Somebody moves the issue, or the outbox does once the epic is accepted.
IssueMoves ==
  /\ issue = "todo" /\ issue' = "other"
  /\ UNCHANGED <<job, delivery, epics, mapping, runs, jobRun, lock, importer, loop, faults, history>>

-----------------------------------------------------------------------------
(* ImportLinearIssue *)

LoopGoes(pc, ok) == loop' = [loop EXCEPT !.pc = pc, !.ok = ok]

\* The delivery the job in hand is for.
Hook == job[loop.job].payload

\* Mutant of Unlocked: an import that fails keeps the lock.
UnlockedIfDone(ok) == IF ok THEN "free" ELSE lock

Unlocked(ok) == "free"

\* The import returns: to the reconciler, which goes on, or to processLinearDelivery.
Leave(a, ok) ==
  /\ importer' = [importer EXCEPT ![a] = NoImport]
  /\ lock' = Unlocked(ok)
  /\ IF a = "reconciler" THEN UNCHANGED <<loop, delivery>>
     ELSE /\ LoopGoes(IF ok THEN "check" ELSE "answer", FALSE)
          /\ delivery' = IF ok THEN delivery ELSE [delivery EXCEPT ![Hook] = "failed"]

\* The loop with a webhook's job, the reconciler with an issue that Linear lists.
Enter(a) ==
  /\ lock = "free"
  /\ IF a = "loop" THEN loop.pc = "import" ELSE issue = "todo"
  /\ lock' = a
  /\ importer' = [importer EXCEPT ![a].pc = "look"]
  /\ UNCHANGED <<job, issue, delivery, epics, mapping, runs, jobRun, loop, faults, history>>

\* Mutant of ToImport: whether there is an epic already is not asked.
ToImportAgain == issue = "todo"

ToImport == issue = "todo" /\ mapping = 0

ToCreate(a) ==
  importer' = [importer EXCEPT ![a].pc = "create"] /\ UNCHANGED <<lock, loop, delivery>>

\* GetIssue and GetExternalMappingByExternal, any error of which is taken for "not mapped".
Look(a) ==
  /\ importer[a].pc = "look"
  /\ \/ UNCHANGED <<faults, history>>
        /\ IF ToImport THEN ToCreate(a) ELSE Leave(a, TRUE)
     \/ /\ issue = "todo" /\ mapping # 0 /\ ToCreate(a)
        /\ Fault /\ history' = history \cup {"unread"}
  /\ UNCHANGED <<job, issue, epics, mapping, runs, jobRun>>

CreateEpic(a) ==
  /\ importer[a].pc = "create" /\ epics < MaxEpics
  /\ epics' = epics + 1
  /\ importer' = [importer EXCEPT ![a] = [pc |-> "map", epic |-> epics + 1]]
  /\ UNCHANGED <<job, issue, delivery, mapping, runs, jobRun, lock, loop, faults, history>>

\* Mutant of MayMap: the mapping is renamed to the epic that comes last.
MayMapAgain == TRUE

\* The unique index on the external id: an issue is mapped once.
MayMap == mapping = 0

\* UpsertExternalMapping
Map(a) ==
  /\ importer[a].pc = "map"
  /\ IF MayMap
     THEN /\ mapping' = importer[a].epic
          /\ importer' = [importer EXCEPT ![a].pc = "enqueue"]
          /\ UNCHANGED <<lock, loop, delivery>>
     ELSE Leave(a, FALSE) /\ UNCHANGED mapping
  /\ UNCHANGED <<job, issue, epics, runs, jobRun, faults, history>>

\* Mutant of EnqueueRun: the epic's run is left to the next sweep.
EnqueueRunLater(a) ==
  /\ importer[a].pc = "enqueue"
  /\ Leave(a, TRUE)
  /\ UNCHANGED <<job, issue, epics, mapping, runs, jobRun, faults, history>>

EnqueueRun(a) ==
  /\ importer[a].pc = "enqueue"
  /\ job' = Enqueued(importer[a].epic)
  /\ Leave(a, TRUE)
  /\ UNCHANGED <<issue, epics, mapping, runs, jobRun, faults, history>>

\* The gaps that importers leave that do not get further.
Gaps(set) ==
  Gap("unmapped", \E a \in set : importer[a].pc = "map")
    \cup Gap("unqueued", \E a \in set : importer[a].pc = "enqueue")

ImportFails(a) ==
  /\ importer[a].pc # "idle" /\ Fault
  /\ Leave(a, FALSE)
  /\ history' = history \cup Gaps({a})
  /\ UNCHANGED <<job, issue, epics, mapping, runs, jobRun>>

ImportStep(a) == Look(a) \/ CreateEpic(a) \/ Map(a) \/ EnqueueRun(a)

-----------------------------------------------------------------------------
(* jobLoop *)

Claim(j) ==
  /\ loop.pc = "idle"
  /\ ClaimableJob(j, 0)
  /\ job' = ClaimedJob(j)
  /\ loop' = [NoLoop EXCEPT !.pc = IF job[j].payload \in Deliveries THEN "import" ELSE "claimed",
                            !.job = j, !.attempts = job[j].attempts + 1]
  /\ UNCHANGED <<issue, delivery, epics, mapping, runs, jobRun, lock, importer, faults, history>>

\* The rest of processLinearDelivery: the issue's parent, which may fail.
CheckParent ==
  /\ loop.pc = "check"
  /\ \/ UNCHANGED faults /\ LoopGoes("answer", TRUE)
        /\ delivery' = [delivery EXCEPT ![Hook] = "processed"]
     \/ Fault /\ LoopGoes("answer", FALSE)
        /\ delivery' = [delivery EXCEPT ![Hook] = "failed"]
  /\ UNCHANGED <<job, issue, epics, mapping, runs, jobRun, lock, importer, history>>

\* Mutant of RunOf: the run of an earlier attempt is not looked for.
RunOfNone(j) == 0

RunOf(j) == jobRun[j]

\* processRunEpic: the run the job is linked to, or a new one.
FindRun ==
  /\ loop.pc = "claimed"
  /\ LET r == RunOf(loop.job) IN
     loop' = [loop EXCEPT !.run = r,
                          !.pc = IF r = 0 THEN "create" ELSE IF runs[r].done THEN "sync" ELSE "launch"]
  /\ UNCHANGED <<job, issue, delivery, epics, mapping, runs, jobRun, lock, importer, faults, history>>

CreateRun ==
  LET r == Cardinality(DOMAIN runs) + 1 IN
  /\ loop.pc = "create" /\ r \in Runs
  /\ runs' = [q \in 1..r |-> IF q = r THEN [epic |-> job[loop.job].payload, done |-> FALSE] ELSE runs[q]]
  /\ loop' = [loop EXCEPT !.pc = "link", !.run = r]
  /\ UNCHANGED <<job, issue, delivery, epics, mapping, jobRun, lock, importer, faults, history>>

CreateFails ==
  /\ loop.pc = "create" /\ Fault
  /\ LoopGoes("answer", FALSE)
  /\ UNCHANGED <<job, issue, delivery, epics, mapping, runs, jobRun, lock, importer, history>>

\* SetJobRunID; its error is ignored.
Link ==
  /\ loop.pc = "link"
  /\ \/ jobRun' = [jobRun EXCEPT ![loop.job] = loop.run] /\ UNCHANGED <<faults, history>>
     \/ Fault /\ history' = history \cup {"unlinked"} /\ UNCHANGED jobRun
  /\ LoopGoes("launch", FALSE)
  /\ UNCHANGED <<job, issue, delivery, epics, mapping, runs, lock, importer>>

\* A launch may fail every time, and for ever.
Launch ==
  /\ loop.pc = "launch"
  /\ \/ runs' = [runs EXCEPT ![loop.run].done = TRUE] /\ LoopGoes("sync", FALSE)
     \/ UNCHANGED runs /\ LoopGoes("answer", FALSE)
  /\ UNCHANGED <<job, issue, delivery, epics, mapping, jobRun, lock, importer, faults, history>>

SyncRun ==
  /\ loop.pc = "sync"
  /\ \/ LoopGoes("answer", TRUE) /\ UNCHANGED faults
     \/ LoopGoes("answer", FALSE) /\ Fault
  /\ UNCHANGED <<job, issue, delivery, epics, mapping, runs, jobRun, lock, importer, history>>

Answer ==
  /\ loop.pc = "answer"
  /\ job' = IF loop.ok THEN CompletedJob(loop.job) ELSE FailedJob(loop.job, loop.attempts)
  /\ loop' = NoLoop
  /\ UNCHANGED <<issue, delivery, epics, mapping, runs, jobRun, lock, importer, faults, history>>

LoopStep == CheckParent \/ FindRun \/ CreateRun \/ Link \/ Launch \/ SyncRun \/ Answer

\* The process stops and another is started.
Stop ==
  /\ Fault
  /\ loop' = NoLoop
  /\ importer' = [a \in Importers |-> NoImport]
  /\ lock' = "free"
  /\ history' = history \cup Gaps(Importers) \cup Gap("unlinked", loop.pc = "link")
  /\ UNCHANGED <<job, issue, delivery, epics, mapping, runs, jobRun>>

Next ==
  \/ \E d \in Deliveries : ReceiveWebhook(d)
  \/ IssueMoves
  \/ \E a \in Importers : Enter(a) \/ ImportStep(a) \/ ImportFails(a)
  \/ \E j \in Jobs : Claim(j)
  \/ LoopStep
  \/ CreateFails
  \/ Stop

Spec == Init /\ [][Next]_vars

\* The loops tick, a launch ends, a mutex is not withheld from one who waits.
Fairness ==
  /\ WF_vars(\E j \in Jobs : Claim(j))
  /\ WF_vars(LoopStep)
  /\ \A a \in Importers : SF_vars(Enter(a)) /\ WF_vars(ImportStep(a))

FairSpec == Spec /\ Fairness

-----------------------------------------------------------------------------
(* Properties *)

\* The types of the rows and processes; runs are numbered as they are created.
TypeOK ==
  /\ job \in [Jobs -> JobRow]
  /\ issue \in {"todo", "other"}
  /\ delivery \in [Deliveries -> {"none", "pending", "processed", "failed"}]
  /\ epics \in 0..MaxEpics /\ mapping \in 0..epics
  /\ \E n \in 0..MaxRuns : runs \in [1..n -> RunRow]
  /\ jobRun \in [Jobs -> 0..MaxRuns]
  /\ lock \in Importers \cup {"free"}
  /\ importer \in [Importers -> Import]
  /\ loop \in Loop
  /\ faults \in 0..Faults
  /\ history \subseteq {"unmapped", "unread", "unqueued", "unlinked"}

\* An issue becomes one epic, however often it is delivered, listed and tried again,
\* unless an import was cut off between the epic and its mapping, or the mapping could
\* not be read.
OneEpic == history \cap {"unmapped", "unread"} = {} => epics <= 1

\* An issue gets one run, whatever epics were created for it and however often the job
\* is tried, unless the process stopped between the run and the link, or the link was
\* not written.
OneRun ==
  "unlinked" \notin history => \A q, r \in DOMAIN runs : q = r

\* An issue that stays to be done is imported at last, with or without webhooks, after
\* whatever failed.
IssueImported == issue = "todo" ~> (mapping # 0 \/ issue # "todo")

\* An epic that is mapped gets its run, unless its import was cut off before the job
\* or the job has used up its attempts.
EpicRuns ==
  mapping # 0 ~>
    \/ "unqueued" \in history
    \/ \E r \in DOMAIN runs : runs[r].epic = mapping
    \/ \E j \in Jobs : job[j].payload = mapping /\ job[j].status = "failed"

\* Every job ends: no launch is repeated for ever, and no job stays with a process
\* that has stopped.
JobsEnd == \A j \in Jobs : JobLive(j) ~> JobOver(j)
=============================================================================
