------------------------ MODULE LinearIntake_proofs ------------------------
(***************************************************************************)
(* One epic and one run per issue, for any deliveries and any number of    *)
(* epics, runs, jobs and faults.                                           *)
(*                                                                         *)
(* The argument: who is past Look holds importMu (Mutex), so the issue is  *)
(* unmapped until the importer itself maps it, or its look-up has failed   *)
(* (Counted); the issue is mapped once, and only the epic it is mapped to  *)
(* ever gets a job, one (OneJob).  A run is found again by that job, which *)
(* names it unless the loop is about to write that down (Known).           *)
(***************************************************************************)
EXTENDS LinearIntake, FiniteSetTheorems, TLAPS

USE IntakeAssumption, JobsAssumption

Inside(a) == importer[a].pc # "idle"

Mutex ==
  /\ \A a \in Importers : Inside(a) => lock = a
  /\ Inside("loop") => loop.pc = "import"

\* Epics are counted by the mapping, or by the importer that is about to map one.
Counted ==
  /\ \A a \in Importers : importer[a].pc \in {"create", "map"} /\ mapping # 0 => "unread" \in history
  /\ \A a \in Importers : importer[a].pc \in {"map", "enqueue"} => importer[a].epic = epics /\ epics # 0
  /\ \A a \in Importers : importer[a].pc = "enqueue" => mapping = epics
  /\ history \cap {"unmapped", "unread"} = {} =>
       epics = 0 \/ (epics = 1 /\ (mapping # 0 \/ \E a \in Importers : importer[a].pc = "map"))

\* The epic of the mapping has one job at most, none before it is enqueued, and no other
\* epic has one.
OneJob ==
  /\ \A j \in Jobs : /\ job[j].status = "none" => job[j].payload = NoPayload
                     /\ job[j].status # "none" => job[j].payload \in Payloads
  /\ \A j \in Jobs : job[j].payload \in Epics => job[j].payload = mapping
  /\ \A i, j \in Jobs : job[i].payload \in Epics /\ job[i].payload = job[j].payload => i = j
  /\ \A a \in Importers : importer[a].pc = "enqueue" => \A j \in Jobs : job[j].payload \notin Epics

\* The loop has the job of an epic in hand, and does not create a run for one that has one.
InHand ==
  /\ loop.pc # "idle" => loop.job \in Jobs /\ job[loop.job].status # "none"
  /\ loop.pc \in {"claimed", "create", "link"} => job[loop.job].payload \in Epics
  /\ loop.pc \in {"create", "link"} => jobRun[loop.job] = 0

\* A run is named by its epic's job, or the loop is about to write it down.
Known ==
  "unlinked" \notin history =>
    \A r \in DOMAIN runs : \E j \in Jobs :
      /\ job[j].payload = runs[r].epic
      /\ jobRun[j] = r \/ (loop.pc = "link" /\ loop.job = j /\ loop.run = r)

IntakeInv == TypeOK /\ Mutex /\ Counted /\ OneJob /\ InHand /\ Known

-----------------------------------------------------------------------------
(* The queue *)

LEMMA EpicsArePayloads == Epics \subseteq Payloads \ Deliveries /\ NoPayload \notin Epics
BY DEF Epics

\* A new job takes one row, and no other row changes.
LEMMA EnqueuedRow ==
  ASSUME job \in [Jobs -> JobRow], NEW p \in Payloads
  PROVE  /\ Enqueued(p) \in [Jobs -> JobRow]
         /\ \A i, j \in Jobs : Enqueued(p)[i] # job[i] /\ Enqueued(p)[j] # job[j] => i = j
         /\ \A j \in Jobs : Enqueued(p)[j] # job[j] =>
              job[j].status = "none" /\ Enqueued(p)[j].payload = p /\ Enqueued(p)[j].status # "none"
<1> USE DEF Enqueued, Jobs, JobRow, JobStatus
<1>1. Enqueued(p) \in [Jobs -> JobRow]
  OBVIOUS
<1>2. \A i, j \in Jobs : IsNew(i) /\ IsNew(j) => i = j
  <2> SUFFICES ASSUME NEW i \in Jobs, NEW j \in Jobs, IsNew(i), IsNew(j), i # j
               PROVE  FALSE
    OBVIOUS
  <2>1. CASE i < j
    <3>1. i \in 1..(j - 1)
      BY <2>1
    <3> QED
      BY <3>1 DEF IsNew
  <2>2. CASE j < i
    <3>1. j \in 1..(i - 1)
      BY <2>2
    <3> QED
      BY <3>1 DEF IsNew
  <2> QED
    BY <2>1, <2>2
<1>3. \A j \in Jobs : Enqueued(p)[j] # job[j] => IsNew(j)
  OBVIOUS
<1> QED
  BY <1>1, <1>2, <1>3 DEF IsNew

\* Claims and answers change the status and the attempts of one job.
OneRow(next, j) ==
  /\ next \in [Jobs -> JobRow]
  /\ \A i \in Jobs : next[i].payload = job[i].payload /\ (job[i].status # "none" => next[i].status # "none")
  /\ \A i \in Jobs : i # j => next[i] = job[i]

LEMMA OneRowChanges ==
  ASSUME job \in [Jobs -> JobRow], NEW j \in Jobs, NEW n \in Nat
  PROVE  OneRow(ClaimedJob(j), j) /\ OneRow(CompletedJob(j), j) /\ OneRow(FailedJob(j, n), j)
<1> USE DEF JobRow, JobStatus, OneRow
<1>1. OneRow(ClaimedJob(j), j)
  <2> DEFINE tried == job[j].attempts + 1
  <2>1. tried \in Nat
    OBVIOUS
  <2>2. ClaimedJob(j) = [job EXCEPT ![j].status = "running", ![j].attempts = tried]
    BY DEF ClaimedJob
  <2> HIDE DEF tried
  <2>3. \A i \in Jobs : i # j => ClaimedJob(j)[i] = job[i]
    BY <2>2
  <2>4. ClaimedJob(j)[j] = [status |-> "running", attempts |-> tried, payload |-> job[j].payload]
    BY <2>2
  <2>5. ClaimedJob(j) = [i \in Jobs |-> ClaimedJob(j)[i]]
    BY <2>2
  <2> QED
    BY <2>1, <2>3, <2>4, <2>5
<1>2. OneRow(CompletedJob(j), j)
  BY DEF CompletedJob
<1>3. OneRow(FailedJob(j, n), j)
  <2>1. CASE job[j].status = "cancelled"
    BY <2>1 DEF FailedJob
  <2>2. CASE job[j].status # "cancelled"
    <3> DEFINE end == IF GivesUp(n) THEN "failed" ELSE "retry"
    <3>1. FailedJob(j, n) = [job EXCEPT ![j].status = end]
      BY <2>2 DEF FailedJob
    <3>2. end \in JobStatus \ {"none"}
      OBVIOUS
    <3> HIDE DEF end
    <3> QED
      BY <3>1, <3>2
  <2> QED
    BY <2>1, <2>2
<1> QED
  BY <1>1, <1>2, <1>3

-----------------------------------------------------------------------------
(* The importers *)

LoopIs(pc, j, run) == loop'.pc = pc /\ loop'.job = j /\ loop'.run = run

LEMMA LeaveMoves ==
  ASSUME TypeOK, NEW a \in Importers, NEW ok \in BOOLEAN, Leave(a, ok)
  PROVE  /\ lock' = "free"
         /\ importer' \in [Importers -> Import] /\ importer'[a] = NoImport
         /\ \A b \in Importers : b # a => importer'[b] = importer[b]
         /\ a = "reconciler" => loop' = loop
         /\ a = "loop" => LoopIs(IF ok THEN "check" ELSE "answer", loop.job, loop.run)
         /\ loop' \in Loop
         /\ delivery' \in [Deliveries -> {"none", "pending", "processed", "failed"}]
<1> USE DEF TypeOK, Leave, Unlocked, LoopGoes, Importers, Loop, LoopIs
<1>1. NoImport \in Import
  BY DEF NoImport, Import
<1>2. /\ lock' = "free" /\ importer' \in [Importers -> Import] /\ importer'[a] = NoImport
      /\ \A b \in Importers : b # a => importer'[b] = importer[b]
  BY <1>1
<1>3. CASE a = "reconciler"
  BY <1>2, <1>3
<1>4. CASE a = "loop"
  <2> DEFINE pc == IF ok THEN "check" ELSE "answer"
  <2>1. loop' = [loop EXCEPT !.pc = pc, !.ok = FALSE] /\ pc \in {"check", "answer"}
    BY <1>4
  <2>2. delivery' \in [Deliveries -> {"none", "pending", "processed", "failed"}]
    BY <1>4
  <2> HIDE DEF pc
  <2>3. LoopIs(pc, loop.job, loop.run) /\ loop' \in Loop
    BY <2>1
  <2> QED
    BY <1>2, <1>4, <2>2, <2>3 DEF pc
<1> QED
  BY <1>3, <1>4

\* An import that returns, with or without success, when it has not created an epic
\* that would be forgotten.
LEMMA LeaveKeeps ==
  ASSUME IntakeInv, NEW a \in Importers, NEW ok \in BOOLEAN, Leave(a, ok), Inside(a),
         UNCHANGED <<issue, epics, mapping, runs, jobRun, job>>,
         faults' \in 0..Faults, history \subseteq history', history' \subseteq {"unmapped", "unread", "unqueued", "unlinked"},
         importer[a].pc = "map" => history' \cap {"unmapped", "unread"} # {}
  PROVE  IntakeInv'
<1> USE LeaveMoves DEF IntakeInv, Importers, NoImport, Inside, LoopIs
<1>1. TypeOK'
  BY DEF TypeOK, RunRow, Loop, Import
<1>2. Mutex'
  BY DEF Mutex
<1>3. Counted'
  BY DEF Counted, Mutex
<1>4. OneJob'
  BY DEF OneJob
<1>5. loop.pc \notin {"claimed", "create", "link"} \/ a # "loop"
  BY DEF Mutex
<1>6. InHand'
  BY <1>5 DEF InHand, Mutex
<1>7. Known'
  BY <1>5 DEF Known, Mutex
<1> QED
  BY <1>1, <1>2, <1>3, <1>4, <1>6, <1>7

LEMMA FaultCounts == ASSUME TypeOK PROVE Fault => faults' \in 0..Faults
BY DEF TypeOK, Fault

LEMMA EnterKeeps ==
  ASSUME IntakeInv, NEW a \in Importers, Enter(a)
  PROVE  IntakeInv'
<1> USE DEF IntakeInv, Importers, Inside, Enter
<1>1. TypeOK'
  BY DEF TypeOK, RunRow, Import
<1>2. /\ importer'[a].pc = "look" /\ \A b \in Importers : b # a => importer'[b] = importer[b]
      /\ UNCHANGED <<job, epics, mapping, runs, jobRun, loop, history>> /\ lock' = a
  BY DEF TypeOK, Import
<1>3. Mutex'
  BY <1>2 DEF Mutex
<1>4. Counted' /\ OneJob'
  BY <1>2 DEF Counted, OneJob, Mutex
<1>5. InHand' /\ Known'
  BY <1>2 DEF InHand, Known
<1> QED
  BY <1>1, <1>3, <1>4, <1>5

LEMMA LookKeeps ==
  ASSUME IntakeInv, NEW a \in Importers, Look(a)
  PROVE  IntakeInv'
<1>1. CASE UNCHANGED <<faults, history>> /\ Leave(a, TRUE)
  <2>1. Inside(a) /\ importer[a].pc # "map"
    BY DEF Look, Inside
  <2> QED
    BY <1>1, <2>1, LeaveKeeps DEF Look, IntakeInv, TypeOK
<1>2. CASE ToCreate(a)
  <2> USE DEF IntakeInv, Importers, Inside
  <2>1. /\ importer' = [importer EXCEPT ![a].pc = "create"] /\ Inside(a) /\ importer[a].pc = "look"
        /\ UNCHANGED <<job, issue, epics, mapping, runs, jobRun, lock, loop, delivery>>
    BY <1>2 DEF Look, ToCreate
  <2>2. faults' \in 0..Faults
    BY FaultCounts DEF Look, TypeOK
  <2>3. /\ history \subseteq history' /\ history' \subseteq history \cup {"unread"}
        /\ mapping # 0 => "unread" \in history'
    <3>1. CASE UNCHANGED <<faults, history>> /\ ToImport
      BY <3>1 DEF ToImport
    <3>2. CASE UNCHANGED <<faults, history>> /\ Leave(a, TRUE)
      <4>1. importer'[a].pc = "idle"
        BY <3>2 DEF Leave, NoImport, TypeOK
      <4>2. importer'[a].pc = "create"
        BY <2>1 DEF TypeOK, Import
      <4> QED
        BY <4>1, <4>2
    <3>3. CASE history' = history \cup {"unread"}
      BY <3>3
    <3> QED
      BY <3>1, <3>2, <3>3 DEF Look
  <2>4. TypeOK'
    BY <2>1, <2>2, <2>3 DEF TypeOK, Import
  <2>5. Mutex'
    BY <2>1 DEF Mutex, TypeOK, Import
  <2>6. Counted' /\ OneJob'
    BY <2>1, <2>3 DEF Counted, OneJob, Mutex, TypeOK, Import
  <2>7. InHand' /\ Known'
    BY <2>1, <2>3 DEF InHand, Known
  <2> QED
    BY <2>4, <2>5, <2>6, <2>7
<1> QED
  BY <1>1, <1>2 DEF Look

\* The step that would create a second epic: the importer has seen no mapping and holds
\* the lock since, or the look-up has failed, which is noted.
LEMMA CreateEpicKeeps ==
  ASSUME IntakeInv, NEW a \in Importers, CreateEpic(a)
  PROVE  IntakeInv'
<1> USE DEF IntakeInv, Importers, Inside
<1>1. /\ importer' = [importer EXCEPT ![a] = [pc |-> "map", epic |-> epics + 1]] /\ importer[a].pc = "create"
      /\ epics' = epics + 1 /\ epics < MaxEpics
      /\ UNCHANGED <<job, issue, mapping, runs, jobRun, faults, lock, loop, delivery, history>>
  BY DEF CreateEpic
<1>2. \A b \in Importers : b # a => importer'[b] = importer[b] /\ ~Inside(b)
  BY <1>1 DEF Mutex, TypeOK
<1>3. importer'[a].pc = "map" /\ importer'[a].epic = epics + 1 /\ epics \in Nat
  BY <1>1 DEF TypeOK
<1>4. importer' \in [Importers -> Import]
  <2>1. [pc |-> "map", epic |-> epics + 1] \in Import
    BY <1>1, <1>3 DEF Import
  <2> QED
    BY <1>1, <2>1 DEF TypeOK
<1>5. mapping # 0 => "unread" \in history
  BY <1>1 DEF Counted
<1>6. TypeOK'
  <2>1. epics' \in 0..MaxEpics /\ mapping' \in 0..epics'
    BY <1>1, <1>3 DEF TypeOK
  <2> QED
    BY <1>1, <1>4, <2>1 DEF TypeOK
<1>7. Mutex'
  BY <1>1, <1>2, <1>3 DEF Mutex
<1>8. Counted'
  BY <1>1, <1>2, <1>3, <1>5 DEF Counted
<1>9. OneJob'
  BY <1>1, <1>2, <1>3 DEF OneJob
<1>10. InHand' /\ Known'
  BY <1>1 DEF InHand, Known
<1> QED
  BY <1>6, <1>7, <1>8, <1>9, <1>10

\* An epic that comes too late to be mapped is left; the one that is mapped is the first
\* that gets a job.
LEMMA MapKeeps ==
  ASSUME IntakeInv, NEW a \in Importers, Map(a)
  PROVE  IntakeInv'
<1>1. CASE ~MayMap
  <2>1. Leave(a, FALSE) /\ Inside(a) /\ mapping # 0 /\ importer[a].pc = "map"
        /\ UNCHANGED <<job, issue, epics, mapping, runs, jobRun, faults, history>>
    BY <1>1 DEF Map, MayMap, Inside
  <2>2. "unread" \in history
    BY <2>1 DEF IntakeInv, Counted
  <2> QED
    BY <2>1, <2>2, LeaveKeeps DEF IntakeInv, TypeOK
<1>2. CASE MayMap
  <2> USE DEF IntakeInv, Importers, Inside
  <2>1. /\ importer' = [importer EXCEPT ![a].pc = "enqueue"] /\ importer[a].pc = "map"
        /\ mapping = 0 /\ mapping' = importer[a].epic
        /\ UNCHANGED <<job, issue, epics, runs, jobRun, faults, history, lock, loop, delivery>>
    BY <1>2 DEF Map, MayMap
  <2>2. \A b \in Importers : b # a => importer'[b] = importer[b] /\ ~Inside(b)
    BY <2>1 DEF Mutex, TypeOK
  <2>3. importer'[a].pc = "enqueue" /\ importer'[a].epic = epics /\ mapping' = epics /\ epics \in Nat /\ epics # 0
    BY <2>1 DEF TypeOK, Counted, Import
  <2>4. importer' \in [Importers -> Import]
    BY <2>1 DEF TypeOK, Import
  <2>5. TypeOK'
    BY <2>1, <2>3, <2>4 DEF TypeOK
  <2>6. Mutex'
    BY <2>1, <2>2, <2>3 DEF Mutex
  <2>7. Counted'
    BY <2>1, <2>2, <2>3 DEF Counted
  <2>8. OneJob'
    <3>1. \A j \in Jobs : job[j].payload \notin Epics
      BY <2>1 DEF OneJob, Epics
    <3> QED
      BY <2>1, <2>2, <2>3, <3>1 DEF OneJob
  <2>9. InHand' /\ Known'
    BY <2>1 DEF InHand, Known
  <2> QED
    BY <2>5, <2>6, <2>7, <2>8, <2>9
<1> QED
  BY <1>1, <1>2

LEMMA EnqueueRunKeeps ==
  ASSUME IntakeInv, NEW a \in Importers, EnqueueRun(a)
  PROVE  IntakeInv'
<1> DEFINE e == importer[a].epic
<1>1. /\ importer[a].pc = "enqueue" /\ job' = Enqueued(e) /\ Leave(a, TRUE)
      /\ UNCHANGED <<issue, epics, mapping, runs, jobRun, faults, history>>
  BY DEF EnqueueRun
<1>2. e = epics /\ e = mapping /\ epics \in Epics /\ \A j \in Jobs : job[j].payload \notin Epics
  BY <1>1 DEF IntakeInv, Counted, OneJob, TypeOK, Epics
<1>3. e \in Payloads
  BY <1>2 DEF Epics
<1>4. /\ job' \in [Jobs -> JobRow]
      /\ \A i, j \in Jobs : job'[i] # job[i] /\ job'[j] # job[j] => i = j
      /\ \A j \in Jobs : job'[j] # job[j] => job[j].status = "none" /\ job'[j].payload = e /\ job'[j].status # "none"
  BY <1>1, <1>3, EnqueuedRow DEF IntakeInv, TypeOK
<1>12. \A b \in Importers : importer'[b].pc = "idle"
  <2>1. TypeOK /\ TRUE \in BOOLEAN
    BY DEF IntakeInv
  <2>2. importer'[a] = NoImport /\ \A b \in Importers : b # a => importer'[b] = importer[b]
    BY <1>1, <2>1, LeaveMoves
  <2>3. \A b \in Importers : b # a => importer[b].pc = "idle"
    BY <1>1 DEF Mutex, Inside, IntakeInv
  <2> QED
    BY <2>2, <2>3 DEF NoImport
<1> HIDE DEF e
<1> USE <1>1, <1>4, LeaveMoves DEF IntakeInv, Importers, NoImport, Inside, LoopIs
<1>5. TypeOK'
  BY DEF TypeOK, RunRow, Loop, Import
<1>6. Mutex'
  BY <1>12 DEF Mutex
<1>7. Counted'
  BY <1>12 DEF Counted
<1>8. OneJob'
  <2>1. \A j \in Jobs : /\ job'[j].status = "none" => job'[j].payload = NoPayload
                        /\ job'[j].status # "none" => job'[j].payload \in Payloads
    BY <1>3 DEF OneJob
  <2>2. \A j \in Jobs : job'[j].payload \in Epics => job'[j].payload = mapping
    BY <1>2
  <2>3. \A i, j \in Jobs : job'[i].payload \in Epics /\ job'[i].payload = job'[j].payload => i = j
    BY <1>2
  <2> QED
    BY <1>12, <2>1, <2>2, <2>3 DEF OneJob
<1>9. loop.pc \notin {"claimed", "create", "link"} \/ a # "loop"
  BY DEF Mutex
<1>10. InHand'
  BY <1>9 DEF InHand, Mutex
<1>11. Known'
  <2>1. \A j \in Jobs : job[j].payload \in Epics => job'[j] = job[j]
    <3>1. \A j \in Jobs : job[j].status = "none" => job[j].payload \notin Epics
      BY EpicsArePayloads DEF OneJob
    <3> QED
      BY <3>1
  <2>2. \A r \in DOMAIN runs : runs[r].epic \in Epics
    BY DEF TypeOK, RunRow
  <2>3. loop' = loop \/ loop.pc = "import"
    <3>1. TypeOK /\ TRUE \in BOOLEAN
      OBVIOUS
    <3>2. a = "reconciler" => loop' = loop
      BY <3>1
    <3> QED
      BY <3>2 DEF Mutex
  <2>4. UNCHANGED <<runs, jobRun, history>>
    BY <1>1
  <2> SUFFICES ASSUME "unlinked" \notin history, NEW r \in DOMAIN runs
               PROVE  \E j \in Jobs : /\ job'[j].payload = runs[r].epic
                                      /\ jobRun[j] = r \/ (loop'.pc = "link" /\ loop'.job = j /\ loop'.run = r)
    BY <2>4 DEF Known
  <2>5. PICK j \in Jobs : /\ job[j].payload = runs[r].epic
                          /\ jobRun[j] = r \/ (loop.pc = "link" /\ loop.job = j /\ loop.run = r)
    BY DEF Known
  <2>6. job'[j] = job[j]
    BY <2>1, <2>2, <2>5
  <2> QED
    BY <2>3, <2>5, <2>6
<1> QED
  BY <1>5, <1>6, <1>7, <1>8, <1>10, <1>11

LEMMA ImportFailsKeeps ==
  ASSUME IntakeInv, NEW a \in Importers, ImportFails(a)
  PROVE  IntakeInv'
<1>1. /\ Leave(a, FALSE) /\ Inside(a) /\ faults' = faults + 1 /\ faults < Faults
      /\ UNCHANGED <<issue, epics, mapping, runs, jobRun, job>>
      /\ history' = history \cup Gaps({a})
  BY DEF ImportFails, Fault, Inside
<1>2. faults' \in 0..Faults
  BY <1>1 DEF IntakeInv, TypeOK
<1>3. /\ history' \subseteq {"unmapped", "unread", "unqueued", "unlinked"}
      /\ importer[a].pc = "map" => history' \cap {"unmapped", "unread"} # {}
  BY <1>1 DEF Gaps, Gap, IntakeInv, TypeOK
<1> QED
  BY <1>1, <1>2, <1>3, LeaveKeeps

-----------------------------------------------------------------------------
(* Webhooks, the issue, and stops *)

LEMMA ReceiveWebhookKeeps ==
  ASSUME IntakeInv, NEW d \in Deliveries, ReceiveWebhook(d)
  PROVE  IntakeInv'
<1> USE DEF IntakeInv
<1>1. /\ job' = Enqueued(d) /\ delivery' = [delivery EXCEPT ![d] = "pending"]
      /\ UNCHANGED <<issue, epics, mapping, runs, jobRun, lock, importer, loop, faults, history>>
  BY DEF ReceiveWebhook
<1>2. d \in Payloads /\ d \notin Epics
  BY DEF Epics
<1>3. /\ job' \in [Jobs -> JobRow]
      /\ \A j \in Jobs : job'[j] # job[j] => job[j].status = "none" /\ job'[j].payload = d /\ job'[j].status # "none"
  BY <1>1, <1>2, EnqueuedRow DEF TypeOK
<1>4. TypeOK'
  BY <1>1, <1>3 DEF TypeOK
<1>5. Mutex' /\ Counted'
  BY <1>1 DEF Mutex, Counted, Inside
<1>6. OneJob'
  BY <1>1, <1>2, <1>3 DEF OneJob
<1>7. \A j \in Jobs : job[j].status # "none" \/ job[j].payload \in Epics => job'[j] = job[j]
  <2>1. \A j \in Jobs : job[j].status = "none" => job[j].payload \notin Epics
    BY EpicsArePayloads DEF OneJob
  <2> QED
    BY <1>3, <2>1
<1>8. InHand'
  BY <1>1, <1>7 DEF InHand
<1>9. Known'
  <2>1. \A r \in DOMAIN runs : runs[r].epic \in Epics
    BY DEF TypeOK, RunRow
  <2> QED
    BY <1>1, <1>7, <2>1 DEF Known
<1> QED
  BY <1>4, <1>5, <1>6, <1>8, <1>9

\* After a stop only the rows are left, and what was not written down is in history.
LEMMA StopKeeps ==
  ASSUME IntakeInv, Stop
  PROVE  IntakeInv'
<1> USE DEF IntakeInv
<1>1. /\ loop' = NoLoop /\ importer' = [a \in Importers |-> NoImport] /\ lock' = "free"
      /\ history' = history \cup Gaps(Importers) \cup Gap("unlinked", loop.pc = "link")
      /\ faults' = faults + 1 /\ faults < Faults
      /\ UNCHANGED <<job, issue, delivery, epics, mapping, runs, jobRun>>
  BY DEF Stop, Fault
<1>2. /\ history \subseteq history' /\ history' \subseteq {"unmapped", "unread", "unqueued", "unlinked"}
      /\ "unmapped" \notin history' => \A a \in Importers : importer[a].pc # "map"
      /\ "unlinked" \notin history' => loop.pc # "link"
  BY <1>1 DEF Gaps, Gap, TypeOK
<1>3. TypeOK'
  <2>1. NoLoop \in Loop /\ NoImport \in Import /\ faults' \in 0..Faults
    BY <1>1 DEF NoLoop, Loop, NoImport, Import, TypeOK
  <2> QED
    BY <1>1, <1>2, <2>1 DEF TypeOK
<1>4. Mutex' /\ Counted' /\ OneJob'
  BY <1>1, <1>2 DEF Mutex, Counted, OneJob, NoImport, Inside, Importers
<1>5. InHand' /\ Known'
  BY <1>1, <1>2 DEF InHand, Known, NoLoop
<1> QED
  BY <1>3, <1>4, <1>5

-----------------------------------------------------------------------------
(* The loop *)

\* The steps that change nothing but the loop's place and the delivery.
LEMMA LoopOnlyKeeps ==
  ASSUME IntakeInv, UNCHANGED <<job, issue, epics, mapping, runs, jobRun, lock, importer, history>>,
         faults' \in 0..Faults, delivery' \in [Deliveries -> {"none", "pending", "processed", "failed"}],
         loop' \in Loop, loop.pc \notin {"import", "link", "idle"}, loop'.pc \notin {"claimed", "link"},
         loop'.job = loop.job, loop'.pc = "create" => loop.pc = "claimed" /\ jobRun[loop.job] = 0
  PROVE  IntakeInv'
<1> USE DEF IntakeInv
<1>1. TypeOK'
  BY DEF TypeOK
<1>2. Mutex' /\ Counted' /\ OneJob'
  BY DEF Mutex, Counted, OneJob, Inside
<1>3. InHand' /\ Known'
  BY DEF InHand, Known
<1> QED
  BY <1>1, <1>2, <1>3

LEMMA GoesOn ==
  ASSUME TypeOK, NEW pc, NEW ok \in BOOLEAN, LoopGoes(pc, ok),
         pc \in {"idle", "claimed", "import", "check", "create", "link", "launch", "sync", "answer"}
  PROVE  loop' \in Loop /\ LoopIs(pc, loop.job, loop.run)
BY DEF TypeOK, LoopGoes, Loop, LoopIs

LEMMA LoopOnly ==
  ASSUME IntakeInv, CheckParent \/ FindRun \/ CreateFails \/ SyncRun
  PROVE  IntakeInv'
<1> USE DEF IntakeInv
<1>1. CASE CheckParent
  <2>1. PICK ok \in BOOLEAN : LoopGoes("answer", ok)
    BY <1>1 DEF CheckParent
  <2>2. loop' \in Loop /\ LoopIs("answer", loop.job, loop.run)
    BY <2>1, GoesOn
  <2>3. faults' \in 0..Faults /\ delivery' \in [Deliveries -> {"none", "pending", "processed", "failed"}]
    BY <1>1, FaultCounts DEF CheckParent, TypeOK
  <2> QED
    BY <1>1, <2>2, <2>3, LoopOnlyKeeps DEF CheckParent, LoopIs
<1>2. CASE FindRun
  <2> DEFINE r == RunOf(loop.job)
             pc == IF r = 0 THEN "create" ELSE IF runs[r].done THEN "sync" ELSE "launch"
  <2>1. r \in 0..MaxRuns /\ r = jobRun[loop.job]
    BY <1>2 DEF FindRun, RunOf, InHand, TypeOK
  <2>2. loop' = [loop EXCEPT !.run = r, !.pc = pc] /\ pc \in {"create", "sync", "launch"} /\ (pc = "create" => r = 0)
    BY <1>2 DEF FindRun
  <2> HIDE DEF r, pc
  <2>3. loop' \in Loop /\ loop'.pc = pc /\ loop'.job = loop.job
    BY <2>1, <2>2 DEF TypeOK, Loop
  <2> QED
    BY <1>2, <2>1, <2>2, <2>3, LoopOnlyKeeps DEF FindRun, TypeOK
<1>3. CASE CreateFails \/ SyncRun
  <2>1. PICK ok \in BOOLEAN : LoopGoes("answer", ok)
    BY <1>3 DEF CreateFails, SyncRun
  <2>2. loop' \in Loop /\ LoopIs("answer", loop.job, loop.run)
    BY <2>1, GoesOn
  <2>3. faults' \in 0..Faults
    BY <1>3, FaultCounts DEF CreateFails, SyncRun, TypeOK
  <2> QED
    BY <1>3, <2>2, <2>3, LoopOnlyKeeps DEF CreateFails, SyncRun, LoopIs, TypeOK
<1> QED
  BY <1>1, <1>2, <1>3

\* The step that would create an epic's second run: the job in hand names none, and it
\* is the only one the epic has.
LEMMA CreateRunKeeps ==
  ASSUME IntakeInv, CreateRun
  PROVE  IntakeInv'
<1> USE DEF IntakeInv
<1>1. PICK n \in 0..MaxRuns : runs \in [1..n -> RunRow]
  BY DEF TypeOK
<1>2. Cardinality(DOMAIN runs) = n
  BY <1>1, FS_Interval
<1> DEFINE row == [epic |-> job[loop.job].payload, done |-> FALSE]
           r == n + 1
<1>3. /\ loop.pc = "create" /\ r \in Runs
      /\ runs' = [q \in 1..r |-> IF q = r THEN row ELSE runs[q]]
      /\ loop' = [loop EXCEPT !.pc = "link", !.run = r]
      /\ UNCHANGED <<job, issue, delivery, epics, mapping, jobRun, lock, importer, faults, history>>
  BY <1>2 DEF CreateRun
<1>4. /\ loop.job \in Jobs /\ job[loop.job].payload \in Epics /\ jobRun[loop.job] = 0
      /\ job[loop.job].status # "none"
  BY <1>3 DEF InHand
<1>5. row \in RunRow
  BY <1>4 DEF RunRow
<1>6. r \in 0..MaxRuns /\ runs' \in [1..r -> RunRow]
  BY <1>1, <1>3, <1>5 DEF Runs
<1>7. loop' \in Loop /\ LoopIs("link", loop.job, r)
  BY <1>3, <1>6 DEF TypeOK, Loop, LoopIs
<1>8. TypeOK'
  BY <1>3, <1>6, <1>7 DEF TypeOK
<1>9. Mutex' /\ Counted' /\ OneJob'
  BY <1>3 DEF Mutex, Counted, OneJob, Inside
<1>10. InHand'
  BY <1>3, <1>4, <1>7 DEF InHand, LoopIs
<1>11. Known'
  <2> SUFFICES ASSUME "unlinked" \notin history, NEW q \in 1..r
               PROVE  \E j \in Jobs : /\ job[j].payload = runs'[q].epic
                                      /\ jobRun[j] = q \/ (loop'.pc = "link" /\ loop'.job = j /\ loop'.run = q)
    BY <1>3, <1>6 DEF Known
  <2>1. CASE q = r
    BY <1>3, <1>4, <1>7, <2>1 DEF LoopIs
  <2>2. CASE q # r
    <3>1. q \in DOMAIN runs /\ runs'[q] = runs[q]
      BY <1>1, <1>3, <2>2
    <3>2. PICK j \in Jobs : job[j].payload = runs[q].epic /\ jobRun[j] = q
      BY <1>3, <3>1 DEF Known
    <3> QED
      BY <3>1, <3>2
  <2> QED
    BY <2>1, <2>2
<1> QED
  BY <1>8, <1>9, <1>10, <1>11

LEMMA LinkKeeps ==
  ASSUME IntakeInv, Link
  PROVE  IntakeInv'
<1> USE DEF IntakeInv
<1>1. loop.pc = "link" /\ UNCHANGED <<job, issue, delivery, epics, mapping, runs, lock, importer>>
  BY DEF Link
<1>2. loop' \in Loop /\ LoopIs("launch", loop.job, loop.run)
  BY GoesOn DEF Link
<1>3. /\ jobRun' \in [Jobs -> 0..MaxRuns] /\ faults' \in 0..Faults
      /\ history \subseteq history' /\ history' \subseteq {"unmapped", "unread", "unqueued", "unlinked"}
      /\ history' = history \/ "unlinked" \in history'
      /\ "unlinked" \notin history' => jobRun' = [jobRun EXCEPT ![loop.job] = loop.run]
  BY FaultCounts DEF Link, TypeOK, Loop
<1>4. TypeOK'
  BY <1>1, <1>2, <1>3 DEF TypeOK
<1>5. Mutex' /\ Counted' /\ OneJob'
  BY <1>1, <1>3 DEF Mutex, Counted, OneJob, Inside
<1>6. InHand'
  BY <1>1, <1>2 DEF InHand, LoopIs
<1>7. Known'
  <2> SUFFICES ASSUME "unlinked" \notin history', NEW r \in DOMAIN runs
               PROVE  \E j \in Jobs : job[j].payload = runs[r].epic /\ jobRun'[j] = r
    BY <1>1 DEF Known
  <2>1. PICK j \in Jobs : /\ job[j].payload = runs[r].epic
                          /\ jobRun[j] = r \/ (loop.job = j /\ loop.run = r)
    BY <1>3 DEF Known
  <2>2. r # 0
    BY DEF TypeOK
  <2>3. jobRun[loop.job] = 0 /\ loop.job \in Jobs
    BY <1>1 DEF InHand
  <2>4. jobRun'[j] = r
    BY <1>3, <2>1, <2>2, <2>3 DEF TypeOK
  <2> QED
    BY <2>1, <2>4
<1> QED
  BY <1>4, <1>5, <1>6, <1>7

LEMMA LaunchKeeps ==
  ASSUME IntakeInv, Launch
  PROVE  IntakeInv'
<1> USE DEF IntakeInv
<1>1. loop.pc = "launch" /\ UNCHANGED <<job, issue, delivery, epics, mapping, jobRun, lock, importer, faults, history>>
  BY DEF Launch
<1>2. PICK pc \in {"sync", "answer"} : LoopGoes(pc, FALSE)
  BY DEF Launch
<1>3. loop' \in Loop /\ LoopIs(pc, loop.job, loop.run)
  BY <1>2, GoesOn
<1>4. PICK n \in 0..MaxRuns : runs \in [1..n -> RunRow]
  BY DEF TypeOK
<1>5. runs' \in [1..n -> RunRow] /\ \A r \in 1..n : runs'[r].epic = runs[r].epic
  <2>1. CASE runs' = runs
    BY <1>4, <2>1
  <2>2. CASE runs' = [runs EXCEPT ![loop.run].done = TRUE]
    <3>1. CASE loop.run \in 1..n
      BY <1>4, <2>2, <3>1 DEF RunRow
    <3>2. CASE loop.run \notin 1..n
      BY <1>4, <2>2, <3>2
    <3> QED
      BY <3>1, <3>2
  <2> QED
    BY <2>1, <2>2 DEF Launch
<1>6. TypeOK'
  BY <1>1, <1>3, <1>5 DEF TypeOK
<1>7. Mutex' /\ Counted' /\ OneJob'
  BY <1>1, <1>3 DEF Mutex, Counted, OneJob, Inside, LoopIs
<1>8. InHand'
  BY <1>1, <1>3 DEF InHand, LoopIs
<1>9. Known'
  <2>1. DOMAIN runs' = DOMAIN runs /\ \A r \in DOMAIN runs : runs'[r].epic = runs[r].epic
    BY <1>4, <1>5
  <2> QED
    BY <1>1, <2>1 DEF Known
<1> QED
  BY <1>6, <1>7, <1>8, <1>9

LEMMA ClaimKeeps ==
  ASSUME IntakeInv, NEW j \in Jobs, Claim(j)
  PROVE  IntakeInv'
<1> USE DEF IntakeInv
<1> DEFINE pc == IF job[j].payload \in Deliveries THEN "import" ELSE "claimed"
           n == job[j].attempts + 1
<1>1. /\ loop.pc = "idle" /\ JobLive(j) /\ job' = ClaimedJob(j)
      /\ loop' = [NoLoop EXCEPT !.pc = pc, !.job = j, !.attempts = n]
      /\ UNCHANGED <<issue, delivery, epics, mapping, runs, jobRun, lock, importer, faults, history>>
  BY DEF Claim, ClaimableJob
<1>2. job[j].status # "none" /\ job[j].payload \in Payloads
  BY <1>1 DEF JobLive, Unclaimed, OneJob
<1>3. pc = "claimed" => job[j].payload \in Epics
  BY <1>2 DEF Epics
<1>4. n \in Nat /\ pc \in {"import", "claimed"}
  BY DEF TypeOK, JobRow
<1> HIDE DEF pc, n
<1>5. loop' \in Loop /\ loop'.pc = pc /\ loop'.job = j
  <2>1. loop' = [pc |-> pc, job |-> j, attempts |-> n, run |-> 0, ok |-> FALSE]
    BY <1>1 DEF NoLoop
  <2>2. j \in 0..MaxJobs
    BY DEF Jobs
  <2> QED
    BY <1>4, <2>1, <2>2 DEF Loop
<1>6. OneRow(job', j)
  BY <1>1, OneRowChanges DEF TypeOK
<1>7. TypeOK'
  BY <1>1, <1>5, <1>6 DEF TypeOK, OneRow
<1>8. \A i \in Jobs : job'[i].payload = job[i].payload /\ (job'[i].status = "none" <=> job[i].status = "none")
  BY <1>2, <1>6 DEF OneRow
<1>9. Mutex' /\ Counted'
  BY <1>1 DEF Mutex, Counted, Inside
<1>10. OneJob'
  BY <1>1, <1>8 DEF OneJob
<1>11. InHand'
  BY <1>2, <1>3, <1>4, <1>5, <1>8 DEF InHand
<1>12. Known'
  BY <1>1, <1>8 DEF Known
<1> QED
  BY <1>7, <1>9, <1>10, <1>11, <1>12

LEMMA AnswerKeeps ==
  ASSUME IntakeInv, Answer
  PROVE  IntakeInv'
<1> USE DEF IntakeInv
<1>1. /\ loop.pc = "answer" /\ loop' = NoLoop
      /\ job' = CompletedJob(loop.job) \/ job' = FailedJob(loop.job, loop.attempts)
      /\ UNCHANGED <<issue, delivery, epics, mapping, runs, jobRun, lock, importer, faults, history>>
  BY DEF Answer
<1>2. loop.job \in Jobs /\ job[loop.job].status # "none" /\ loop.attempts \in Nat
  BY <1>1 DEF InHand, TypeOK, Loop
<1>3. OneRow(job', loop.job)
  BY <1>1, <1>2, OneRowChanges DEF TypeOK
<1>4. \A i \in Jobs : job'[i].payload = job[i].payload /\ (job'[i].status = "none" <=> job[i].status = "none")
  BY <1>2, <1>3 DEF OneRow
<1>5. TypeOK'
  <2>1. NoLoop \in Loop
    BY DEF NoLoop, Loop
  <2> QED
    BY <1>1, <1>3, <2>1 DEF TypeOK, OneRow
<1>6. Mutex' /\ Counted'
  BY <1>1 DEF Mutex, Counted, Inside
<1>7. OneJob'
  BY <1>1, <1>4 DEF OneJob
<1>8. InHand' /\ Known'
  BY <1>1, <1>4 DEF InHand, Known, NoLoop
<1> QED
  BY <1>5, <1>6, <1>7, <1>8

-----------------------------------------------------------------------------
(* The invariant *)

LEMMA IntakeInit == Init => IntakeInv
<1> SUFFICES ASSUME Init PROVE IntakeInv
  OBVIOUS
<1>1. TypeOK
  <2>1. job \in [Jobs -> JobRow]
    BY DEF Init, JobRow, JobStatus, NoJob
  <2>2. NoImport \in Import /\ NoLoop \in Loop
    BY DEF NoImport, Import, NoLoop, Loop
  <2>3. runs \in [1..0 -> RunRow] /\ 0 \in 0..MaxRuns
    BY DEF Init
  <2> QED
    BY <2>1, <2>2, <2>3 DEF Init, TypeOK
<1>2. Mutex /\ Counted
  BY DEF Init, Mutex, Counted, Inside, NoImport, Importers
<1>3. OneJob
  BY EpicsArePayloads DEF Init, OneJob, NoJob, NoImport, Importers
<1>4. InHand /\ Known
  BY DEF Init, InHand, Known, NoLoop
<1> QED
  BY <1>1, <1>2, <1>3, <1>4 DEF IntakeInv

LEMMA IntakeNext == IntakeInv /\ [Next]_vars => IntakeInv'
<1> SUFFICES ASSUME IntakeInv, [Next]_vars PROVE IntakeInv'
  OBVIOUS
<1>1. CASE IssueMoves \/ UNCHANGED vars
  <2>1. UNCHANGED <<job, delivery, epics, mapping, runs, jobRun, lock, importer, loop, faults, history>>
    BY <1>1 DEF IssueMoves, vars
  <2>2. TypeOK'
    BY <1>1, <2>1 DEF IssueMoves, vars, IntakeInv, TypeOK
  <2>3. Mutex' /\ Counted'
    BY <2>1 DEF IntakeInv, Mutex, Counted, Inside
  <2>4. OneJob'
    BY <2>1 DEF IntakeInv, OneJob
  <2>5. InHand' /\ Known'
    BY <2>1 DEF IntakeInv, InHand, Known
  <2> QED
    BY <2>2, <2>3, <2>4, <2>5 DEF IntakeInv
<1> QED
  BY <1>1, ReceiveWebhookKeeps, EnterKeeps, LookKeeps, CreateEpicKeeps, MapKeeps, EnqueueRunKeeps,
     ImportFailsKeeps, ClaimKeeps, LoopOnly, CreateRunKeeps, LinkKeeps, LaunchKeeps, AnswerKeeps, StopKeeps
  DEF Next, ImportStep, LoopStep

\* What the importers, the loop and the rows they write rely on (ImportLinearIssue,
\* processLinearDelivery, processRunEpic).
THEOREM IntakeInvariant == Spec => []IntakeInv
BY IntakeInit, IntakeNext, PTL DEF Spec

\* The rows and the two processes stay of their types.
THEOREM TypeCorrect == Spec => []TypeOK
BY IntakeInvariant, PTL DEF IntakeInv

\* importMu and the look at the mapping make one epic of an issue, however many
\* deliveries, sweeps and retries ask for it, where the look-up fails at no time
\* (ImportLinearIssue).
THEOREM OneEpicCorrect == Spec => []OneEpic
<1>1. IntakeInv => OneEpic
  BY DEF IntakeInv, Counted, OneEpic
<1> QED
  BY <1>1, IntakeInvariant, PTL

\* The issue is mapped once, to the epic that gets a job, and the job finds its run again
\* (UpsertExternalMapping, processRunEpic, SetJobRunID), so that neither a second epic
\* nor any number of attempts makes a second run.
THEOREM OneRunCorrect == Spec => []OneRun
<1>1. IntakeInv => OneRun
  <2> SUFFICES ASSUME IntakeInv, "unlinked" \notin history, NEW q \in DOMAIN runs, NEW r \in DOMAIN runs
               PROVE  q = r
    BY DEF OneRun
  <2> USE DEF IntakeInv
  <2>1. q # 0 /\ r # 0 /\ runs[q].epic \in Epics /\ runs[r].epic \in Epics
    BY DEF TypeOK, RunRow
  <2>2. PICK i \in Jobs : /\ job[i].payload = runs[q].epic
                          /\ jobRun[i] = q \/ (loop.pc = "link" /\ loop.job = i /\ loop.run = q)
    BY DEF Known
  <2>3. PICK j \in Jobs : /\ job[j].payload = runs[r].epic
                          /\ jobRun[j] = r \/ (loop.pc = "link" /\ loop.job = j /\ loop.run = r)
    BY DEF Known
  <2>4. i = j
    BY <2>1, <2>2, <2>3 DEF OneJob
  <2> QED
    BY <2>1, <2>2, <2>3, <2>4 DEF InHand
<1> QED
  BY <1>1, IntakeInvariant, PTL
=============================================================================
