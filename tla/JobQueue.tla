------------------------------ MODULE JobQueue ------------------------------
(***************************************************************************)
(* The table of jobs the control plane works through, one at a time, in    *)
(* the order they were created.  A claim leases a job for six hours; one   *)
(* replica runs the loop and no job takes that long, so a job that is      *)
(* 'running' and not in the loop's hands is an orphan of a process that    *)
(* stopped, which a later claim takes up when its lease has run out.       *)
(***************************************************************************)
EXTENDS Naturals

CONSTANTS
  MaxJobs,      \* rows ever created (bound)
  MaxAttempts,  \* jobs.max_attempts
  Payloads,     \* what a job is for
  NoPayload

ASSUME JobsAssumption == MaxJobs \in Nat /\ MaxAttempts \in Nat \ {0} /\ NoPayload \notin Payloads

VARIABLE job

Jobs == 1..MaxJobs

JobStatus == {"none", "pending", "retry", "running", "completed", "failed", "cancelled"}
JobRow == [status: JobStatus, attempts: Nat, payload: Payloads \cup {NoPayload}]
NoJob == [status |-> "none", attempts |-> 0, payload |-> NoPayload]

Unclaimed == {"pending", "retry"}
JobLive(j) == job[j].status \in Unclaimed \cup {"running"}
JobOver(j) == job[j].status \in {"completed", "failed", "cancelled"}
HasRoom == \E j \in Jobs : job[j].status = "none"
\* The row the next job gets: rows are filled in the order of created_at.
IsNew(j) == job[j].status = "none" /\ \A k \in 1..(j - 1) : job[k].status # "none"

Enqueued(p) ==
  [j \in Jobs |-> IF IsNew(j) THEN [status |-> "pending", attempts |-> 0, payload |-> p]
                  ELSE job[j]]

\* A retry waits for attempts^2 minutes and an orphan for its lease: either may be
\* due or not.  A job that was never tried is due at once.
ClaimableJob(j, held) ==
  /\ JobLive(j) /\ j # held
  /\ \A k \in 1..(j - 1) : job[k].status # "pending"

\* Nobody looks at max_attempts here.
ClaimedJob(j) == [job EXCEPT ![j].status = "running", ![j].attempts = @ + 1]

\* Mutant of CompletedJob: without AND status!='cancelled'.
CompletedAnyway(j) == [job EXCEPT ![j].status = "completed"]

CompletedJob(j) ==
  IF job[j].status = "cancelled" THEN job ELSE [job EXCEPT ![j].status = "completed"]

GivesUp(attempts) == attempts >= MaxAttempts

\* Mutant of FailedJob: a retry starts to count afresh.
FailedAfresh(j, attempts) ==
  IF job[j].status = "cancelled" THEN job
  ELSE [job EXCEPT ![j].status = IF GivesUp(attempts) THEN "failed" ELSE "retry", ![j].attempts = 0]

\* FailJob, with the attempts the claim returned.
FailedJob(j, attempts) ==
  IF job[j].status = "cancelled" THEN job
  ELSE [job EXCEPT ![j].status = IF GivesUp(attempts) THEN "failed" ELSE "retry"]

\* Mutant of CancelledJobs: a job that is leased is left to its worker.
CancelledUnclaimed(ids) ==
  [j \in Jobs |-> IF j \in ids /\ job[j].status \in Unclaimed
                  THEN [job[j] EXCEPT !.status = "cancelled"] ELSE job[j]]

\* CancelJobsForRun
CancelledJobs(ids) ==
  [j \in Jobs |-> IF j \in ids /\ JobLive(j) THEN [job[j] EXCEPT !.status = "cancelled"]
                  ELSE job[j]]
=============================================================================
