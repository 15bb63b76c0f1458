------------------------- MODULE ControlPlaneLease -------------------------
(***************************************************************************)
(* The singleton lease of the hosted control plane: one row that a process *)
(* acquires before it starts its loops, refreshes every Beat, and deletes  *)
(* when it stops.  A process of another deployment may take the row over;  *)
(* a process of the same deployment is rejected while the row is fresh.    *)
(*                                                                         *)
(* Time is counted in ticks.  A process is prompt: it sends a heartbeat    *)
(* within Beat ticks of the last one and drains within Drain ticks, the    *)
(* ticker's period and the Shutdown timeout of Server.Run.  A process slot *)
(* is one holder id; a process restarted by the platform is another slot,  *)
(* except that a rejected one, which has left no trace, is the same.       *)
(***************************************************************************)
EXTENDS Integers

CONSTANTS
  Processes,    \* holder ids
  Nobody,       \* holder of a row that is not there
  Deployments,  \* deployment ids, in the order they are rolled out
  Beat,         \* period of monitorControlPlaneLease
  Drain,        \* timeout of httpServer.Shutdown
  Ttl           \* age at which a lease counts as abandoned

ASSUME ProcessesAssumption == Nobody \notin Processes
ASSUME DeploymentsAssumption == Deployments \subseteq Nat \ {0}
\* Server.Run: 5 s, 15 s and 30 s.
ASSUME TimesAssumption ==
  /\ Beat \in Nat \ {0} /\ Drain \in Nat /\ Ttl \in Nat
  /\ Beat + Drain < Ttl

VARIABLES
  deployment,  \* the deployment each process belongs to
  lease,       \* the row of control_plane_leases
  phase,       \* where in Server.Run each process is
  beat,        \* ticks since the process last refreshed or acquired the lease
  drain,       \* ticks since the process began to shut down
  lost,        \* history: ticks since the running process lost the lease
  newest,      \* history: the latest deployment that has held the lease
  handback     \* history: an earlier deployment took the lease from a later one

vars == <<deployment, lease, phase, beat, drain, lost, newest, handback>>

-----------------------------------------------------------------------------

\* signalled: shutting down while the lease monitor goes on; draining: shutting
\* down after the monitor has returned.
Phase == {"new", "serving", "signalled", "draining", "stopped"}
Row == [holder: Processes \cup {Nobody}, deployment: Deployments \cup {0}, age: 0..Ttl]
NoRow == [holder |-> Nobody, deployment |-> 0, age |-> Ttl]

Held(p) == lease.holder = p
\* The loops run until the deferred cancelWorkers, after Shutdown.
LoopsRun(p) == phase[p] \in {"serving", "signalled", "draining"}
Monitored(p) == phase[p] \in {"serving", "signalled"}

Init ==
  /\ deployment \in [Processes -> Deployments]
  /\ lease = NoRow
  /\ phase = [p \in Processes |-> "new"]
  /\ beat = [p \in Processes |-> 0]
  /\ drain = [p \in Processes |-> 0]
  /\ lost = [p \in Processes |-> 0]
  /\ newest \in Deployments
  /\ \A d \in Deployments : newest <= d
  /\ handback = FALSE

\* Mutant of Rejects: the lease counts as abandoned after one missed heartbeat.
RejectsBarely(p) == lease.deployment = deployment[p] /\ lease.age < Beat

\* currentHolder != holderID && active && currentDeployment == deploymentID
Rejects(p) == lease.deployment = deployment[p] /\ lease.age < Ttl

\* AcquireControlPlaneLease, one transaction that holds the row FOR UPDATE: insert
\* the row, or take it over from a dead process or another deployment.
Acquire(p) ==
  /\ phase[p] = "new"
  /\ ~Rejects(p)
  /\ lease' = [holder |-> p, deployment |-> deployment[p], age |-> 0]
  /\ phase' = [phase EXCEPT ![p] = "serving"]
  /\ newest' = IF deployment[p] > newest THEN deployment[p] ELSE newest
  /\ handback' = (handback \/ deployment[p] < newest)
  /\ UNCHANGED <<deployment, beat, drain, lost>>

\* Mutant of Refreshed: the UPDATE forgets AND holder_id=?.
RefreshedAnyway(p) == lease.holder # Nobody

\* UPDATE ... WHERE name=? AND holder_id=? changed one row.
Refreshed(p) == Held(p)

Touched == [holder |-> lease.holder, deployment |-> lease.deployment, age |-> 0]

Heartbeat(p) ==
  /\ Monitored(p)
  /\ Refreshed(p)
  /\ lease' = Touched
  /\ beat' = [beat EXCEPT ![p] = 0]
  /\ UNCHANGED <<deployment, phase, drain, lost, newest, handback>>

\* Any heartbeat error, ErrControlPlaneLeaseLost among them, ends the monitor and
\* makes a serving process shut down.  A statement that reports an error may
\* still have reached the database.
HeartbeatFails(p) ==
  /\ Monitored(p)
  /\ \/ UNCHANGED lease
     \/ Held(p) /\ lease' = Touched
  /\ phase' = [phase EXCEPT ![p] = "draining"]
  /\ UNCHANGED <<deployment, beat, drain, lost, newest, handback>>

\* SIGTERM, SIGINT, or the HTTP server failed.
Signal(p) ==
  /\ phase[p] = "serving"
  /\ phase' = [phase EXCEPT ![p] = "signalled"]
  /\ UNCHANGED <<deployment, lease, beat, drain, lost, newest, handback>>

\* Mutant of Releases: the DELETE forgets AND holder_id=?.
ReleasesAnyway(p) == lease.holder # Nobody

\* DELETE ... WHERE name=? AND holder_id=? finds its row.
Releases(p) == Held(p)

\* Shutdown returns; the deferred calls cancel the loops, then release the lease,
\* which may fail and leave the row behind.
Exit(p) ==
  /\ phase[p] \in {"signalled", "draining"}
  /\ phase' = [phase EXCEPT ![p] = "stopped"]
  /\ \/ Releases(p) /\ lease' = NoRow
     \/ UNCHANGED lease
  /\ UNCHANGED <<deployment, beat, drain, lost, newest, handback>>

\* The process dies and leaves its row behind.
Crash(p) ==
  /\ LoopsRun(p)
  /\ phase' = [phase EXCEPT ![p] = "stopped"]
  /\ UNCHANGED <<deployment, lease, beat, drain, lost, newest, handback>>

\* Time passes for everyone, and never past a heartbeat or a shutdown that is due.
Tick ==
  /\ \A p \in Processes : /\ Monitored(p) => beat[p] < Beat
                          /\ phase[p] \in {"signalled", "draining"} => drain[p] < Drain
  /\ lease' = [holder |-> lease.holder, deployment |-> lease.deployment,
                age |-> IF lease.age < Ttl THEN lease.age + 1 ELSE Ttl]
  /\ beat' = [p \in Processes |-> IF Monitored(p) THEN beat[p] + 1 ELSE beat[p]]
  /\ drain' = [p \in Processes |->
                 IF phase[p] \in {"signalled", "draining"} THEN drain[p] + 1 ELSE drain[p]]
  /\ lost' = [p \in Processes |-> IF LoopsRun(p) /\ ~Held(p) THEN lost[p] + 1 ELSE lost[p]]
  /\ UNCHANGED <<deployment, phase, newest, handback>>

Step(p) ==
  \/ Acquire(p)
  \/ Heartbeat(p)
  \/ HeartbeatFails(p)
  \/ Signal(p)
  \/ Exit(p)
  \/ Crash(p)

Next == Tick \/ \E p \in Processes : Step(p)

Spec == Init /\ [][Next]_vars

-----------------------------------------------------------------------------
(* Properties *)

TypeOK ==
  /\ deployment \in [Processes -> Deployments]
  /\ lease \in Row
  /\ phase \in [Processes -> Phase]
  /\ beat \in [Processes -> 0..Beat]
  /\ drain \in [Processes -> 0..Drain]
  /\ lost \in [Processes -> Nat]
  /\ newest \in Deployments
  /\ handback \in BOOLEAN

\* The lease "prevents two replicas from the same deployment from running
\* control-plane loops concurrently" (ControlPlaneLease), dead processes, drains
\* and failed releases included, as long as deployments only go forward.
OneReplica ==
  \A p, q \in Processes :
    p # q /\ deployment[p] = deployment[q] /\ LoopsRun(p) /\ LoopsRun(q) => handback

\* Two deployments "may briefly overlap only for a controlled handoff; the prior
\* process detects lease loss and shuts down" (ARCHITECTURE.md): a process runs its
\* loops without the lease for at most one heartbeat and one shutdown.
BriefOverlap == \A p \in Processes : LoopsRun(p) => lost[p] <= Beat + Drain

-----------------------------------------------------------------------------
(* Why they hold *)

\* A running process that holds the lease keeps it fresher than Ttl.
Fresh(p) ==
  Held(p) /\ LoopsRun(p) =>
    lease.age <= (IF Monitored(p) THEN beat[p] ELSE Beat + drain[p])

\* A running process has not noticed yet that it lost the lease, or is draining.
Noticing(p) ==
  LoopsRun(p) => lost[p] <= (IF Monitored(p) THEN beat[p] ELSE Beat + drain[p])

\* While deployments go forward, a running process loses its lease only to a later
\* deployment.
Superseded(p) ==
  /\ LoopsRun(p) /\ ~Held(p) => handback \/ deployment[p] < newest
  /\ Held(p) => /\ lease.deployment = deployment[p]
                 /\ deployment[p] <= newest
                 /\ lost[p] = 0
  /\ phase[p] = "new" => ~Held(p) /\ beat[p] = 0 /\ drain[p] = 0 /\ lost[p] = 0
  /\ phase[p] = "serving" => drain[p] = 0

LeaseInv ==
  /\ TypeOK
  /\ OneReplica
  /\ \A p \in Processes : Fresh(p) /\ Noticing(p) /\ Superseded(p)
=============================================================================
