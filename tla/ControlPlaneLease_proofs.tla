---------------------- MODULE ControlPlaneLease_proofs ----------------------
(***************************************************************************)
(* The singleton lease does what its comment says, for any number of       *)
(* processes and deployments and any times with Beat + Drain < Ttl, as     *)
(* long as deployments go forward.  LeaseInv is the inductive invariant:   *)
(* its clauses Fresh and Superseded are why OneReplica is preserved by an  *)
(* Acquire, its clause Noticing is why BriefOverlap holds.                 *)
(***************************************************************************)
EXTENDS ControlPlaneLease, TLAPS

USE ProcessesAssumption, DeploymentsAssumption, TimesAssumption

LEMMA InitLease == Init => LeaseInv
<1> SUFFICES ASSUME Init
             PROVE  LeaseInv
  OBVIOUS
<1>1. TypeOK
  <2>1. lease \in Row
    BY DEF Init, Row, NoRow
  <2>2. /\ phase \in [Processes -> Phase]
        /\ beat \in [Processes -> 0..Beat]
        /\ drain \in [Processes -> 0..Drain]
        /\ lost \in [Processes -> Nat]
    BY DEF Init, Phase
  <2>3. /\ deployment \in [Processes -> Deployments]
        /\ newest \in Deployments
        /\ handback \in BOOLEAN
    BY DEF Init
  <2> QED
    BY <2>1, <2>2, <2>3 DEF TypeOK
<1>2. \A p \in Processes : ~LoopsRun(p) /\ ~Held(p)
  BY DEF Init, NoRow, LoopsRun, Held
<1>3. \A p \in Processes : Fresh(p) /\ Noticing(p) /\ Superseded(p)
  BY <1>2 DEF Init, Fresh, Noticing, Superseded
<1> QED
  BY <1>1, <1>2, <1>3 DEF LeaseInv, OneReplica

-----------------------------------------------------------------------------
(* One lemma per action *)

\* The one step that could break OneReplica: <1>2 is the argument.
LEMMA AcquireKeeps ==
  ASSUME LeaseInv, NEW p \in Processes, Acquire(p)
  PROVE  LeaseInv'
<1> USE DEF LeaseInv, Held, LoopsRun, Monitored
<1>1. TypeOK'
  BY DEF TypeOK, Acquire, Row, Phase
<1>2. ASSUME NEW q \in Processes, q # p, LoopsRun(q), deployment[q] = deployment[p]
      PROVE  handback'
  <2>1. CASE Held(q)
    <3>1. lease.age <= Beat + Drain
      BY <1>2, <2>1 DEF Fresh, TypeOK, Row
    <3>2. lease.deployment = deployment[p]
      BY <1>2, <2>1 DEF Superseded
    <3> QED
      BY <3>1, <3>2 DEF Acquire, Rejects, TypeOK, Row
  <2>2. CASE ~Held(q)
    BY <1>2, <2>2 DEF Superseded, Acquire
  <2> QED
    BY <2>1, <2>2
<1>3. OneReplica'
  BY <1>2 DEF OneReplica, Acquire, TypeOK
<1>4. ASSUME NEW q \in Processes
      PROVE  (Fresh(q) /\ Noticing(q))'
  <2>1. CASE q = p
    BY <2>1 DEF Fresh, Noticing, Superseded, Acquire, TypeOK, Phase
  <2>2. CASE q # p
    BY <2>2 DEF Fresh, Noticing, Acquire, TypeOK
  <2> QED
    BY <2>1, <2>2
<1>5. ASSUME NEW q \in Processes
      PROVE  Superseded(q)'
  <2>a. lease'.holder = p /\ lease'.deployment = deployment[p]
    BY DEF Acquire
  <2>b. phase'[q] = IF q = p THEN "serving" ELSE phase[q]
    BY DEF Acquire, TypeOK
  <2>f. /\ deployment[p] \in Nat /\ deployment[q] \in Nat
        /\ newest \in Nat /\ newest' \in Nat
    BY DEF Acquire, TypeOK
  <2>c. newest' = IF deployment[p] > newest THEN deployment[p] ELSE newest
    BY DEF Acquire
  <2>d. handback => handback'
    BY DEF Acquire
  <2>e. UNCHANGED <<deployment, beat, drain, lost>>
    BY DEF Acquire
  <2>1. CASE q = p
    BY <2>1, <2>a, <2>b, <2>c, <2>e, <2>f DEF Superseded, Acquire
  <2>2. CASE q # p /\ Held(q) /\ LoopsRun(q)
    <3>1. deployment[q] # deployment[p] \/ handback'
      BY <1>2, <2>2
    <3>2. deployment[q] <= newest
      BY <2>2 DEF Superseded
    <3>3. deployment[p] < newest => handback'
      BY DEF Acquire
    <3>4. handback' \/ deployment[q] < newest'
      BY <3>1, <3>2, <3>3, <2>c, <2>f
    <3> QED
      BY <2>2, <2>a, <2>b, <2>e, <3>4 DEF Superseded
  <2>3. CASE q # p /\ ~(Held(q) /\ LoopsRun(q))
    <3>1. LoopsRun(q) => handback' \/ deployment[q] < newest'
      BY <2>3, <2>c, <2>d, <2>f DEF Superseded
    <3> QED
      BY <2>3, <2>a, <2>b, <2>e, <3>1 DEF Superseded
  <2> QED
    BY <2>1, <2>2, <2>3
<1> QED
  BY <1>1, <1>3, <1>4, <1>5

LEMMA HeartbeatKeeps ==
  ASSUME LeaseInv, NEW p \in Processes, Heartbeat(p)
  PROVE  LeaseInv'
<1>1. TypeOK'
  BY DEF LeaseInv, TypeOK, Heartbeat, Touched, Row
<1>2. OneReplica'
  BY DEF LeaseInv, OneReplica, Heartbeat, LoopsRun
<1>3. ASSUME NEW q \in Processes
      PROVE  (Fresh(q) /\ Noticing(q) /\ Superseded(q))'
  <2>1. Noticing(q)'
    <3>1. CASE q = p
      BY <3>1 DEF LeaseInv, TypeOK, Noticing, Superseded, Heartbeat, Refreshed, Held,
                  LoopsRun, Monitored
    <3>2. CASE q # p
      BY <3>2 DEF LeaseInv, TypeOK, Noticing, Heartbeat, LoopsRun, Monitored
    <3> QED
      BY <3>1, <3>2
  <2> QED
    BY <1>3, <2>1 DEF LeaseInv, TypeOK, Fresh, Superseded, Heartbeat, Refreshed,
                      Held, LoopsRun, Monitored, Touched, Row
<1> QED
  BY <1>1, <1>2, <1>3 DEF LeaseInv

LEMMA HeartbeatFailsKeeps ==
  ASSUME LeaseInv, NEW p \in Processes, HeartbeatFails(p)
  PROVE  LeaseInv'
BY DEF LeaseInv, TypeOK, OneReplica, Fresh, Noticing, Superseded, Row, Phase, Held,
       LoopsRun, Monitored, HeartbeatFails, Touched

LEMMA SignalKeeps ==
  ASSUME LeaseInv, NEW p \in Processes, Signal(p)
  PROVE  LeaseInv'
BY DEF LeaseInv, TypeOK, OneReplica, Fresh, Noticing, Superseded, Phase, Held,
       LoopsRun, Monitored, Signal

LEMMA ExitKeeps ==
  ASSUME LeaseInv, NEW p \in Processes, Exit(p)
  PROVE  LeaseInv'
BY DEF LeaseInv, TypeOK, OneReplica, Fresh, Noticing, Superseded, Row, NoRow, Phase,
       Held, LoopsRun, Monitored, Exit, Releases

LEMMA CrashKeeps ==
  ASSUME LeaseInv, NEW p \in Processes, Crash(p)
  PROVE  LeaseInv'
BY DEF LeaseInv, TypeOK, OneReplica, Fresh, Noticing, Superseded, Phase, Held,
       LoopsRun, Monitored, Crash

LEMMA TickKeeps ==
  ASSUME LeaseInv, Tick
  PROVE  LeaseInv'
BY DEF LeaseInv, TypeOK, OneReplica, Fresh, Noticing, Superseded, Row, Phase, Held,
       LoopsRun, Monitored, Tick

LEMMA StepKeeps == LeaseInv /\ [Next]_vars => LeaseInv'
<1> SUFFICES ASSUME LeaseInv, [Next]_vars
             PROVE  LeaseInv'
  OBVIOUS
<1>1. CASE Tick
  BY <1>1, TickKeeps
<1>2. ASSUME NEW p \in Processes, Step(p)
      PROVE  LeaseInv'
  BY <1>2, AcquireKeeps, HeartbeatKeeps, HeartbeatFailsKeeps, SignalKeeps, ExitKeeps,
     CrashKeeps DEF Step
<1>3. CASE UNCHANGED vars
  BY <1>3 DEF vars, LeaseInv, TypeOK, OneReplica, Fresh, Noticing, Superseded, Held,
              LoopsRun, Monitored
<1> QED
  BY <1>1, <1>2, <1>3 DEF Next

-----------------------------------------------------------------------------
(* Theorems *)

\* The inductive invariant of the lease, with its types (AcquireControlPlaneLease,
\* Heartbeat, Release, monitorControlPlaneLease, Server.Run).
THEOREM LeaseInvariant == Spec => []LeaseInv
<1>1. Init => LeaseInv
  BY InitLease
<1>2. LeaseInv /\ [Next]_vars => LeaseInv'
  BY StepKeeps
<1> QED
  BY <1>1, <1>2, PTL DEF Spec

\* While deployments go forward no two processes of a deployment run their loops
\* at once, because a running holder's lease is younger than the ttl and one that
\* lost it lost it to a later deployment (AcquireControlPlaneLease).
THEOREM OneReplicaCorrect == Spec => []OneReplica
<1>1. LeaseInv => OneReplica
  BY DEF LeaseInv
<1> QED
  BY <1>1, LeaseInvariant, PTL

\* A process that lost the lease stops its loops within one heartbeat period and
\* one shutdown timeout (monitorControlPlaneLease, Server.Run).
THEOREM BriefOverlapCorrect == Spec => []BriefOverlap
<1>1. LeaseInv => BriefOverlap
  BY DEF LeaseInv, TypeOK, Noticing, BriefOverlap, Monitored, LoopsRun
<1> QED
  BY <1>1, LeaseInvariant, PTL
=============================================================================
