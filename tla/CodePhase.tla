----------------------------- MODULE CodePhase -----------------------------
(***************************************************************************)
(* How a run's plan becomes tickets, waves and merged work: the phases     *)
(* ticketize and code, over any number of failures and resumptions.        *)
(*                                                                         *)
(* Ticketize creates a ticket for every title of the plan, links them and  *)
(* lays them out in waves.  Code takes wave after wave: a coder claims     *)
(* each ticket that is not closed and works on a branch of its own; when   *)
(* all coders of the wave have succeeded, the branches are merged into the *)
(* run's workspace and the tickets closed, one by one.  None of this is in *)
(* one transaction: the process may die, and a failing statement end the   *)
(* phase, between any two steps.                                           *)
(*                                                                         *)
(* history records what the properties make exceptions for:                *)
(*   "skipped"    code was asked for while ticketize was not completed     *)
(*   "robbed"     another run of the epic removed the waves in use         *)
(*   "partial"    the waves the code phase computed for want of any were   *)
(*                not finished, which a later attempt cannot tell          *)
(*   "replanned"  a second plan differed from the first                    *)
(*   "copied"     the run's tickets could not be listed, which is taken    *)
(*                for having none, and were created a second time          *)
(*   "cut"        a ticket was merged and not closed                       *)
(*   "unfound"    the run's sandbox could not be looked up, which is taken *)
(*                for having none                                          *)
(***************************************************************************)
EXTENDS Naturals, FiniteSets

CONSTANTS
  Titles,     \* what a plan calls its tickets, without repeating a title
  Tickets,    \* by their ids, in the order they are created in (bound)
  TitleOf,    \* tickets.title
  Paths,
  Plans,      \* what the planner may answer: titles, dependencies, owned paths
  NoPlan,
  Slots,      \* coders at work at a time (runs.concurrency)
  Faults,     \* crashes, failures and robberies (bound)
  Explicits   \* resumptions from a phase the user names (bound)

ASSUME CodePhaseAssumption ==
  /\ Slots \in Nat \ {0} /\ NoPlan \notin Plans
  /\ Tickets \subseteq Nat /\ TitleOf \in [Tickets -> Titles]
  /\ Plans \subseteq [titles: SUBSET Titles, deps: [Titles -> SUBSET Titles],
                      owns: [Titles -> SUBSET Paths]]

VARIABLES
  backend,   \* runs.sandbox_backend
  sandbox,   \* the run's last row in sandboxes
  done,      \* the phases whose status is 'completed'
  current,   \* runs.current_phase
  plan,      \* the last plan that was accepted
  status,    \* tickets.status; 'in_progress' is 'claimed' here
  lease,     \* the ticket's active claim: live, lapsed, or none
  deps,      \* ticket_dependencies
  owns,      \* the paths the ticket's body gives it
  rows,      \* the run's rows in waves, by index_n
  wave,      \* tickets.wave_id: a wave the engine knows of, or 0
  engine,    \* the engine's progress and locals
  coder,     \* the coder of each ticket of the wave in hand
  head,      \* the tickets whose work is merged in the workspace
  faults, explicits, history

place == <<backend, sandbox>>
db == <<status, lease, deps, owns, rows, wave>>
bounds == <<faults, explicits>>
vars == <<place, done, current, plan, db, engine, coder, head, bounds, history>>

Phase == {"ticketize", "code"}
Status == {"none", "ready", "claimed", "closed"}
Engine == [pc: {"down", "plan", "find", "create", "drop", "layer", "assign",
                "open", "list", "next", "work", "merge"},
           named: SUBSET Tickets, assigned: SUBSET Tickets, layer: SUBSET Tickets,
           wave: Nat, todo: SUBSET Nat]
Down == [pc |-> "down", named |-> {}, assigned |-> {}, layer |-> {}, wave |-> 0, todo |-> {}]

\* To the engine the row is "new" until it says where the workspace is ("used"), "over" if
\* it is new and an older row says so, "astray" if it names no container; bare is whether
\* the workspace was removed while the phase was in it.
Sandbox == [row: {"new", "used", "over", "astray"}, bare: BOOLEAN]

Present == {t \in Tickets : status[t] # "none"}
Closed == {t \in Tickets : status[t] = "closed"}
Coders(state) == {t \in Tickets : coder[t] = state}

Init ==
  /\ backend \in {"railway", "docker"}
  /\ sandbox = [row |-> "new", bare |-> FALSE]
  /\ done = {}
  /\ current = "ticketize"
  /\ plan = NoPlan
  /\ status = [t \in Tickets |-> "none"]
  /\ lease = [t \in Tickets |-> "none"]
  /\ deps = [t \in Tickets |-> {}]
  /\ owns = [t \in Tickets |-> {}]
  /\ rows = {}
  /\ wave = [t \in Tickets |-> 0]
  /\ engine = Down
  /\ coder = [t \in Tickets |-> "idle"]
  /\ head = {}
  /\ faults = 0 /\ explicits = 0
  /\ history = {}

Fault == faults < Faults /\ faults' = faults + 1
Goes(pc) == engine' = [engine EXCEPT !.pc = pc]
Note(what, condition) == history' = IF condition THEN history \cup {what} ELSE history

-----------------------------------------------------------------------------
(* Launch and resume *)

\* The launcher takes any error for a run that has no sandbox, and creates one, with a
\* workspace of its own.
NewSandbox ==
  /\ backend = "railway" /\ engine.pc = "down" /\ Fault
  /\ sandbox' = [sandbox EXCEPT !.row = IF @ = "new" THEN "new" ELSE "over"]
  /\ head' = {}
  /\ history' = history \cup {"unfound"}
  /\ UNCHANGED <<backend, done, current, plan, db, engine, coder, explicits>>

\* A worker can be started in the sandbox the run has.
MayStart == engine.pc = "down" /\ sandbox.row # "astray"

Begin(p) ==
  /\ current' = p
  /\ done' = done \ {p}
  /\ Goes(IF p = "ticketize" THEN "plan" ELSE "open")

\* The current phase, or the one after it when it is completed.
Resume ==
  /\ MayStart /\ ~(current = "code" /\ current \in done)
  /\ Begin(IF current \in done THEN "code" ELSE current)
  /\ UNCHANGED <<place, plan, db, coder, head, bounds, history>>

\* resume --from: earlier phases that are not completed are skipped.
ResumeFrom(p) ==
  /\ MayStart
  /\ explicits < Explicits /\ explicits' = explicits + 1
  /\ Begin(p)
  /\ Note("skipped", p = "code" /\ "ticketize" \notin done)
  /\ UNCHANGED <<place, plan, db, coder, head, faults>>

-----------------------------------------------------------------------------
(* phaseTicketize *)

\* Mutant of AreOrdered: tickets after a common one count as ordered.
AreOrderedOrAlike(p, t, u) == t \in p.deps[u] \/ u \in p.deps[t] \/ p.deps[t] \cap p.deps[u] # {}

\* ticketsAreOrdered: one names the other.
AreOrdered(p, t, u) == t \in p.deps[u] \/ u \in p.deps[t]

\* normalizeTicketPlan: tickets that own a path in common are ordered, and
\* dependencies name tickets of the plan.
Accepted(p) ==
  /\ p.titles # {}
  /\ \A t, u \in p.titles : t # u /\ ~AreOrdered(p, t, u) => p.owns[t] \cap p.owns[u] = {}
  /\ \A t \in p.titles : p.deps[t] \subseteq p.titles

\* A plan that is not accepted ends the phase, as any failure does (Stop).
PlanTickets ==
  /\ engine.pc = "plan"
  /\ \E p \in Plans :
       /\ Accepted(p)
       /\ plan' = p
       /\ Note("replanned", plan \notin {NoPlan, p})
  /\ Goes("find")
  /\ UNCHANGED <<place, done, current, db, coder, head, bounds>>

TitlesOf(set) == {TitleOf[t] : t \in set}

\* Of tickets with one title the last.
Latest == {t \in Present : \A u \in Present : TitleOf[u] = TitleOf[t] => u <= t}

\* createPlannedTickets: the tickets the run has, by their titles; none if they cannot be
\* listed (there being ids left for copies).
FindTickets ==
  /\ engine.pc = "find"
  /\ \/ engine' = [engine EXCEPT !.pc = "create", !.named = Latest]
        /\ UNCHANGED <<faults, history>>
     \/ /\ Present # {} /\ plan.titles \subseteq TitlesOf(Tickets \ Present)
        /\ engine' = [engine EXCEPT !.pc = "create", !.named = {}]
        /\ Fault /\ history' = history \cup {"copied"}
  /\ UNCHANGED <<place, done, current, plan, db, coder, head, explicits>>

\* A title that has a ticket keeps it as it is ...
CreateTicket(t) ==
  /\ engine.pc = "create" /\ TitleOf[t] \in plan.titles \ TitlesOf(engine.named)
  /\ t \notin Present /\ \A u \in Tickets \ Present : TitleOf[u] = TitleOf[t] => t <= u
  /\ status' = [status EXCEPT ![t] = "ready"]
  /\ owns' = [owns EXCEPT ![t] = plan.owns[TitleOf[t]]]
  /\ engine' = [engine EXCEPT !.named = @ \cup {t}]
  /\ UNCHANGED <<place, done, current, plan, lease, deps, rows, wave, coder, head, bounds, history>>

Created == engine.pc = "create" /\ plan.titles \subseteq TitlesOf(engine.named)
Dependencies(t) == {d \in engine.named : TitleOf[d] \in plan.deps[TitleOf[t]]}

\* ... and the dependencies the ticket has.
AddDependency(t, d) ==
  /\ Created /\ t \in engine.named /\ TitleOf[t] \in plan.titles
  /\ d \in Dependencies(t) \ deps[t]
  /\ deps' = [deps EXCEPT ![t] = @ \cup {d}]
  /\ UNCHANGED <<place, done, current, plan, status, lease, owns, rows, wave, engine, coder, head, bounds, history>>

Linked ==
  /\ Created
  /\ \A t \in engine.named : TitleOf[t] \in plan.titles => Dependencies(t) \subseteq deps[t]
  /\ Goes("drop")
  /\ UNCHANGED <<place, done, current, plan, db, coder, head, bounds, history>>

-----------------------------------------------------------------------------
(* computeWaves *)

\* The epic's waves are deleted, those of its other runs too.
DropWaves ==
  /\ engine.pc = "drop"
  /\ rows' = {} /\ wave' = [t \in Tickets |-> 0]
  /\ engine' = [Down EXCEPT !.pc = "layer"]
  /\ UNCHANGED <<place, done, current, plan, status, lease, deps, owns, coder, head, bounds, history>>

Rest == Present \ engine.assigned

\* Mutant of Unblocked: one dependency that is laid out will do.
UnblockedInPart == {t \in Rest : deps[t] = {} \/ deps[t] \cap engine.assigned # {}}

Unblocked == {t \in Rest : deps[t] \subseteq engine.assigned}

\* A circle goes into one wave, with all that is left.
NewWave ==
  /\ engine.pc = "layer" /\ Rest # {}
  /\ rows' = rows \cup {engine.wave + 1}
  /\ engine' = [engine EXCEPT !.pc = "assign", !.wave = @ + 1,
                              !.layer = IF Unblocked = {} THEN Rest ELSE Unblocked]
  /\ UNCHANGED <<place, done, current, plan, status, lease, deps, owns, wave, coder, head, bounds, history>>

Assign(t) ==
  /\ engine.pc = "assign" /\ t \in engine.layer
  /\ wave' = [wave EXCEPT ![t] = engine.wave]
  /\ engine' = [engine EXCEPT !.assigned = @ \cup {t}, !.layer = @ \ {t},
                              !.pc = IF engine.layer = {t} THEN "layer" ELSE "assign"]
  /\ UNCHANGED <<place, done, current, plan, status, lease, deps, owns, rows, coder, head, bounds, history>>

\* retryTicketizeState: tickets or waves from the start, after an error that may pass.
Retry ==
  /\ engine.pc \in {"create", "layer", "assign"} /\ current = "ticketize" /\ Fault
  /\ Goes(IF engine.pc = "create" THEN "find" ELSE "drop")
  /\ UNCHANGED <<place, done, current, plan, db, coder, head, explicits, history>>

\* Ticketize ends and code begins, or code goes on with the waves it has computed.
WavesDone ==
  /\ engine.pc = "layer" /\ Rest = {}
  /\ IF current = "ticketize"
     THEN done' = {"ticketize"} /\ current' = "code" /\ engine' = [Down EXCEPT !.pc = "open"]
     ELSE /\ engine' = [Down EXCEPT !.pc = "next", !.todo = 1..engine.wave]
          /\ UNCHANGED <<done, current>>
  /\ UNCHANGED <<place, plan, db, coder, head, bounds, history>>

-----------------------------------------------------------------------------
(* phaseCode *)

\* Mutant of Workspace: the sandbox of a hosted run is not looked for either.
WorkspaceAnew == {}

\* What the workspace holds: Railway's sandbox is the one the run has, any other is a
\* new clone, and the old one is destroyed.
Workspace == IF backend = "railway" THEN head ELSE {}

\* DestroySuperseded removes the workspaces of the older rows, one of which may be that of
\* the row in use: a Railway run has one path for all of them.
OpenSandbox ==
  /\ engine.pc = "open"
  /\ sandbox' = [row |-> "used", bare |-> sandbox.row = "over"]
  /\ head' = IF sandbox.row = "over" THEN {} ELSE Workspace
  /\ Goes("list")
  /\ UNCHANGED <<backend, done, current, plan, db, coder, bounds, history>>

\* The engine, in the sandbox, cannot look it up either: it adds a row that names no
\* container, and supersedes the one in use.
OpenUnfound ==
  /\ backend = "railway" /\ engine.pc = "open" /\ Fault
  /\ sandbox' = [row |-> "astray", bare |-> sandbox.row # "new"]
  /\ head' = IF sandbox.row = "new" THEN head ELSE {}
  /\ history' = history \cup {"unfound"}
  /\ Goes("list")
  /\ UNCHANGED <<backend, done, current, plan, db, coder, explicits>>

ListWaves ==
  /\ engine.pc = "list"
  /\ engine' = IF rows = {} THEN [engine EXCEPT !.pc = "drop"]
               ELSE [engine EXCEPT !.pc = "next", !.todo = rows]
  /\ UNCHANGED <<place, done, current, plan, db, coder, head, bounds, history>>

\* Mutant of ToWork: only what is ready.
ToWorkIfReady(w) == {t \in Present : wave[t] = w /\ status[t] = "ready"}

ToWork(w) == {t \in Present : wave[t] = w /\ status[t] # "closed"}

NextWave ==
  /\ engine.pc = "next"
  /\ \E w \in engine.todo :
       /\ \A v \in engine.todo : w <= v
       /\ engine' = [engine EXCEPT !.todo = @ \ {w},
                                   !.pc = IF ToWork(w) = {} THEN "next" ELSE "work"]
       /\ coder' = [t \in Tickets |-> IF t \in ToWork(w) THEN "waiting" ELSE "idle"]
  /\ UNCHANGED <<place, done, current, plan, db, head, bounds, history>>

CodeDone ==
  /\ engine.pc = "next" /\ engine.todo = {}
  /\ done' = done \cup {"code"}
  /\ engine' = Down
  /\ UNCHANGED <<place, current, plan, db, coder, head, bounds, history>>

-----------------------------------------------------------------------------
(* processWaveTickets: the coders of a wave *)

\* Mutant of Lapsed: claims are never given up for their holder.
LapsedNone == {}

Lapsed == {t \in Tickets : lease[t] = "lapsed"}

\* ClaimTicket, in one transaction: tickets whose claim has lapsed are ready again; a
\* ticket that is not ready then is not claimed, and nothing is changed.
Claim(t) ==
  LET swept == [u \in Tickets |-> IF u \in Lapsed THEN "ready" ELSE status[u]] IN
  /\ engine.pc = "work" /\ coder[t] = "waiting" /\ Cardinality(Coders("coding")) < Slots
  /\ IF swept[t] = "ready"
     THEN /\ status' = [swept EXCEPT ![t] = "claimed"]
          /\ lease' = [u \in Tickets |-> IF u = t THEN "live" ELSE IF u \in Lapsed THEN "none" ELSE lease[u]]
          /\ coder' = [coder EXCEPT ![t] = "coding"]
     ELSE coder' = [coder EXCEPT ![t] = "failed"] /\ UNCHANGED <<status, lease>>
  /\ UNCHANGED <<place, done, current, plan, deps, owns, rows, wave, engine, head, bounds, history>>

\* The statement that claims it fails.
ClaimFails(t) ==
  /\ engine.pc = "work" /\ coder[t] = "waiting" /\ Cardinality(Coders("coding")) < Slots /\ Fault
  /\ coder' = [coder EXCEPT ![t] = "failed"]
  /\ UNCHANGED <<place, done, current, plan, db, engine, head, explicits, history>>

\* 45 minutes have passed: nobody sends heartbeats while a coder works.
Lapse(t) ==
  /\ lease[t] = "live"
  /\ lease' = [lease EXCEPT ![t] = "lapsed"]
  /\ UNCHANGED <<place, done, current, plan, status, deps, owns, rows, wave, engine, coder, head, bounds, history>>

Succeed(t) ==
  /\ coder[t] = "coding" /\ ~sandbox.bare
  /\ coder' = [coder EXCEPT ![t] = "ok"]
  /\ UNCHANGED <<place, done, current, plan, db, engine, head, bounds, history>>

\* There is no workspace to branch off, or nothing to commit, since work of the ticket's
\* title is merged already.
Fruitless(t) == sandbox.bare \/ TitleOf[t] \in TitlesOf(head)

\* Or the runner fails.  The claim is given up, if it has not been swept, and unless
\* that fails too.
Fail(t) ==
  /\ coder[t] = "coding"
  /\ coder' = [coder EXCEPT ![t] = "failed"]
  /\ \/ /\ IF Fruitless(t) THEN UNCHANGED faults ELSE Fault
        /\ lease' = [lease EXCEPT ![t] = "none"]
        /\ status' = IF lease[t] = "none" THEN status ELSE [status EXCEPT ![t] = "ready"]
     \/ Fault /\ UNCHANGED <<lease, status>>
  /\ UNCHANGED <<place, done, current, plan, deps, owns, rows, wave, engine, head, explicits, history>>

\* All have come to an end.  One that failed ends the phase: those that succeeded are
\* not merged, and keep their claims.
Join ==
  /\ engine.pc = "work" /\ Coders("waiting") \cup Coders("coding") = {}
  /\ IF Coders("failed") = {} THEN Goes("merge") /\ UNCHANGED coder
     ELSE engine' = Down /\ coder' = [t \in Tickets |-> "idle"]
  /\ UNCHANGED <<place, done, current, plan, db, head, bounds, history>>

-----------------------------------------------------------------------------
(* mergeAndCloseTicketResults *)

Merge(t) ==
  /\ engine.pc = "merge" /\ coder[t] = "ok" /\ Coders("merged") = {}
  /\ head' = head \cup {t}
  /\ coder' = [coder EXCEPT ![t] = "merged"]
  /\ UNCHANGED <<place, done, current, plan, db, engine, bounds, history>>

\* CloseTicket, whether the claim is still active or not.
Close(t) ==
  /\ coder[t] = "merged"
  /\ status' = [status EXCEPT ![t] = "closed"]
  /\ lease' = [lease EXCEPT ![t] = "none"]
  /\ coder' = [coder EXCEPT ![t] = "idle"]
  /\ UNCHANGED <<place, done, current, plan, deps, owns, rows, wave, engine, head, bounds, history>>

WaveDone ==
  /\ engine.pc = "merge" /\ Coders("ok") \cup Coders("merged") = {}
  /\ Goes("next")
  /\ UNCHANGED <<place, done, current, plan, db, coder, head, bounds, history>>

-----------------------------------------------------------------------------
(* Failures, and another run *)

\* The process dies, or a statement or a call fails and the phase with it: a plan that
\* is not accepted, a merge that conflicts.  Claims stay.
Stop ==
  /\ engine.pc # "down" /\ Fault
  /\ engine' = Down
  /\ coder' = [t \in Tickets |-> "idle"]
  /\ history' = history
       \cup (IF Coders("merged") # {} THEN {"cut"} ELSE {})
       \cup (IF engine.pc \in {"layer", "assign"} /\ current = "code" THEN {"partial"} ELSE {})
  /\ UNCHANGED <<place, done, current, plan, db, head, explicits>>

\* Another run of the epic computes its waves.
OtherRunPlans ==
  /\ rows # {} /\ Fault
  /\ rows' = {} /\ wave' = [t \in Tickets |-> 0]
  /\ Note("robbed", engine.pc \notin {"down", "plan", "find", "create", "drop", "open", "list"})
  /\ UNCHANGED <<place, done, current, plan, status, lease, deps, owns, engine, coder, head, explicits>>

EngineStep ==
  \/ PlanTickets \/ FindTickets \/ Linked \/ DropWaves \/ NewWave \/ WavesDone
  \/ OpenSandbox \/ ListWaves \/ NextWave \/ CodeDone \/ Join \/ WaveDone
  \/ \E t \in Tickets : CreateTicket(t) \/ Assign(t) \/ Merge(t) \/ Close(t)
  \/ \E t, d \in Tickets : AddDependency(t, d)

Next ==
  \/ Resume
  \/ \E p \in Phase : ResumeFrom(p)
  \/ EngineStep
  \/ Retry
  \/ NewSandbox \/ OpenUnfound
  \/ \E t \in Tickets : Claim(t) \/ ClaimFails(t) \/ Lapse(t) \/ Succeed(t) \/ Fail(t)
  \/ Stop
  \/ OtherRunPlans

Spec == Init /\ [][Next]_vars

Ends(t) == Succeed(t) \/ (sandbox.bare /\ Fail(t))

\* Somebody resumes a run that has failed, the engine goes on, a coder comes to an end,
\* time passes.
Fairness ==
  /\ WF_vars(Resume) /\ WF_vars(EngineStep)
  /\ \A t \in Tickets : WF_vars(Claim(t)) /\ WF_vars(Lapse(t)) /\ WF_vars(Ends(t))

FairSpec == Spec /\ Fairness

-----------------------------------------------------------------------------
(* Properties *)

TypeOK ==
  /\ backend \in {"railway", "docker"} /\ sandbox \in Sandbox
  /\ done \subseteq Phase /\ current \in Phase
  /\ plan \in Plans \cup {NoPlan}
  /\ status \in [Tickets -> Status]
  /\ lease \in [Tickets -> {"none", "live", "lapsed"}]
  /\ \A t \in Tickets : lease[t] # "none" => status[t] = "claimed"
  /\ deps \in [Tickets -> SUBSET Present]
  /\ owns \in [Tickets -> SUBSET Paths]
  /\ rows \subseteq Nat \ {0}
  /\ wave \in [Tickets -> Nat]
  /\ engine \in Engine
  /\ coder \in [Tickets -> {"idle", "waiting", "coding", "ok", "failed", "merged"}]
  /\ head \subseteq Tickets
  /\ history \subseteq {"skipped", "robbed", "partial", "replanned", "copied", "cut", "unfound"}

Waived == history \cap {"skipped", "robbed"} # {}

Order == INSTANCE WorkOrder WITH closed <- Closed, waived <- Waived

\* Tickets are closed in the order of their dependencies and stay closed: WorkOrder is
\* implemented, over every failure, retry and resumption.
ImplementsWorkOrder == Order!Spec

\* The code phase is completed only when every ticket of the run is closed, unless it
\* was started before the plan was complete, or another run removed its waves, or they
\* are only in part there.
PhaseDone ==
  [][("code" \in done' \ done /\ ~Waived /\ "partial" \notin history) => \A t \in Tickets : status'[t] \in {"none", "closed"}]_vars

\* Two tickets of one wave, worked on from one base, own no path in common, unless they
\* are part of a circle or of two plans, or were created twice.
OwnersApart ==
  Waived \/ history \cap {"replanned", "copied"} # {} \/
    \A t, u \in Tickets :
      (t # u /\ coder[t] # "idle" /\ coder[u] # "idle")
        => owns[t] \cap owns[u] = {} \/ Order!Knotted(t) \/ Order!Knotted(u)


\* Of a hosted run, what is closed is merged in its workspace, over failures and
\* resumptions, as long as its sandbox is found.
ClosedIsMerged == backend = "railway" /\ "unfound" \notin history => Closed \subseteq head

\* The run is resumed when no claim is live.
Patient == (engine.pc = "down" /\ engine'.pc # "down") => \A t \in Tickets : lease[t] # "live"

\* A run that is resumed as often as it fails completes its code phase, if in the end
\* it is resumed when the claims that coders kept have lapsed (resumed sooner it may
\* fail for ever: those coders that find their tickets free work in vain and claim
\* them anew); unless a coder may find nothing left to do, of a ticket that a hosted run
\* merged and did not close or of one that was created twice, or the run's sandbox has a
\* row that no worker can be started by.
CodeCompletes ==
  <>[][Patient]_vars =>
    <>("code" \in done \/ "copied" \in history \/ sandbox.row = "astray"
         \/ ("cut" \in history /\ backend = "railway"))
=============================================================================
