-------------------------- MODULE CodePhase_proofs --------------------------
(***************************************************************************)
(* What a run promises of its tickets, for any plans, tickets and paths:   *)
(* CodePhase implements WorkOrder, and its safety properties hold.         *)
(*                                                                         *)
(* The argument: a ticket is laid out in a later wave than the tickets it  *)
(* depends on, unless it hangs on a circle (Placed), dependencies do not   *)
(* change while the waves are in use, and a wave is begun when all tickets *)
(* of the waves before it are closed (Behind).  The waves of a plan that   *)
(* was changed, or never completed, are not used: the run is in ticketize  *)
(* then, unless it was told otherwise or robbed, which waives it all.      *)
(***************************************************************************)
EXTENDS CodePhase, TLAPS

At(set) == engine.pc \in set
Busy(t) == coder[t] # "idle"
Replanned == "replanned" \in history
Copied == "copied" \in history

\* The run has waves to go by, or is about to lay them out.
Planned == current = "code" \/ At({"drop", "layer", "assign"})
Waves == current = "code" \/ At({"layer", "assign"})

\* Where the engine can be in each phase, and what is completed.
Phases ==
  /\ At({"plan", "find", "create"}) => current = "ticketize"
  /\ At({"open", "list", "next", "work", "merge"}) => current = "code"
  /\ At({"find", "create"}) => plan # NoPlan
  /\ At({"drop"}) /\ current = "code" => rows = {}
  /\ "ticketize" \in done => current = "code"
  /\ ~Waived /\ current = "code" => "ticketize" \in done

\* Unless the run's tickets were created twice, a title has one ticket, which the engine
\* finds.
Naming ==
  /\ engine.named \subseteq Present
  /\ ~Copied =>
       /\ \A t, u \in Present : TitleOf[t] = TitleOf[u] => t = u
       /\ At({"create"}) => engine.named = Present

\* The plan in use was accepted, and if it is the only one there ever was, the tickets
\* are its tickets and own what it says, and their dependencies are complete once the
\* waves are laid out.
OnePlan ==
  /\ plan # NoPlan => Accepted(plan)
  /\ ~Replanned /\ plan = NoPlan => Present = {}
  /\ ~Replanned /\ plan # NoPlan =>
       \A t \in Present : TitleOf[t] \in plan.titles /\ owns[t] = plan.owns[TitleOf[t]]
  /\ ~Waived /\ ~Replanned /\ ~Copied /\ Planned =>
       plan # NoPlan /\ \A t, d \in Present : TitleOf[d] \in plan.deps[TitleOf[t]] => d \in deps[t]

\* Only tickets that exist are laid out or worked on.
Real ==
  /\ engine.layer \subseteq Present
  /\ \A t \in Tickets : wave[t] # 0 \/ Busy(t) => t \in Present
  /\ 0 \notin engine.todo

Placed(t) == Order!Knotted(t) \/ \A u \in deps[t] : 0 < wave[u] /\ wave[u] < wave[t]

\* What is laid out so far.
Layering ==
  ~Waived /\ At({"layer", "assign"}) =>
    /\ engine.assigned = {t \in Tickets : wave[t] # 0}
    /\ \A t \in Tickets : wave[t] <= engine.wave
    /\ At({"assign"}) =>
         /\ engine.layer # {} /\ engine.layer \cap engine.assigned = {}
         /\ engine.wave \in rows
         /\ \A t \in engine.layer :
              Order!Knotted(t) \/ \A u \in deps[t] : 0 < wave[u] /\ wave[u] < engine.wave

LaidOut ==
  /\ ~Waived /\ Waves => \A t \in Tickets : wave[t] # 0 => Placed(t) /\ wave[t] \in rows
  /\ ~Waived /\ "partial" \notin history /\ current = "code"
       /\ (At({"next", "work", "merge"}) \/ (At({"down", "open", "list"}) /\ rows # {}))
       => \A t \in Present : wave[t] # 0

\* The coders of one wave are at work; the waves before it are done.
Coding ==
  /\ ~At({"work", "merge"}) => \A t \in Tickets : ~Busy(t)
  /\ At({"merge"}) => \A t \in Tickets : coder[t] \in {"idle", "ok", "merged"}
  /\ \A t \in Tickets : coder[t] = "merged" => t \in head

Behind ==
  /\ ~Waived /\ At({"next", "work", "merge"}) =>
       \A t \in Tickets : wave[t] # 0 /\ wave[t] \notin engine.todo => status[t] = "closed" \/ Busy(t)
  /\ ~Waived /\ At({"work", "merge"}) =>
       \A t \in Tickets : Busy(t) =>
         /\ wave[t] # 0 /\ \A v \in engine.todo : wave[t] < v
         /\ \A u \in Tickets : Busy(u) => wave[u] = wave[t]

\* A workspace is set up anew only for a run whose sandbox was not found.
Found == "unfound" \notin history => sandbox.row \in {"new", "used"}

CodeInv ==
  /\ TypeOK /\ Phases /\ Naming /\ OnePlan /\ Real /\ Layering /\ LaidOut /\ Coding /\ Behind
  /\ Found /\ ClosedIsMerged

-----------------------------------------------------------------------------
(* Types *)

LEMMA InitTyped == Init => TypeOK
BY CodePhaseAssumption DEF Init, TypeOK, Phase, Status, Engine, Down, Present, Sandbox


\* TypeOK by what it is about.
TablesOK ==
  /\ status \in [Tickets -> Status]
  /\ lease \in [Tickets -> {"none", "live", "lapsed"}]
  /\ \A t \in Tickets : lease[t] # "none" => status[t] = "claimed"
  /\ deps \in [Tickets -> SUBSET Present]
  /\ owns \in [Tickets -> SUBSET Paths]
WavesOK == rows \subseteq Nat \ {0} /\ wave \in [Tickets -> Nat]
RunOK ==
  /\ backend \in {"railway", "docker"} /\ sandbox \in Sandbox
  /\ done \subseteq Phase /\ current \in Phase
  /\ plan \in Plans \cup {NoPlan}
  /\ history \subseteq {"skipped", "robbed", "partial", "replanned", "copied", "cut", "unfound"}
CodersOK ==
  /\ coder \in [Tickets -> {"idle", "waiting", "coding", "ok", "failed", "merged"}]
  /\ head \subseteq Tickets

LEMMA TypeParts == TypeOK <=> TablesOK /\ WavesOK /\ RunOK /\ CodersOK /\ engine \in Engine
BY DEF TypeOK, TablesOK, WavesOK, RunOK, CodersOK

LEMMA TablesStep ==
  ASSUME TypeOK, [Next]_vars, Real, Naming, Phases
  PROVE  TablesOK'
<1> USE DEF TypeOK, Status, Present, TablesOK
<1>1. CASE \E t \in Tickets : CreateTicket(t)
  <2> PICK t \in Tickets : CreateTicket(t)
    BY <1>1
  <2>1. plan \in Plans
    BY DEF CreateTicket, Phases, At
  <2>2. plan.owns[TitleOf[t]] \in SUBSET Paths
    BY <2>1, CodePhaseAssumption
  <2> QED
    BY <2>2 DEF CreateTicket
<1>2. CASE \E t, d \in Tickets : AddDependency(t, d)
  BY <1>2 DEF AddDependency, Dependencies, Naming
<1>3. CASE \E t \in Tickets : Claim(t)
  <2> PICK t \in Tickets : Claim(t)
    BY <1>3
  <2> DEFINE swept == [u \in Tickets |-> IF u \in Lapsed THEN "ready" ELSE status[u]]
  <2>1. CASE swept[t] = "ready"
    <3>1. /\ status' = [swept EXCEPT ![t] = "claimed"]
          /\ lease' = [u \in Tickets |-> IF u = t THEN "live" ELSE IF u \in Lapsed THEN "none" ELSE lease[u]]
          /\ deps' = deps /\ owns' = owns
      BY <2>1 DEF Claim
    <3>2. status' \in [Tickets -> Status] /\ lease' \in [Tickets -> {"none", "live", "lapsed"}]
      BY <3>1
    <3>3. \A u \in Tickets : lease'[u] # "none" => status'[u] = "claimed"
      BY <3>1 DEF Lapsed
    <3>4. Present' = Present
      BY <2>1, <3>1 DEF Lapsed
    <3> QED
      BY <3>1, <3>2, <3>3, <3>4
  <2>2. CASE swept[t] # "ready"
    BY <2>2 DEF Claim
  <2> QED
    BY <2>1, <2>2
<1>4. CASE \E t \in Tickets : Lapse(t)
  BY <1>4 DEF Lapse
<1>5. CASE \E t \in Tickets : Fail(t)
  <2> PICK t \in Tickets : Fail(t)
    BY <1>5
  <2>1. deps' = deps /\ owns' = owns
    BY DEF Fail
  <2>2. CASE UNCHANGED <<status, lease>>
    BY <2>1, <2>2
  <2>3. CASE /\ lease' = [lease EXCEPT ![t] = "none"]
             /\ status' = IF lease[t] = "none" THEN status ELSE [status EXCEPT ![t] = "ready"]
    <3>1. status' \in [Tickets -> Status] /\ Present' = Present
      BY <2>3
    <3> QED
      BY <2>1, <2>3, <3>1
  <2> QED
    BY <2>2, <2>3 DEF Fail
<1>6. CASE \E t \in Tickets : Close(t)
  <2> PICK t \in Tickets : Close(t)
    BY <1>6
  <2>1. /\ lease' = [lease EXCEPT ![t] = "none"] /\ deps' = deps /\ owns' = owns
        /\ status' = [status EXCEPT ![t] = "closed"]
    BY DEF Close
  <2>2. status' \in [Tickets -> Status] /\ Present \subseteq Present'
    BY <2>1
  <2> QED
    BY <2>1, <2>2
<1>7. CASE UNCHANGED <<status, lease, deps, owns>>
  BY <1>7
<1> QED
  BY <1>1, <1>2, <1>3, <1>4, <1>5, <1>6, <1>7
  DEF Next, EngineStep, vars, db, Resume, ResumeFrom, PlanTickets, FindTickets, Linked, DropWaves, Retry,
      NewSandbox, OpenUnfound, ClaimFails, OpenSandbox, ListWaves, CodeDone, WaveDone, NewWave, Assign, WavesDone, NextWave, Join, Merge,
      Succeed, Stop, OtherRunPlans

LEMMA WavesStep ==
  ASSUME TypeOK, [Next]_vars
  PROVE  WavesOK'
<1> USE DEF TypeOK, WavesOK, Engine
<1>1. CASE NewWave
  BY <1>1 DEF NewWave
<1>2. CASE \E t \in Tickets : Assign(t)
  BY <1>2 DEF Assign
<1>3. CASE DropWaves \/ OtherRunPlans
  BY <1>3 DEF DropWaves, OtherRunPlans
<1>4. CASE UNCHANGED <<rows, wave>>
  BY <1>4
<1> QED
  BY <1>1, <1>2, <1>3, <1>4
  DEF Next, EngineStep, vars, db, Resume, ResumeFrom, PlanTickets, FindTickets, CreateTicket, AddDependency,
      Linked, NewSandbox, OpenUnfound, ClaimFails, Retry, OpenSandbox, ListWaves, CodeDone, WaveDone, WavesDone, NextWave, Join, Merge, Close,
      Claim, Lapse, Succeed, Fail, Stop

LEMMA RunStep ==
  ASSUME TypeOK, [Next]_vars
  PROVE  RunOK'
<1> USE DEF TypeOK, RunOK, Phase, Note
<1>1. CASE Resume \/ \E p \in Phase : ResumeFrom(p)
  BY <1>1 DEF Resume, ResumeFrom, Begin, place
<1>2. CASE PlanTickets
  BY <1>2 DEF PlanTickets, place
<1>3. CASE WavesDone \/ CodeDone
  BY <1>3 DEF WavesDone, CodeDone, place
<1>4. CASE Stop \/ OtherRunPlans
  BY <1>4 DEF Stop, OtherRunPlans, place
<1>5. CASE FindTickets \/ NewSandbox \/ OpenUnfound
  <2>1. CASE FindTickets
    BY <2>1 DEF FindTickets, place
  <2>2. CASE NewSandbox
    <3>1. sandbox' \in Sandbox
      BY <2>2 DEF NewSandbox, Sandbox
    <3>2. UNCHANGED <<backend, done, current, plan>> /\ history' = history \cup {"unfound"}
      BY <2>2 DEF NewSandbox
    <3> QED
      BY <3>1, <3>2
  <2>3. CASE OpenUnfound
    <3>1. sandbox' \in Sandbox
      BY <2>3 DEF OpenUnfound, Sandbox
    <3>2. UNCHANGED <<backend, done, current, plan>> /\ history' = history \cup {"unfound"}
      BY <2>3 DEF OpenUnfound
    <3> QED
      BY <3>1, <3>2
  <2> QED
    BY <1>5, <2>1, <2>2, <2>3
<1>6. CASE OpenSandbox
  BY <1>6 DEF OpenSandbox, Sandbox
<1>7. CASE UNCHANGED <<place, done, current, plan, history>>
  BY <1>7 DEF place
<1> QED
  BY <1>1, <1>2, <1>3, <1>4, <1>5, <1>6, <1>7
  DEF Next, EngineStep, vars, CreateTicket, AddDependency, Linked, DropWaves, NewWave, Assign, Retry,
      ClaimFails, ListWaves, WaveDone, NextWave, Join, Merge, Close, Claim, Lapse, Succeed, Fail

LEMMA CodersStep ==
  ASSUME TypeOK, [Next]_vars
  PROVE  CodersOK'
<1> USE DEF TypeOK, CodersOK
<1>1. CASE NextWave \/ Join \/ Stop
  BY ZenonT(60), <1>1 DEF NextWave, Join, Stop
<1>2. CASE \E t \in Tickets : Claim(t) \/ ClaimFails(t) \/ Succeed(t) \/ Fail(t) \/ Merge(t) \/ Close(t)
  BY <1>2 DEF Claim, ClaimFails, Succeed, Fail, Merge, Close
<1>3. CASE OpenSandbox \/ OpenUnfound \/ NewSandbox
  BY <1>3 DEF OpenSandbox, Workspace, OpenUnfound, NewSandbox
<1>4. CASE UNCHANGED <<coder, head>>
  BY <1>4
<1> QED
  BY <1>1, <1>2, <1>3, <1>4
  DEF Next, EngineStep, vars, Resume, ResumeFrom, PlanTickets, FindTickets, CreateTicket, AddDependency, Linked, DropWaves,
      NewWave, Assign, WavesDone, Retry, ListWaves, WaveDone, CodeDone, Lapse, OtherRunPlans

LEMMA EngineStepTyped ==
  ASSUME TypeOK, [Next]_vars
  PROVE  engine' \in Engine
<1> USE DEF TypeOK, Engine, Goes, Down
<1>1. CASE Resume \/ \E p \in Phase : ResumeFrom(p)
  BY <1>1 DEF Resume, ResumeFrom, Begin
<1>2. CASE PlanTickets \/ Linked \/ DropWaves \/ Retry \/ OpenSandbox \/ OpenUnfound \/ CodeDone \/ WaveDone
           \/ Join \/ Stop
  BY <1>2 DEF PlanTickets, Linked, DropWaves, Retry, OpenSandbox, OpenUnfound, CodeDone, WaveDone, Join, Stop
<1>3. CASE NewWave
  <2>1. Rest \subseteq Tickets /\ Unblocked \subseteq Tickets
    BY DEF Rest, Unblocked, Present
  <2> DEFINE l == IF Unblocked = {} THEN Rest ELSE Unblocked
  <2>2. l \subseteq Tickets
    BY <2>1
  <2>3. engine' = [engine EXCEPT !.pc = "assign", !.wave = engine.wave + 1, !.layer = l]
    BY <1>3 DEF NewWave
  <2> DEFINE w == engine.wave + 1
  <2>4. w \in Nat
    OBVIOUS
  <2>5. engine' = [engine EXCEPT !.pc = "assign", !.wave = w, !.layer = l]
    BY <2>3
  <2> HIDE DEF l, w
  <2> QED
    BY <2>2, <2>4, <2>5
<1>4. CASE \E t \in Tickets : Assign(t)
  <2> PICK t \in Tickets : Assign(t)
    BY <1>4
  <2>1. CASE engine.layer = {t}
    BY <2>1 DEF Assign
  <2>2. CASE engine.layer # {t}
    BY <2>2 DEF Assign
  <2> QED
    BY <2>1, <2>2
<1>5. CASE WavesDone
  <2>1. CASE current = "ticketize"
    BY <1>5, <2>1 DEF WavesDone
  <2>2. CASE current # "ticketize"
    <3> DEFINE all == 1..engine.wave
    <3>1. all \subseteq Nat
      OBVIOUS
    <3>2. engine' = [Down EXCEPT !.pc = "next", !.todo = all]
      BY <1>5, <2>2 DEF WavesDone
    <3> HIDE DEF all
    <3> QED
      BY <3>1, <3>2
  <2> QED
    BY <2>1, <2>2
<1>6. CASE ListWaves \/ NextWave
  <2>1. CASE ListWaves
    BY <2>1 DEF ListWaves
  <2>2. CASE NextWave
    <3> PICK w \in engine.todo :
          engine' = [engine EXCEPT !.todo = engine.todo \ {w},
                                   !.pc = IF ToWork(w) = {} THEN "next" ELSE "work"]
      BY <2>2 DEF NextWave
    <3>1. CASE ToWork(w) = {}
      BY <3>1
    <3>2. CASE ToWork(w) # {}
      BY <3>2
    <3> QED
      BY <3>1, <3>2
  <2> QED
    BY <1>6, <2>1, <2>2
<1>7. CASE FindTickets \/ \E t \in Tickets : CreateTicket(t)
  <2>1. Latest \subseteq Tickets
    BY DEF Latest, Present
  <2>2. CASE FindTickets
    BY <2>1, <2>2 DEF FindTickets
  <2>3. ASSUME NEW t \in Tickets, CreateTicket(t) PROVE engine' \in Engine
    BY <2>3 DEF CreateTicket
  <2> QED
    BY <1>7, <2>2, <2>3
<1>8. CASE UNCHANGED engine
  BY <1>8
<1> QED
  BY <1>1, <1>2, <1>3, <1>4, <1>5, <1>6, <1>7, <1>8
  DEF Next, EngineStep, vars, NewSandbox, AddDependency, Merge, Close, Claim, ClaimFails, Lapse, Succeed, Fail,
      OtherRunPlans

LEMMA TypeStep ==
  ASSUME TypeOK, [Next]_vars, Real, Naming, Phases
  PROVE  TypeOK'
<1>1. TablesOK' /\ WavesOK' /\ RunOK' /\ CodersOK' /\ engine' \in Engine
  BY TablesStep, WavesStep, RunStep, CodersStep, EngineStepTyped
<1> QED
  BY <1>1, TypeParts DEF TypeOK, TablesOK, WavesOK, RunOK, CodersOK, Engine, Status, Present, Phase

-----------------------------------------------------------------------------
(* Where the engine is *)

EngineIs(pc, assigned, layer, w, todo) ==
  /\ engine'.pc = pc /\ engine'.assigned = assigned /\ engine'.layer = layer
  /\ engine'.wave = w /\ engine'.todo = todo

\* What each action makes of the engine, field by field.
LEMMA PlainMoves ==
  ASSUME TypeOK
  PROVE  LET To(pc) == EngineIs(pc, engine.assigned, engine.layer, engine.wave, engine.todo) IN
         /\ Resume => To(IF current \in done \/ current # "ticketize" THEN "open" ELSE "plan")
         /\ \A p \in Phase : ResumeFrom(p) => To(IF p = "ticketize" THEN "plan" ELSE "open")
         /\ PlanTickets => To("find")
         /\ FindTickets \/ (\E t \in Tickets : CreateTicket(t)) => To("create")
         /\ Linked => To("drop")
         /\ Retry => To(IF engine.pc = "create" THEN "find" ELSE "drop")
         /\ DropWaves => EngineIs("layer", {}, {}, 0, {})
         /\ OpenSandbox \/ OpenUnfound => To("list")
         /\ WaveDone => To("next")
         /\ CodeDone \/ Stop => EngineIs("down", {}, {}, 0, {})
         /\ Join /\ Coders("failed") = {} => To("merge")
         /\ Join /\ Coders("failed") # {} => EngineIs("down", {}, {}, 0, {})
<1> USE DEF TypeOK, Engine, EngineIs, Goes, Down, Phase
<1>1. Resume => EngineIs(IF current \in done \/ current # "ticketize" THEN "open" ELSE "plan", engine.assigned,
                         engine.layer, engine.wave, engine.todo)
  BY DEF Resume, Begin
<1>2. \A p \in Phase : ResumeFrom(p) =>
         EngineIs(IF p = "ticketize" THEN "plan" ELSE "open", engine.assigned, engine.layer, engine.wave, engine.todo)
  BY DEF ResumeFrom, Begin
<1>3. FindTickets => EngineIs("create", engine.assigned, engine.layer, engine.wave, engine.todo)
  BY DEF FindTickets
<1>4. \A t \in Tickets : CreateTicket(t) =>
         EngineIs("create", engine.assigned, engine.layer, engine.wave, engine.todo)
  BY DEF CreateTicket
<1>5. Retry => EngineIs(IF engine.pc = "create" THEN "find" ELSE "drop", engine.assigned, engine.layer,
                        engine.wave, engine.todo)
  BY DEF Retry
<1> QED
  BY <1>1, <1>2, <1>3, <1>4, <1>5
  DEF PlanTickets, Linked, DropWaves, OpenSandbox, OpenUnfound, WaveDone, CodeDone, Stop, Join

LEMMA LayerMoves ==
  ASSUME TypeOK
  PROVE  /\ NewWave => EngineIs("assign", engine.assigned, IF Unblocked = {} THEN Rest ELSE Unblocked,
                                engine.wave + 1, engine.todo)
         /\ \A t \in Tickets : Assign(t) =>
              EngineIs(IF engine.layer = {t} THEN "layer" ELSE "assign", engine.assigned \cup {t},
                       engine.layer \ {t}, engine.wave, engine.todo)
<1> USE DEF TypeOK, Engine, EngineIs
<1>1. NewWave => EngineIs("assign", engine.assigned, IF Unblocked = {} THEN Rest ELSE Unblocked,
                          engine.wave + 1, engine.todo)
  <2> DEFINE l == IF Unblocked = {} THEN Rest ELSE Unblocked
             w == engine.wave + 1
  <2>1. NewWave => engine' = [engine EXCEPT !.pc = "assign", !.wave = w, !.layer = l]
    BY DEF NewWave
  <2> HIDE DEF l, w
  <2>2. NewWave => EngineIs("assign", engine.assigned, l, w, engine.todo)
    BY <2>1
  <2> QED
    BY <2>2 DEF l, w
<1>2. ASSUME NEW t \in Tickets, Assign(t)
      PROVE  EngineIs(IF engine.layer = {t} THEN "layer" ELSE "assign", engine.assigned \cup {t},
                      engine.layer \ {t}, engine.wave, engine.todo)
  BY <1>2 DEF Assign
<1> QED
  BY <1>1, <1>2

LEMMA WaveMoves ==
  ASSUME TypeOK
  PROVE  /\ WavesDone /\ current = "ticketize" => EngineIs("open", {}, {}, 0, {})
         /\ WavesDone /\ current # "ticketize" => EngineIs("next", {}, {}, 0, 1..engine.wave)
         /\ ListWaves /\ rows = {} =>
              EngineIs("drop", engine.assigned, engine.layer, engine.wave, engine.todo)
         /\ ListWaves /\ rows # {} => EngineIs("next", engine.assigned, engine.layer, engine.wave, rows)
         /\ NextWave => \E w \in engine.todo :
              /\ \A v \in engine.todo : w <= v
              /\ EngineIs(IF ToWork(w) = {} THEN "next" ELSE "work", engine.assigned, engine.layer,
                          engine.wave, engine.todo \ {w})
              /\ coder' = [t \in Tickets |-> IF t \in ToWork(w) THEN "waiting" ELSE "idle"]
<1> USE DEF TypeOK, Engine, EngineIs, Down
<1>1. WavesDone /\ current = "ticketize" => EngineIs("open", {}, {}, 0, {})
  BY DEF WavesDone
<1>2. WavesDone /\ current # "ticketize" => EngineIs("next", {}, {}, 0, 1..engine.wave)
  <2> DEFINE all == 1..engine.wave
  <2>1. WavesDone /\ current # "ticketize" => engine' = [Down EXCEPT !.pc = "next", !.todo = all]
    BY DEF WavesDone
  <2> HIDE DEF all
  <2>2. WavesDone /\ current # "ticketize" => EngineIs("next", {}, {}, 0, all)
    BY <2>1
  <2> QED
    BY <2>2 DEF all
<1>3. /\ ListWaves /\ rows = {} => EngineIs("drop", engine.assigned, engine.layer, engine.wave, engine.todo)
      /\ ListWaves /\ rows # {} => EngineIs("next", engine.assigned, engine.layer, engine.wave, rows)
  BY DEF ListWaves
<1>4. ASSUME NextWave
      PROVE  \E w \in engine.todo :
              /\ \A v \in engine.todo : w <= v
              /\ EngineIs(IF ToWork(w) = {} THEN "next" ELSE "work", engine.assigned, engine.layer,
                          engine.wave, engine.todo \ {w})
              /\ coder' = [t \in Tickets |-> IF t \in ToWork(w) THEN "waiting" ELSE "idle"]
  <2> PICK w \in engine.todo :
        /\ \A v \in engine.todo : w <= v
        /\ engine' = [engine EXCEPT !.todo = engine.todo \ {w},
                                   !.pc = IF ToWork(w) = {} THEN "next" ELSE "work"]
        /\ coder' = [t \in Tickets |-> IF t \in ToWork(w) THEN "waiting" ELSE "idle"]
    BY <1>4 DEF NextWave
  <2>1. EngineIs(IF ToWork(w) = {} THEN "next" ELSE "work", engine.assigned, engine.layer,
                 engine.wave, engine.todo \ {w})
    OBVIOUS
  <2> QED
    BY <2>1
<1> QED
  BY <1>1, <1>2, <1>3, <1>4

\* Exceptions are never forgotten.
LEMMA HistoryGrows ==
  ASSUME [Next]_vars
  PROVE  /\ history \subseteq history'
         /\ ~Waived' => ~Waived
         /\ ~Replanned' => ~Replanned
         /\ ~Copied' => ~Copied
<1>1. history \subseteq history'
  BY DEF Next, EngineStep, vars, Note, Resume, ResumeFrom, PlanTickets, FindTickets, CreateTicket, AddDependency,
         Linked, NewSandbox, OpenUnfound, ClaimFails, DropWaves, NewWave, Assign, WavesDone, Retry, OpenSandbox, ListWaves, NextWave, CodeDone, Claim,
         Lapse, Succeed, Fail, Join, Merge, Close, WaveDone, Stop, OtherRunPlans
<1> QED
  BY <1>1 DEF Waived, Replanned, Copied

LEMMA PhasesStep ==
  ASSUME TypeOK, Phases, [Next]_vars
  PROVE  Phases'
<1> USE HistoryGrows DEF TypeOK, Phases, At, Phase, EngineIs, db
<1>1. CASE Resume
  BY <1>1, PlainMoves DEF Resume, Begin
<1>2. ASSUME NEW p \in Phase, ResumeFrom(p) PROVE Phases'
  <2>1. engine'.pc = IF p = "ticketize" THEN "plan" ELSE "open"
    BY <1>2, PlainMoves
  <2>2. p = "code" /\ "ticketize" \notin done => Waived'
    BY <1>2 DEF ResumeFrom, Note, Waived
  <2> QED
    BY <1>2, <2>1, <2>2 DEF ResumeFrom, Begin
<1>3. CASE PlanTickets
  BY <1>3, PlainMoves, CodePhaseAssumption DEF PlanTickets
<1>4. CASE Linked \/ Retry \/ WaveDone \/ OpenSandbox \/ OpenUnfound
  <2>1. CASE Linked
    BY <2>1, PlainMoves DEF Linked, Created
  <2>2. CASE Retry
    BY <2>2, PlainMoves DEF Retry
  <2>3. CASE WaveDone \/ OpenSandbox \/ OpenUnfound
    BY <2>3, PlainMoves DEF WaveDone, OpenSandbox, OpenUnfound
  <2> QED
    BY <1>4, <2>1, <2>2, <2>3
<1>5. CASE DropWaves \/ Join \/ Stop \/ CodeDone
  BY <1>5, PlainMoves DEF DropWaves, Join, Stop, CodeDone
<1>6. CASE NewWave \/ \E t \in Tickets : Assign(t)
  BY <1>6, LayerMoves DEF NewWave, Assign
<1>7. CASE ListWaves \/ NextWave
  BY <1>7, WaveMoves DEF ListWaves, NextWave
<1>8. CASE WavesDone
  BY <1>8, WaveMoves DEF WavesDone
<1>9. CASE OtherRunPlans
  BY <1>9 DEF OtherRunPlans
<1>10. CASE FindTickets \/ \E t \in Tickets : CreateTicket(t)
  BY <1>10, PlainMoves DEF FindTickets, CreateTicket
<1>11. CASE UNCHANGED <<done, current, plan, engine, rows>>
  BY <1>11
<1> QED
  BY <1>1, <1>2, <1>3, <1>4, <1>5, <1>6, <1>7, <1>8, <1>9, <1>10, <1>11
  DEF Next, EngineStep, vars, NewSandbox, AddDependency, Merge, Close, Claim, ClaimFails, Lapse, Succeed, Fail

-----------------------------------------------------------------------------
(* The plan *)

\* Tickets appear in CreateTicket only, and no ticket is ever taken away.
LEMMA PresentGrows ==
  ASSUME TypeOK, Real, [Next]_vars
  PROVE  /\ Present \subseteq Present'
         /\ ~(\E t \in Tickets : CreateTicket(t)) => Present' = Present /\ owns' = owns
<1> USE DEF TypeOK, Present
<1>1. CASE \E t \in Tickets : CreateTicket(t)
  BY <1>1 DEF CreateTicket
<1>2. CASE \E t \in Tickets : Claim(t)
  <2> PICK t \in Tickets : Claim(t)
    BY <1>2
  <2> DEFINE swept == [u \in Tickets |-> IF u \in Lapsed THEN "ready" ELSE status[u]]
  <2>1. \A u \in Tickets : swept[u] # "none" <=> status[u] # "none"
    BY DEF Lapsed
  <2>2. CASE swept[t] = "ready"
    <3>1. status' = [swept EXCEPT ![t] = "claimed"] /\ owns' = owns
      BY <2>2 DEF Claim
    <3> QED
      BY <2>1, <2>2, <3>1
  <2>3. CASE swept[t] # "ready"
    BY <2>3 DEF Claim
  <2> QED
    BY <2>2, <2>3
<1>3. CASE \E t \in Tickets : Fail(t)
  BY <1>3 DEF Fail
<1>4. CASE \E t \in Tickets : Close(t)
  BY <1>4 DEF Close, Real, Busy
<1>5. CASE UNCHANGED <<status, owns>>
  BY <1>5
<1> QED
  BY <1>1, <1>2, <1>3, <1>4, <1>5
  DEF Next, EngineStep, vars, db, Resume, ResumeFrom, PlanTickets, FindTickets, AddDependency, Linked, DropWaves,
      Retry, NewSandbox, OpenUnfound, ClaimFails, OpenSandbox, ListWaves, CodeDone, WaveDone, NewWave, Assign, WavesDone, NextWave, Join, Merge,
      Lapse, Succeed, Stop, OtherRunPlans

LEMMA NamingStep ==
  ASSUME TypeOK, Real, Naming, [Next]_vars
  PROVE  Naming'
<1> USE HistoryGrows, PresentGrows DEF TypeOK, At, Naming, Engine
<1>1. CASE \E t \in Tickets : CreateTicket(t)
  <2> PICK t \in Tickets : CreateTicket(t)
    BY <1>1
  <2>1. /\ Present' = Present \cup {t} /\ engine'.named = engine.named \cup {t}
        /\ TitleOf[t] \notin TitlesOf(engine.named) /\ engine.pc = "create"
    BY DEF CreateTicket, Present
  <2> QED
    BY <2>1 DEF TitlesOf
<1>2. CASE FindTickets
  <2>1. Latest \subseteq Present /\ Present' = Present
    BY <1>2 DEF Latest, FindTickets, db, Present
  <2>2. CASE engine'.named = Latest /\ history' = history
    <3>1. ~Copied => Latest = Present
      <4> SUFFICES ASSUME ~Copied, NEW t \in Present PROVE t \in Latest
        BY <2>1
      <4>1. t \in Nat
        BY CodePhaseAssumption DEF Present
      <4> QED
        BY <4>1 DEF Latest
    <3> QED
      BY <2>1, <2>2, <3>1
  <2>3. CASE engine'.named = {} /\ "copied" \in history'
    BY <2>1, <2>3 DEF Copied
  <2> QED
    BY <1>2, <2>2, <2>3 DEF FindTickets
<1>3. ASSUME ~(\E t \in Tickets : CreateTicket(t)), engine'.named \subseteq engine.named, engine'.pc # "create"
      PROVE  Naming'
  BY <1>3
<1>4. CASE \/ Resume \/ (\E p \in Phase : ResumeFrom(p)) \/ PlanTickets \/ Linked \/ DropWaves \/ Retry
           \/ OpenSandbox \/ OpenUnfound \/ WaveDone \/ CodeDone \/ Stop \/ Join
  <2>1. engine'.pc # "create"
    BY <1>4, PlainMoves DEF EngineIs
  <2>2. ~\E t \in Tickets : CreateTicket(t)
    BY <2>1, PlainMoves DEF EngineIs
  <2>3. engine'.named \subseteq engine.named
    BY <1>4
    DEF Resume, ResumeFrom, Begin, Goes, Down, PlanTickets, Linked, DropWaves, Retry, OpenSandbox, OpenUnfound,
        WaveDone, CodeDone, Stop, Join
  <2> QED
    BY <1>3, <2>1, <2>2, <2>3
<1>5. CASE NewWave \/ (\E t \in Tickets : Assign(t)) \/ WavesDone \/ ListWaves \/ NextWave
  <2>1. engine'.pc # "create"
    BY <1>5, LayerMoves, WaveMoves DEF EngineIs, WavesDone
  <2>2. ~\E t \in Tickets : CreateTicket(t)
    BY <2>1, PlainMoves DEF EngineIs
  <2>3. CASE NewWave \/ ListWaves \/ NextWave
    <3>1. engine'.named = engine.named
      <4>1. CASE NewWave
        BY <4>1 DEF NewWave
      <4>2. CASE ListWaves
        BY <4>2 DEF ListWaves
      <4>3. CASE NextWave
        BY <4>3 DEF NextWave
      <4> QED
        BY <2>3, <4>1, <4>2, <4>3
    <3> QED
      BY <1>3, <2>1, <2>2, <3>1
  <2>4. ASSUME NEW t \in Tickets, Assign(t) PROVE Naming'
    <3>1. engine'.named = engine.named
      BY <2>4 DEF Assign
    <3> QED
      BY <1>3, <2>1, <2>2, <3>1
  <2>5. CASE WavesDone
    <3>1. engine'.named = {}
      BY <2>5 DEF WavesDone, Down
    <3> QED
      BY <1>3, <2>1, <2>2, <3>1
  <2> QED
    BY <1>5, <2>3, <2>4, <2>5
<1>6. CASE UNCHANGED engine /\ ~\E t \in Tickets : CreateTicket(t)
  BY <1>6
<1> QED
  BY <1>1, <1>2, <1>4, <1>5, <1>6
  DEF Next, EngineStep, vars, NewSandbox, AddDependency, Merge, Close, Claim, ClaimFails, Lapse, Succeed, Fail,
      OtherRunPlans

LEMMA OnePlanStep ==
  ASSUME TypeOK, Phases, Real, Naming, OnePlan, [Next]_vars
  PROVE  OnePlan'
<1> USE HistoryGrows, PresentGrows DEF TypeOK, At, OnePlan, Planned, Phase, EngineIs, db
<1>1. CASE PlanTickets
  <2> PICK p \in Plans : Accepted(p) /\ plan' = p /\ Note("replanned", plan \notin {NoPlan, p})
    BY <1>1 DEF PlanTickets
  <2>1. ~Replanned' => plan \in {NoPlan, p}
    BY DEF Note, Replanned
  <2>2. ~Planned' /\ p # NoPlan
    BY <1>1, PlainMoves, CodePhaseAssumption DEF PlanTickets, Phases
  <2>3. status' = status /\ owns' = owns
    BY <1>1 DEF PlanTickets
  <2> QED
    BY <2>1, <2>2, <2>3 DEF Present, Accepted
<1>2. CASE \E t \in Tickets : CreateTicket(t)
  <2> PICK t \in Tickets : CreateTicket(t)
    BY <1>2
  <2>1. /\ Present' = Present \cup {t} /\ owns' = [owns EXCEPT ![t] = plan.owns[TitleOf[t]]]
        /\ TitleOf[t] \in plan.titles
    BY DEF CreateTicket, Present
  <2>2. plan # NoPlan /\ ~Planned' /\ plan' = plan
    BY PlainMoves DEF CreateTicket, Phases
  <2> QED
    BY <2>1, <2>2 DEF Present, Accepted
<1>3. CASE \E t, d \in Tickets : AddDependency(t, d)
  <2>1. ~Planned' /\ plan' = plan /\ Present' = Present /\ owns' = owns
    BY <1>3 DEF AddDependency, Created, Phases, Present
  <2> QED
    BY <2>1 DEF Accepted
<1>4. CASE Linked
  <2>1. plan # NoPlan /\ Created /\ \A t \in engine.named : TitleOf[t] \in plan.titles => Dependencies(t) \subseteq deps[t]
    BY <1>4 DEF Linked, Created, Phases
  <2>2. ~Replanned /\ ~Copied => \A t, d \in Present : TitleOf[d] \in plan.deps[TitleOf[t]] => d \in deps[t]
    BY <2>1 DEF Created, Naming, Dependencies
  <2>3. UNCHANGED <<plan, status, owns, deps>>
    BY <1>4 DEF Linked
  <2> QED
    BY <2>1, <2>2, <2>3 DEF Present, Accepted
<1>5. CASE Resume
  <2>1. Planned' => Planned
    BY <1>5, PlainMoves DEF Resume, Begin, Phases
  <2>2. UNCHANGED <<plan, status, owns, deps>>
    BY <1>5 DEF Resume
  <2> QED
    BY <2>1, <2>2 DEF Present, Accepted
<1>6. ASSUME NEW p \in Phase, ResumeFrom(p) PROVE OnePlan'
  <2>1. ~Waived' /\ p = "code" => "ticketize" \in done
    BY <1>6 DEF ResumeFrom, Note, Waived
  <2>2. Planned' => p = "code"
    BY <1>6, PlainMoves DEF ResumeFrom, Begin
  <2>3. UNCHANGED <<plan, status, owns, deps>>
    BY <1>6 DEF ResumeFrom
  <2> QED
    BY <2>1, <2>2, <2>3 DEF Present, Accepted, Phases
<1>7. ASSUME UNCHANGED <<plan, deps>>, Planned' => Planned, Present' = Present, owns' = owns PROVE OnePlan'
  BY <1>7 DEF Accepted
<1>8. CASE DropWaves \/ Retry \/ OpenSandbox \/ OpenUnfound \/ CodeDone \/ WaveDone \/ Join \/ Stop \/ FindTickets
  <2>1. Planned' => Planned
    BY <1>8, PlainMoves DEF DropWaves, Retry, OpenSandbox, OpenUnfound, CodeDone, WaveDone, Join, Stop, FindTickets
  <2> QED
    BY <1>7, <1>8, <2>1
    DEF DropWaves, Retry, OpenSandbox, OpenUnfound, CodeDone, WaveDone, Join, Stop, FindTickets, Present
<1>9. CASE NewWave \/ WavesDone \/ ListWaves \/ NextWave \/ \E t \in Tickets : Assign(t)
  <2>1. Planned
    BY <1>9 DEF NewWave, WavesDone, ListWaves, NextWave, Assign, Phases
  <2>2. UNCHANGED <<plan, deps, status, owns>>
    BY <1>9 DEF NewWave, WavesDone, ListWaves, NextWave, Assign
  <2> QED
    BY <1>7, <2>1, <2>2 DEF Present
<1>10. CASE UNCHANGED <<plan, deps, current, engine>> /\ ~\E t \in Tickets : CreateTicket(t)
  BY <1>7, <1>10
<1> QED
  BY <1>1, <1>2, <1>3, <1>4, <1>5, <1>6, <1>8, <1>9, <1>10
  DEF Next, EngineStep, vars, NewSandbox, Merge, Close, Claim, ClaimFails, Lapse, Succeed, Fail, OtherRunPlans

LEMMA RealStep ==
  ASSUME TypeOK, Phases, Real, [Next]_vars
  PROVE  Real'
<1> USE PresentGrows DEF TypeOK, At, Real, Busy, EngineIs, db
<1>1. CASE NewWave
  <2>1. engine'.layer \subseteq Present /\ engine'.todo = engine.todo
    BY <1>1, LayerMoves DEF Rest, Unblocked
  <2> QED
    BY <1>1, <2>1 DEF NewWave
<1>2. CASE \E t \in Tickets : Assign(t)
  <2> PICK t \in Tickets : Assign(t)
    BY <1>2
  <2>1. t \in Present /\ engine'.layer \subseteq engine.layer /\ engine'.todo = engine.todo
    BY LayerMoves DEF Assign
  <2>2. coder' = coder /\ \A u \in Tickets : u # t => wave'[u] = wave[u]
    BY DEF Assign
  <2> QED
    BY <2>1, <2>2
<1>3. CASE NextWave
  <2> PICK w \in engine.todo :
        /\ EngineIs(IF ToWork(w) = {} THEN "next" ELSE "work", engine.assigned, engine.layer,
                    engine.wave, engine.todo \ {w})
        /\ coder' = [t \in Tickets |-> IF t \in ToWork(w) THEN "waiting" ELSE "idle"]
    BY <1>3, WaveMoves
  <2> QED
    BY <1>3 DEF NextWave, ToWork
<1>4. CASE WavesDone \/ ListWaves
  <2>1. engine'.layer \subseteq Present /\ 0 \notin engine'.todo
    BY <1>4, WaveMoves DEF WavesDone, ListWaves, Engine
  <2> QED
    BY <1>4, <2>1 DEF WavesDone, ListWaves
<1>5. CASE DropWaves \/ CodeDone \/ Join \/ Stop
  BY <1>5, PlainMoves DEF DropWaves, CodeDone, Join, Stop
<1>6. CASE \/ Linked \/ Retry \/ OpenSandbox \/ OpenUnfound \/ WaveDone \/ PlanTickets \/ FindTickets
           \/ \E t \in Tickets : CreateTicket(t)
  BY <1>6, PlainMoves
  DEF Linked, Retry, OpenSandbox, OpenUnfound, WaveDone, PlanTickets, FindTickets, CreateTicket
<1>7. CASE Resume \/ \E p \in Phase : ResumeFrom(p)
  BY <1>7, PlainMoves DEF Resume, ResumeFrom
<1>8. CASE UNCHANGED engine /\ (UNCHANGED wave \/ wave' = [t \in Tickets |-> 0])
             /\ \A t \in Tickets : Busy(t)' => Busy(t)
  BY <1>8
<1>9. CASE \E t \in Tickets : Claim(t) \/ ClaimFails(t) \/ Succeed(t) \/ Fail(t) \/ Merge(t) \/ Close(t)
  <2>1. \A t \in Tickets : Busy(t)' => Busy(t)
    BY <1>9 DEF Claim, ClaimFails, Succeed, Fail, Merge, Close
  <2> QED
    BY <1>8, <1>9, <2>1 DEF Claim, ClaimFails, Succeed, Fail, Merge, Close
<1> QED
  BY <1>1, <1>2, <1>3, <1>4, <1>5, <1>6, <1>7, <1>8, <1>9
  DEF Next, EngineStep, vars, NewSandbox, AddDependency, Lapse, OtherRunPlans

-----------------------------------------------------------------------------
(* The waves *)

\* Dependencies are added while tickets are linked, and at no other time.
LEMMA DepsGrow ==
  ASSUME TypeOK, [Next]_vars
  PROVE  /\ \A t \in Tickets : deps[t] \subseteq deps'[t]
         /\ ~At({"create"}) => deps' = deps
         /\ \A t \in Tickets : Order!Knotted(t) => Order!Knotted(t)'
<1> USE DEF TypeOK
<1>1. (\A t \in Tickets : deps[t] \subseteq deps'[t]) /\ (~At({"create"}) => deps' = deps)
  <2>1. CASE \E t, d \in Tickets : AddDependency(t, d)
    BY <2>1 DEF AddDependency, Created, At
  <2>2. CASE UNCHANGED deps
    BY <2>2
  <2> QED
    BY <2>1, <2>2
    DEF Next, EngineStep, vars, db, Resume, ResumeFrom, PlanTickets, FindTickets, CreateTicket, Linked, DropWaves,
        NewWave, Assign, NewSandbox, OpenUnfound, ClaimFails, WavesDone, Retry, OpenSandbox, ListWaves, NextWave, CodeDone, Claim, Lapse, Succeed, Fail, Join, Merge,
        Close, WaveDone, Stop, OtherRunPlans
<1>2. ASSUME NEW t \in Tickets, Order!Knotted(t) PROVE Order!Knotted(t)'
  <2> PICK S \in SUBSET Tickets : t \in S /\ \A s \in S : deps[s] \cap S # {}
    BY <1>2 DEF Order!Knotted
  <2>1. \A s \in S : deps'[s] \cap S # {}
    BY <1>1
  <2> QED
    BY <2>1 DEF Order!Knotted
<1> QED
  BY <1>1, <1>2

\* When nothing that is left is free of what is left, all of it is in a knot.
LEMMA RestKnotted ==
  ASSUME TypeOK, Unblocked = {}
  PROVE  \A t \in Rest : Order!Knotted(t)
<1>1. \A s \in Rest : deps[s] \cap Rest # {}
  BY DEF Unblocked, Rest, TypeOK, Present
<1>2. Rest \in SUBSET Tickets
  BY DEF Rest, Present
<1> QED
  BY <1>1, <1>2 DEF Order!Knotted

LEMMA LayeringStep ==
  ASSUME TypeOK, Phases, Real, Layering, [Next]_vars
  PROVE  Layering'
<1> SUFFICES ASSUME ~Waived', At({"layer", "assign"})' PROVE Layering'
  BY DEF Layering
<1> USE HistoryGrows, DepsGrow DEF TypeOK, At, Engine, EngineIs, db
<1>1. CASE DropWaves
  BY <1>1, PlainMoves DEF DropWaves, Layering
<1>2. CASE NewWave
  <2>1. /\ EngineIs("assign", engine.assigned, IF Unblocked = {} THEN Rest ELSE Unblocked,
                    engine.wave + 1, engine.todo)
        /\ rows' = rows \cup {engine.wave + 1} /\ wave' = wave /\ Rest # {} /\ engine.pc = "layer"
    BY <1>2, LayerMoves DEF NewWave
  <2>2. /\ engine.assigned = {t \in Tickets : wave[t] # 0}
        /\ \A t \in Tickets : wave[t] <= engine.wave
    BY <2>1 DEF Layering
  <2>3. \A t \in engine'.layer : Order!Knotted(t)' \/ \A u \in deps'[t] : 0 < wave'[u] /\ wave'[u] < engine'.wave
    <3>1. CASE Unblocked = {}
      BY <2>1, <3>1, RestKnotted DEF Rest, Present
    <3>2. CASE Unblocked # {}
      <4> SUFFICES ASSUME NEW t \in Unblocked, NEW u \in deps[t] PROVE 0 < wave[u] /\ wave[u] < engine.wave + 1
        BY <2>1, <3>2
      <4>1. u \in engine.assigned
        BY DEF Unblocked
      <4>2. u \in Tickets /\ wave[u] # 0 /\ wave[u] <= engine.wave
        BY <2>2, <4>1
      <4>3. wave[u] \in Nat /\ engine.wave \in Nat
        BY <4>2
      <4> QED
        BY <4>2, <4>3
    <3> QED
      BY <3>1, <3>2
  <2>4. engine'.layer # {} /\ engine'.layer \cap engine'.assigned = {}
    BY <2>1 DEF Rest, Unblocked
  <2>5. \A t \in Tickets : wave'[t] <= engine'.wave
    <3> TAKE t \in Tickets
    <3>1. wave[t] \in Nat /\ engine.wave \in Nat
      OBVIOUS
    <3> QED
      BY <2>1, <2>2, <3>1
  <2> QED
    BY <2>1, <2>2, <2>3, <2>4, <2>5 DEF Layering
<1>3. CASE \E t \in Tickets : Assign(t)
  <2> PICK t \in Tickets : Assign(t)
    BY <1>3
  <2>1. /\ EngineIs(IF engine.layer = {t} THEN "layer" ELSE "assign", engine.assigned \cup {t},
                    engine.layer \ {t}, engine.wave, engine.todo)
        /\ wave' = [wave EXCEPT ![t] = engine.wave] /\ t \in engine.layer /\ engine.pc = "assign"
        /\ rows' = rows /\ deps' = deps
    BY LayerMoves DEF Assign
  <2>2. /\ engine.assigned = {u \in Tickets : wave[u] # 0}
        /\ \A u \in Tickets : wave[u] <= engine.wave
        /\ engine.layer \cap engine.assigned = {}
        /\ engine.wave \in rows
        /\ \A u \in engine.layer :
              Order!Knotted(u) \/ \A v \in deps[u] : 0 < wave[v] /\ wave[v] < engine.wave
    BY <2>1 DEF Layering
  <2>3. engine.wave \in Nat \ {0}
    BY <2>2
  <2>4. engine'.assigned = {u \in Tickets : wave'[u] # 0}
    BY <2>1, <2>2, <2>3
  <2>5. \A u \in Tickets : wave'[u] <= engine'.wave
    BY <2>1, <2>2, <2>3
  <2>6. \A u \in engine'.layer : Order!Knotted(u)' \/ \A v \in deps'[u] : 0 < wave'[v] /\ wave'[v] < engine'.wave
    <3> SUFFICES ASSUME NEW u \in engine.layer, ~Order!Knotted(u), NEW v \in deps[u]
                 PROVE  wave'[v] = wave[v]
      BY <2>1, <2>2
    <3>1. 0 < wave[v]
      BY <2>2
    <3>2. v # t
      BY <2>1, <2>2, <3>1
    <3> QED
      BY <2>1, <3>2
  <2>7. engine'.layer \cap engine'.assigned = {} /\ (engine'.pc = "assign" => engine'.layer # {})
    BY <2>1, <2>2
  <2> QED
    BY <2>1, <2>2, <2>4, <2>5, <2>6, <2>7 DEF Layering
<1>4. CASE UNCHANGED <<engine, wave, rows, deps>>
  BY <1>4 DEF Layering, Order!Knotted
<1>5. CASE OtherRunPlans
  BY <1>5 DEF OtherRunPlans, Note, Waived
<1> QED
  <2>1. ASSUME Resume \/ (\E p \in Phase : ResumeFrom(p)) \/ PlanTickets \/ FindTickets \/ Linked \/ Retry
               \/ OpenSandbox \/ OpenUnfound \/ WaveDone \/ CodeDone \/ Stop \/ Join
               \/ \E t \in Tickets : CreateTicket(t)
        PROVE  FALSE
    BY <2>1, PlainMoves
  <2>2. ~WavesDone /\ ~ListWaves /\ ~NextWave
    BY WaveMoves
  <2>3. ~\E t, d \in Tickets : AddDependency(t, d)
    BY DEF AddDependency, Created
  <2> QED
    BY <1>1, <1>2, <1>3, <1>4, <1>5, <2>1, <2>2, <2>3
    DEF Next, EngineStep, vars, NewSandbox, Merge, Close, Claim, ClaimFails, Lapse, Succeed, Fail

\* Where the waves of the run, as they are in use, are complete.
Complete ==
  current = "code" /\ (At({"next", "work", "merge"}) \/ (At({"down", "open", "list"}) /\ rows # {}))

\* A ticket that is laid out stays behind those it depends on.
LEMMA PlacedStep ==
  ASSUME TypeOK, Phases, Real, Layering, LaidOut, [Next]_vars, ~Waived', Waves'
  PROVE  \A t \in Tickets : wave'[t] # 0 => Placed(t)' /\ wave'[t] \in rows'
<1> USE HistoryGrows, DepsGrow DEF TypeOK, At, Engine, EngineIs, Placed
<1>1. CASE DropWaves \/ OtherRunPlans
  BY <1>1 DEF DropWaves, OtherRunPlans
<1>2. CASE \E t \in Tickets : Assign(t)
  <2> PICK t \in Tickets : Assign(t)
    BY <1>2
  <2>1. /\ wave' = [wave EXCEPT ![t] = engine.wave] /\ t \in engine.layer /\ engine.pc = "assign"
        /\ rows' = rows /\ deps' = deps
    BY DEF Assign
  <2>2. /\ engine.assigned = {u \in Tickets : wave[u] # 0} /\ engine.layer \cap engine.assigned = {}
        /\ engine.wave \in rows
        /\ Order!Knotted(t) \/ \A u \in deps[t] : 0 < wave[u] /\ wave[u] < engine.wave
    BY <2>1 DEF Layering
  <2>3. \A u \in Tickets : wave[u] # 0 => Placed(u) /\ wave[u] \in rows
    BY <2>1 DEF LaidOut, Waves
  <2>4. \A u \in Tickets : \A v \in deps[u] : 0 < wave[v] => wave'[v] = wave[v]
    BY <2>1, <2>2
  <2>5. Placed(t)'
    BY <2>1, <2>2, <2>4
  <2>6. \A u \in Tickets : u # t /\ wave'[u] # 0 => Placed(u)'
    BY <2>1, <2>3, <2>4
  <2> QED
    BY <2>1, <2>2, <2>3, <2>5, <2>6
<1>3. ASSUME Waves, UNCHANGED <<wave, deps>>, rows \subseteq rows'
      PROVE  \A t \in Tickets : wave'[t] # 0 => Placed(t)' /\ wave'[t] \in rows'
  BY <1>3 DEF LaidOut
<1>4. CASE NewWave \/ WavesDone \/ ListWaves \/ OpenSandbox \/ OpenUnfound \/ NextWave \/ WaveDone \/ CodeDone
  <2>1. Waves
    BY <1>4 DEF Waves, Phases, NewWave, WavesDone, ListWaves, OpenSandbox, OpenUnfound, NextWave, WaveDone, CodeDone
  <2>2. UNCHANGED <<wave, deps>> /\ rows \subseteq rows'
    BY <1>4 DEF NewWave, WavesDone, ListWaves, OpenSandbox, OpenUnfound, NextWave, WaveDone, CodeDone, db
  <2> QED
    BY <1>3, <2>1, <2>2
<1>5. CASE PlanTickets \/ FindTickets \/ Linked \/ Retry \/ Join \/ Stop \/ \E t \in Tickets : CreateTicket(t)
  <2>1. Waves
    BY <1>5, PlainMoves DEF Waves, Phases, PlanTickets, FindTickets, CreateTicket, Linked, Retry, Join, Stop
  <2>2. UNCHANGED <<wave, deps, rows>>
    BY <1>5 DEF PlanTickets, FindTickets, CreateTicket, Linked, Retry, Join, Stop, db
  <2> QED
    BY <1>3, <2>1, <2>2
<1>6. CASE Resume
  <2>1. engine'.pc \in {"plan", "open"} /\ current' = IF current \in done THEN "code" ELSE current
    BY <1>6, PlainMoves DEF Resume, Begin
  <2>2. current = "code"
    BY <2>1 DEF Waves, Phases, Phase
  <2> QED
    BY <1>3, <1>6, <2>2 DEF Resume, db, Waves
<1>7. ASSUME NEW p \in Phase, ResumeFrom(p)
      PROVE  \A t \in Tickets : wave'[t] # 0 => Placed(t)' /\ wave'[t] \in rows'
  <2>1. p = "code"
    BY <1>7, PlainMoves DEF ResumeFrom, Begin, Waves, Phase
  <2>2. "ticketize" \in done
    BY <1>7, <2>1 DEF ResumeFrom, Note, Waived
  <2> QED
    BY <1>3, <1>7, <2>2 DEF ResumeFrom, Phases, Waves, db
<1>8. CASE UNCHANGED <<current, engine, wave, rows>>
  <2>1. Waves
    BY <1>8 DEF Waves
  <2>2. deps' = deps
    BY <2>1 DEF Waves, Phases
  <2> QED
    BY <1>3, <1>8, <2>1, <2>2
<1> QED
  BY <1>1, <1>2, <1>4, <1>5, <1>6, <1>7, <1>8
  DEF Next, EngineStep, vars, db, NewSandbox, AddDependency, Merge, Close, Claim, ClaimFails, Lapse, Succeed, Fail

LEMMA CompleteStep ==
  ASSUME TypeOK, Phases, Real, Layering, LaidOut, [Next]_vars, ~Waived', "partial" \notin history', Complete'
  PROVE  \A t \in Present' : wave'[t] # 0
<1> USE HistoryGrows DEF TypeOK, At, EngineIs, Complete, Phases
<1>1. ~\E t \in Tickets : CreateTicket(t)
  BY DEF CreateTicket
<1>2. Present' = Present
  BY <1>1, PresentGrows
<1>3. CASE WavesDone
  <2>1. engine.assigned = {t \in Tickets : wave[t] # 0} /\ Rest = {} /\ wave' = wave
    BY <1>3 DEF Layering, WavesDone, db
  <2> QED
    BY <1>2, <2>1 DEF Rest, Present
<1>4. ASSUME Complete, wave' = wave PROVE \A t \in Present' : wave'[t] # 0
  BY <1>2, <1>4 DEF LaidOut
<1>5. CASE Resume
  BY <1>4, <1>5, PlainMoves DEF Resume, MayStart, Begin, Phase, db
<1>6. ASSUME NEW p \in Phase, ResumeFrom(p) PROVE \A t \in Present' : wave'[t] # 0
  <2>1. p = "code"
    BY <1>6 DEF ResumeFrom, Begin
  <2>2. "ticketize" \in done
    BY <1>6, <2>1 DEF ResumeFrom, Note, Waived
  <2> QED
    BY <1>4, <1>6, <2>2, PlainMoves DEF ResumeFrom, MayStart, Phase, db
<1>7. CASE Stop
  <2>1. engine.pc \in {"layer", "assign"} /\ current = "code" => "partial" \in history'
    BY <1>7 DEF Stop
  <2>2. UNCHANGED <<current, rows, wave>>
    BY <1>7 DEF Stop, db
  <2>3. engine'.pc = "down"
    BY <1>7, PlainMoves
  <2>4. engine.pc \in {"down", "plan", "find", "create", "drop", "layer", "assign", "open", "list", "next", "work", "merge"}
    BY DEF Engine
  <2>5. current = "code" /\ rows # {}
    BY <2>2, <2>3
  <2>6. engine.pc \in {"down", "open", "list", "next", "work", "merge"}
    BY <2>1, <2>4, <2>5
  <2> QED
    BY <1>4, <2>2, <2>5, <2>6
<1>8. CASE OpenSandbox \/ OpenUnfound \/ WaveDone \/ CodeDone \/ Join
  BY <1>4, <1>8, PlainMoves DEF OpenSandbox, OpenUnfound, WaveDone, CodeDone, Join, db
<1>9. CASE ListWaves \/ NextWave
  BY <1>4, <1>9, WaveMoves DEF ListWaves, NextWave, db
<1>10. CASE OtherRunPlans
  BY <1>10 DEF OtherRunPlans, Note, Waived
<1>11. CASE UNCHANGED <<current, engine, wave, rows>>
  BY <1>4, <1>11
<1> QED
  <2>1. ~(PlanTickets \/ FindTickets \/ Linked \/ DropWaves \/ Retry)
    BY PlainMoves
  <2>2. ~NewWave /\ ~\E t \in Tickets : Assign(t)
    BY LayerMoves
  <2> QED
    BY <1>1, <1>3, <1>5, <1>6, <1>7, <1>8, <1>9, <1>10, <1>11, <2>1, <2>2
    DEF Next, EngineStep, vars, db, NewSandbox, AddDependency, Merge, Close, Claim, ClaimFails, Lapse, Succeed, Fail

LEMMA LaidOutStep ==
  ASSUME TypeOK, Phases, Real, Layering, LaidOut, [Next]_vars
  PROVE  LaidOut'
BY PlacedStep, CompleteStep DEF LaidOut, Complete

-----------------------------------------------------------------------------
(* The coders *)

LEMMA CodingStep ==
  ASSUME TypeOK, Coding, [Next]_vars
  PROVE  Coding'
<1> USE DEF TypeOK, At, Coding, Busy, EngineIs, Coders
<1>1. CASE NextWave
  <2> PICK w \in engine.todo :
        /\ EngineIs(IF ToWork(w) = {} THEN "next" ELSE "work", engine.assigned, engine.layer,
                    engine.wave, engine.todo \ {w})
        /\ coder' = [t \in Tickets |-> IF t \in ToWork(w) THEN "waiting" ELSE "idle"]
    BY <1>1, WaveMoves
  <2> QED
    OBVIOUS
<1>2. CASE Join
  <2>1. CASE Coders("failed") = {}
    <3>1. engine'.pc = "merge" /\ coder' = coder /\ Coders("waiting") \cup Coders("coding") = {} /\ head' = head
      BY <1>2, <2>1, PlainMoves DEF Join
    <3> QED
      BY <2>1, <3>1
  <2>2. CASE Coders("failed") # {}
    BY <1>2, <2>2, PlainMoves DEF Join
  <2> QED
    BY <2>1, <2>2
<1>3. CASE Stop
  BY <1>3 DEF Stop
<1>4. CASE WaveDone
  BY <1>4 DEF WaveDone
<1>5. CASE OpenSandbox \/ OpenUnfound \/ NewSandbox
  <2>1. ~At({"work", "merge"}) /\ ~At({"work", "merge"})' /\ coder' = coder
    BY <1>5, PlainMoves DEF OpenSandbox, OpenUnfound, NewSandbox
  <2> QED
    BY <2>1
<1>6. CASE \E t \in Tickets : Claim(t) \/ ClaimFails(t) \/ Succeed(t) \/ Fail(t) \/ Merge(t) \/ Close(t)
  BY <1>6 DEF Claim, ClaimFails, Succeed, Fail, Merge, Close
<1>7. CASE UNCHANGED <<coder, head>> /\ ~At({"work", "merge"}) /\ ~At({"work", "merge"})'
  BY <1>7
<1>8. CASE UNCHANGED <<coder, head, engine>>
  BY <1>8
<1>9. CASE \/ Resume \/ (\E p \in Phase : ResumeFrom(p)) \/ PlanTickets \/ FindTickets \/ Linked \/ Retry
           \/ DropWaves \/ CodeDone \/ \E t \in Tickets : CreateTicket(t)
  BY <1>7, <1>9, PlainMoves
  DEF Resume, ResumeFrom, MayStart, PlanTickets, FindTickets, CreateTicket, Linked, Created, Retry, DropWaves, CodeDone
<1>10. CASE NewWave \/ \E t \in Tickets : Assign(t)
  BY <1>7, <1>10, LayerMoves DEF NewWave, Assign
<1>11. CASE WavesDone \/ ListWaves
  BY <1>7, <1>11, WaveMoves DEF WavesDone, ListWaves
<1> QED
  BY <1>1, <1>2, <1>3, <1>4, <1>5, <1>6, <1>8, <1>9, <1>10, <1>11
  DEF Next, EngineStep, vars, AddDependency, Lapse, OtherRunPlans

\* A closed ticket is never opened again.
LEMMA ClosedGrows ==
  ASSUME TypeOK, [Next]_vars
  PROVE  /\ Closed \subseteq Closed'
         /\ ~(\E t \in Tickets : Close(t)) => Closed' = Closed
<1> USE DEF TypeOK, Closed
<1>1. CASE \E t \in Tickets : Claim(t)
  <2> PICK t \in Tickets : Claim(t)
    BY <1>1
  <2> DEFINE swept == [u \in Tickets |-> IF u \in Lapsed THEN "ready" ELSE status[u]]
  <2>1. \A u \in Tickets : swept[u] = "closed" <=> status[u] = "closed"
    BY DEF Lapsed
  <2>2. CASE swept[t] = "ready"
    <3>1. status' = [swept EXCEPT ![t] = "claimed"]
      BY <2>2 DEF Claim
    <3> QED
      BY <2>1, <2>2, <3>1
  <2>3. CASE swept[t] # "ready"
    BY <2>3 DEF Claim
  <2> QED
    BY <2>2, <2>3
<1>2. CASE \E t \in Tickets : Fail(t)
  BY <1>2 DEF Fail
<1>3. CASE \E t \in Tickets : Close(t)
  BY <1>3 DEF Close
<1>4. CASE \E t \in Tickets : CreateTicket(t)
  BY <1>4 DEF CreateTicket, Present
<1>5. CASE UNCHANGED status
  BY <1>5
<1> QED
  BY <1>1, <1>2, <1>3, <1>4, <1>5
  DEF Next, EngineStep, vars, db, Resume, ResumeFrom, PlanTickets, FindTickets, AddDependency, Linked, DropWaves,
      Retry, NewSandbox, OpenUnfound, ClaimFails, OpenSandbox, ListWaves, CodeDone, WaveDone, NewWave, Assign, WavesDone, NextWave, Join, Merge,
      Lapse, Succeed, Stop, OtherRunPlans

\* Behind, by its parts.
Passed == \A t \in Tickets : wave[t] # 0 /\ wave[t] \notin engine.todo => status[t] = "closed" \/ Busy(t)
InHand ==
  \A t \in Tickets : Busy(t) =>
    /\ wave[t] # 0 /\ \A v \in engine.todo : wave[t] < v
    /\ \A u \in Tickets : Busy(u) => wave[u] = wave[t]

LEMMA BehindStep ==
  ASSUME TypeOK, Phases, Real, Layering, LaidOut, Coding, Behind, [Next]_vars
  PROVE  Behind'
<1> SUFFICES ASSUME ~Waived', At({"next", "work", "merge"})'
             PROVE  Passed' /\ (At({"work", "merge"})' => InHand')
  BY DEF Behind, Passed, InHand, At
<1> USE HistoryGrows, ClosedGrows DEF TypeOK, At, EngineIs, Closed
<1>1. CASE ListWaves
  <2>1. engine'.pc = "next" /\ engine'.todo = rows /\ UNCHANGED <<wave, current, status, coder>>
    BY <1>1, WaveMoves DEF ListWaves, db
  <2>2. \A t \in Tickets : wave[t] # 0 => wave[t] \in rows
    BY <1>1 DEF ListWaves, Phases, LaidOut, Waves
  <2> QED
    BY <2>1, <2>2 DEF Passed
<1>2. CASE WavesDone
  <2>1. engine'.pc = "next" /\ engine'.todo = 1..engine.wave /\ wave' = wave
    BY <1>2, WaveMoves DEF WavesDone, db
  <2>2. \A t \in Tickets : wave[t] <= engine.wave
    BY <1>2 DEF WavesDone, Layering
  <2>3. \A t \in Tickets : wave[t] # 0 => wave[t] \in 1..engine.wave
    BY <2>2 DEF Engine
  <2> QED
    BY <2>1, <2>3 DEF Passed
<1>3. CASE NextWave
  <2> PICK w \in engine.todo :
        /\ \A v \in engine.todo : w <= v
        /\ EngineIs(IF ToWork(w) = {} THEN "next" ELSE "work", engine.assigned, engine.layer,
                    engine.wave, engine.todo \ {w})
        /\ coder' = [t \in Tickets |-> IF t \in ToWork(w) THEN "waiting" ELSE "idle"]
    BY <1>3, WaveMoves
  <2>1. UNCHANGED <<wave, status>> /\ engine.pc = "next"
    BY <1>3 DEF NextWave, db
  <2>2. \A t \in Tickets : wave[t] # 0 /\ wave[t] \notin engine.todo => status[t] = "closed"
    BY <2>1 DEF Behind, Coding
  <2>3. Passed'
    <3> SUFFICES ASSUME NEW t \in Tickets, wave[t] = w, status[t] # "closed" PROVE coder'[t] # "idle"
      BY <2>1, <2>2 DEF Passed, Busy
    <3>1. w # 0
      BY DEF Real
    <3>2. t \in ToWork(w)
      BY <3>1 DEF ToWork, Real
    <3> QED
      BY <3>2
  <2>4. InHand'
    <3>1. \A t \in Tickets : Busy(t)' => wave'[t] = w
      BY <2>1 DEF Busy, ToWork
    <3>2. w # 0 /\ \A v \in engine'.todo : w < v
      BY DEF Real, Engine
    <3> QED
      BY <3>1, <3>2 DEF InHand
  <2> QED
    BY <2>3, <2>4
<1>4. ASSUME UNCHANGED <<wave, engine>>, \A t \in Tickets : Busy(t)' => Busy(t),
             \A t \in Tickets : Busy(t) => Busy(t)' \/ status'[t] = "closed"
      PROVE  Passed' /\ (At({"work", "merge"})' => InHand')
  <2>1. Passed /\ (At({"work", "merge"}) => InHand)
    BY <1>4 DEF Behind, Passed, InHand
  <2> QED
    BY <1>4, <2>1 DEF Passed, InHand
<1>5. CASE \E t \in Tickets : Claim(t) \/ ClaimFails(t) \/ Succeed(t) \/ Fail(t) \/ Merge(t) \/ Close(t)
  <2> PICK t \in Tickets : Claim(t) \/ ClaimFails(t) \/ Succeed(t) \/ Fail(t) \/ Merge(t) \/ Close(t)
    BY <1>5
  <2>1. UNCHANGED <<wave, engine>>
    BY DEF Claim, ClaimFails, Succeed, Fail, Merge, Close, db
  <2>2. \A u \in Tickets : u # t => coder'[u] = coder[u]
    BY DEF Claim, ClaimFails, Succeed, Fail, Merge, Close
  <2>3. Busy(t) /\ (Busy(t)' \/ status'[t] = "closed")
    BY DEF Claim, ClaimFails, Succeed, Fail, Merge, Close, Busy
  <2> QED
    BY <1>4, <2>1, <2>2, <2>3 DEF Busy
<1>6. CASE Join
  <2>1. engine'.pc = "merge" /\ engine'.todo = engine.todo /\ UNCHANGED <<wave, coder, status>> /\ engine.pc = "work"
    BY <1>6, PlainMoves DEF Join, db
  <2>2. Passed /\ InHand
    BY <2>1 DEF Behind, Passed, InHand
  <2> QED
    BY <2>1, <2>2 DEF Passed, InHand, Busy
<1>7. CASE WaveDone
  <2>1. engine'.pc = "next" /\ engine'.todo = engine.todo /\ UNCHANGED <<wave, coder, status>> /\ engine.pc = "merge"
    BY <1>7, PlainMoves DEF WaveDone, db
  <2>2. Passed
    BY <2>1 DEF Behind, Passed
  <2> QED
    BY <2>1, <2>2 DEF Passed, Busy
<1>8. CASE UNCHANGED <<wave, engine, coder>>
  BY <1>4, <1>8 DEF Busy
<1>9. CASE OtherRunPlans
  BY <1>9 DEF OtherRunPlans, Note, Waived
<1> QED
  <2>1. ~(Resume \/ (\E p \in Phase : ResumeFrom(p)) \/ PlanTickets \/ FindTickets \/ Linked \/ Retry
          \/ DropWaves \/ OpenSandbox \/ OpenUnfound \/ CodeDone \/ Stop \/ \E t \in Tickets : CreateTicket(t))
    BY PlainMoves
  <2>2. ~NewWave /\ ~\E t \in Tickets : Assign(t)
    BY LayerMoves
  <2> QED
    BY <1>1, <1>2, <1>3, <1>5, <1>6, <1>7, <1>8, <1>9, <2>1, <2>2
    DEF Next, EngineStep, vars, db, NewSandbox, AddDependency, Lapse

LEMMA FoundStep ==
  ASSUME Found, [Next]_vars
  PROVE  Found'
<1> USE HistoryGrows DEF Found
<1>1. CASE OpenSandbox
  BY <1>1 DEF OpenSandbox
<1>2. CASE NewSandbox \/ OpenUnfound
  BY <1>2 DEF NewSandbox, OpenUnfound
<1>3. CASE UNCHANGED place
  BY <1>3 DEF place
<1> QED
  BY <1>1, <1>2, <1>3
  DEF Next, EngineStep, vars, Resume, ResumeFrom, PlanTickets, FindTickets, CreateTicket, AddDependency, Linked,
      DropWaves, NewWave, Assign, WavesDone, Retry, ListWaves, NextWave, CodeDone, Claim, ClaimFails, Lapse, Succeed,
      Fail, Join, Merge, Close, WaveDone, Stop, OtherRunPlans

LEMMA MergedStep ==
  ASSUME TypeOK, Coding, Found, ClosedIsMerged, [Next]_vars
  PROVE  ClosedIsMerged'
<1> USE HistoryGrows, ClosedGrows DEF TypeOK, ClosedIsMerged
<1>1. CASE \E t \in Tickets : Close(t)
  BY <1>1 DEF Close, Closed, Coding, place
<1>2. CASE OpenSandbox
  <2>1. Closed' = Closed /\ UNCHANGED <<backend, history>>
    BY <1>2 DEF OpenSandbox, db, Closed
  <2>2. "unfound" \notin history /\ backend = "railway" => head' = head
    BY <1>2 DEF OpenSandbox, Workspace, Found
  <2> QED
    BY <2>1, <2>2
<1>3. CASE \E t \in Tickets : Merge(t)
  BY <1>3 DEF Merge, place, db, Closed
<1>4. CASE NewSandbox \/ OpenUnfound
  BY <1>4 DEF NewSandbox, OpenUnfound
<1>5. CASE UNCHANGED <<place, head>> /\ ~\E t \in Tickets : Close(t)
  BY <1>5 DEF place
<1> QED
  BY <1>1, <1>2, <1>3, <1>4, <1>5
  DEF Next, EngineStep, vars, db, Resume, ResumeFrom, PlanTickets, FindTickets, CreateTicket, AddDependency, Linked,
      DropWaves, NewWave, Assign, WavesDone, Retry, ListWaves, NextWave, CodeDone, Claim, ClaimFails, Lapse, Succeed,
      Fail, Join, WaveDone, Stop, OtherRunPlans

-----------------------------------------------------------------------------
(* The invariant *)

LEMMA CodeInit == Init => CodeInv
BY InitTyped
DEF Init, CodeInv, Phases, Naming, OnePlan, Planned, Found, Real, Layering, LaidOut, Waves, Coding, Behind, ClosedIsMerged, At, Busy,
    Down, Present, Closed, Waived, Replanned, Copied, Placed

LEMMA CodeNext == CodeInv /\ [Next]_vars => CodeInv'
BY TypeStep, PhasesStep, NamingStep, OnePlanStep, RealStep, LayeringStep, LaidOutStep, CodingStep, BehindStep,
   FoundStep, MergedStep
DEF CodeInv

\* All that the run's tickets, waves and coders rely on, over failures, retries and
\* resumptions of ticketize and code (phaseTicketize, computeWaves, phaseCode).
THEOREM CodeInvariant == Spec => []CodeInv
BY CodeInit, CodeNext, PTL DEF Spec

\* The tables, the engine's locals and the coders stay of their types: a ticket that is
\* claimed by a lease is in progress, and dependencies are tickets that exist.
THEOREM TypeCorrect == Spec => []TypeOK
BY CodeInvariant, PTL DEF CodeInv

\* What is closed is merged in the workspace of a hosted run, as long as its sandbox is
\* found again (GetSandboxForRun, asked by the launcher and by phaseCode) and not taken
\* for missing.
THEOREM ClosedIsMergedCorrect == Spec => []ClosedIsMerged
BY CodeInvariant, PTL DEF CodeInv

\* Two coders of one wave own no path in common (normalizeTicketPlan orders tickets that
\* share one, and computeWaves puts ordered tickets in different waves), circles, second
\* plans, tickets created twice and waived runs aside.
THEOREM OwnersApartCorrect == Spec => []OwnersApart
<1>1. CodeInv => OwnersApart
  <2> SUFFICES ASSUME CodeInv, ~Waived, ~Replanned, ~Copied, NEW t \in Tickets, NEW u \in Tickets,
                      t # u, Busy(t), Busy(u), ~Order!Knotted(t), ~Order!Knotted(u)
               PROVE  owns[t] \cap owns[u] = {}
    BY DEF OwnersApart, Busy, Replanned, Copied
  <2> USE DEF CodeInv
  <2>1. At({"work", "merge"}) /\ current = "code"
    BY DEF Coding, Phases, At
  <2>2. wave[t] # 0 /\ wave[t] = wave[u]
    BY <2>1 DEF Behind, At
  <2>3. Placed(t) /\ Placed(u)
    BY <2>1, <2>2 DEF LaidOut, Waves
  <2>4. t \notin deps[u] /\ u \notin deps[t]
    BY <2>2, <2>3 DEF Placed, TypeOK
  <2>5. t \in Present /\ u \in Present
    BY DEF Real
  <2>6. /\ plan # NoPlan /\ Accepted(plan)
        /\ \A s, d \in Present : TitleOf[d] \in plan.deps[TitleOf[s]] => d \in deps[s]
        /\ \A s \in Present : TitleOf[s] \in plan.titles /\ owns[s] = plan.owns[TitleOf[s]]
    BY <2>1 DEF OnePlan, Planned
  <2>7. TitleOf[t] # TitleOf[u]
    BY <2>5 DEF Naming
  <2>8. ~AreOrdered(plan, TitleOf[t], TitleOf[u])
    BY <2>4, <2>5, <2>6 DEF AreOrdered
  <2> QED
    BY <2>5, <2>6, <2>7, <2>8 DEF Accepted
<1> QED
  BY <1>1, CodeInvariant, PTL

\* The code phase ends with every ticket of the run closed (phaseCode goes through all
\* waves, and no wave is left while a ticket of it is open), the runs apart of which the
\* waves are not all there.
THEOREM PhaseDoneCorrect == Spec => PhaseDone
<1> DEFINE Step == ("code" \in done' \ done /\ ~Waived /\ "partial" \notin history)
                      => \A t \in Tickets : status'[t] \in {"none", "closed"}
<1>1. CodeInv /\ [Next]_vars => [Step]_vars
  <2> SUFFICES ASSUME CodeInv, [Next]_vars, "code" \in done' \ done, ~Waived, "partial" \notin history,
                      NEW t \in Tickets
               PROVE  status'[t] \in {"none", "closed"}
    OBVIOUS
  <2> USE DEF CodeInv
  <2>1. CodeDone
    BY DEF TypeOK, Phase, Next, EngineStep, vars, db, Resume, ResumeFrom, Begin, PlanTickets, FindTickets, CreateTicket,
           NewSandbox, OpenUnfound, ClaimFails, AddDependency, Linked, DropWaves, NewWave, Assign, WavesDone, Retry, OpenSandbox, ListWaves, NextWave,
           Claim, Lapse, Succeed, Fail, Join, Merge, Close, WaveDone, Stop, OtherRunPlans
  <2>2. engine.pc = "next" /\ engine.todo = {} /\ status' = status
    BY <2>1 DEF CodeDone, db
  <2>3. current = "code" /\ \A s \in Tickets : ~Busy(s)
    BY <2>2 DEF Phases, Coding, At
  <2>4. t \in Present => wave[t] # 0
    BY <2>2, <2>3 DEF LaidOut, At
  <2>5. wave[t] # 0 => status[t] = "closed"
    BY <2>2, <2>3 DEF Behind, At
  <2> QED
    BY <2>2, <2>4, <2>5 DEF Present
<1> QED
  BY <1>1, CodeInvariant, PTL DEF Spec, PhaseDone

-----------------------------------------------------------------------------
(* The refinement *)

LEMMA OrderInit == Init => Order!Init
BY DEF Init, Order!Init, Closed, Waived

LEMMA OrderNext == CodeInv /\ [Next]_vars => [Order!Next]_<<deps, Closed, Waived>>
<1> SUFFICES ASSUME CodeInv, [Next]_vars
             PROVE  Order!Next \/ UNCHANGED <<deps, Closed, Waived>>
  OBVIOUS
<1> USE ClosedGrows DEF CodeInv
<1>1. CASE \E t, d \in Tickets : AddDependency(t, d)
  <2>1. UNCHANGED <<Closed, Waived>>
    BY <1>1 DEF AddDependency, Closed, Waived
  <2>2. deps' \in [Tickets -> SUBSET Tickets] /\ \A t \in Tickets : deps[t] \subseteq deps'[t]
    BY <1>1 DEF AddDependency, TypeOK, Present
  <2> QED
    BY <2>1, <2>2 DEF Order!Next, Order!Plan
<1>2. CASE \E t \in Tickets : Close(t)
  <2> PICK t \in Tickets : Close(t)
    BY <1>2
  <2>1. UNCHANGED <<deps, Waived>> /\ Closed' = Closed \cup {t}
    BY DEF Close, Closed, Waived, TypeOK
  <2>2. Waived \/ deps[t] \subseteq Closed \/ Order!Knotted(t)
    <3> SUFFICES ASSUME ~Waived, ~Order!Knotted(t), NEW u \in deps[t]
                 PROVE  u \in Closed
      OBVIOUS
    <3>1. u \in Tickets /\ Busy(t)
      BY DEF TypeOK, Present, Close, Busy
    <3>2. At({"work", "merge"}) /\ current = "code"
      BY <3>1 DEF Coding, Phases, At
    <3>3. wave[t] # 0 /\ \A v \in engine.todo : wave[t] < v
      BY <3>1, <3>2 DEF Behind
    <3>4. Placed(t)
      BY <3>2, <3>3 DEF LaidOut, Waves
    <3>5. 0 < wave[u] /\ wave[u] < wave[t]
      BY <3>4 DEF Placed
    <3>6. wave[u] \notin engine.todo
      BY <3>1, <3>3, <3>5 DEF TypeOK, Engine
    <3>7. ~Busy(u)
      BY <3>1, <3>2, <3>5 DEF Behind, TypeOK
    <3>8. status[u] = "closed"
      BY <3>1, <3>2, <3>5, <3>6, <3>7 DEF Behind, At, TypeOK
    <3> QED
      BY <3>1, <3>8 DEF Closed
  <2> QED
    BY <2>1, <2>2 DEF Order!Next, Order!Close
<1>3. CASE UNCHANGED deps /\ Closed' = Closed
  BY <1>3, HistoryGrows DEF Order!Next, Order!Waive, Waived
<1> QED
  <2>1. (\E t, d \in Tickets : AddDependency(t, d)) \/ deps' = deps
    BY DEF Next, EngineStep, vars, db, Resume, ResumeFrom, PlanTickets, FindTickets, CreateTicket, Linked, DropWaves,
           NewWave, NewSandbox, OpenUnfound, ClaimFails, Assign, WavesDone, Retry, OpenSandbox, ListWaves, NextWave, CodeDone, Claim, Lapse, Succeed, Fail,
           Join, Merge, Close, WaveDone, Stop, OtherRunPlans
  <2> QED
    BY <1>1, <1>2, <1>3, <2>1

\* Tickets are closed after those they depend on and never opened again, whatever fails
\* in between and wherever the run is resumed: CodePhase implements WorkOrder.
THEOREM ImplementsWorkOrderCorrect == Spec => ImplementsWorkOrder
BY OrderInit, OrderNext, CodeInvariant, PTL DEF Spec, ImplementsWorkOrder, Order!Spec
=============================================================================
