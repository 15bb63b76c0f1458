----------------------- MODULE OutlookBriefing_proofs -----------------------
(***************************************************************************)
(* What a checkpoint and a receipt say is true, for any mailbox and any    *)
(* number of batches, calls and faults.                                    *)
(*                                                                         *)
(* The argument does not need the reservations.  A call has seen to every  *)
(* item of its batch before it finalizes, items are never taken back, and  *)
(* the checkpoint moves only from where the batch was scanned from to      *)
(* where it was scanned to: what it passes is the batch's.  It moves       *)
(* forward only, so that a receipt stays true.                             *)
(*                                                                         *)
(* A run is given what its batch will ever have, because a batch is noted  *)
(* as completed only once it is closed: early, or finalized with no item   *)
(* left.  A finalized batch is behind the checkpoint and gains no item,    *)
(* and a completed item is never claimed again.                            *)
(***************************************************************************)
EXTENDS OutlookBriefing, WellFoundedInduction, TLAPS

\* A batch was scanned forward.
Forward == \A b \in Batches : window[b] # <<>> => From(b) < To(b)

\* What is known of the batch a call serves at each point of the call.
Served(c, b) ==
  /\ b \in Batches /\ window[b] # <<>>
  /\ \A m \in MailOf(b) : m \in call[c].todo \/ item[m].state # "none"
  /\ call[c].pc = "finalize" => call[c].todo = {}
  /\ call[c].pc = "done" => checkpoint >= To(b)
AllServed == \A c \in Calls : call[c].pc # "idle" => Served(c, call[c].batch)

\* A key is in the ledger for a batch that exists.
Known == \A b \in Batches : ledger[b].state # "none" => window[b] # <<>>

OutlookInv == TypeOK /\ Forward /\ AllServed /\ Known /\ CheckpointCovers /\ ReceiptTrue

-----------------------------------------------------------------------------
(* Types *)

LEMMA ServingTyped ==
  ASSUME NEW pc \in {"idle", "reserve", "accept", "finalize", "done"},
         NEW b \in Batches \cup {Nobody}, NEW todo \in SUBSET Mail,
         NEW token \in BOOLEAN, NEW seen \in BatchState
  PROVE  Serving(pc, b, todo, token, seen) \in Call
BY DEF Serving, Call

LEMMA NoCallTyped == NoCall \in Call
BY ServingTyped DEF NoCall, BatchState

LEMMA InitTyped == Init => TypeOK
<1> SUFFICES ASSUME Init PROVE TypeOK
  OBVIOUS
<1> USE DEF Init, Nobody
<1>1. window \in [Batches -> (0..Last) \X (0..Last) \cup {<<>>}]
  OBVIOUS
<1>2. ledger \in [Batches -> LedgerRow] /\ reservation \in ReservationRow
  BY DEF LedgerRow, ReservationRow, NoReservation
<1>3. checkpoint \in 0..Last /\ faults \in 0..MaxFaults
  BY MailAssumption, CountAssumption
<1>4. batch \in [Batches -> BatchState] /\ item \in [Mail -> ItemRow] /\ call \in [Calls -> Call]
  BY NoCallTyped DEF BatchState, ItemRow
<1>5. /\ task \in [Batches -> TaskRow] /\ trigger \in [Batches -> TriggerRow]
      /\ run \in [Batches -> {"none", "queued", "completed", "empty", "failed"}]
      /\ history \in [Batches -> {"open", "final", "early"}]
  BY DEF TaskRow, TriggerRow
<1>6. worker \in [at : {"tick", "item", "cos", "brief", "create", "link", "finish"},
                  on : Batches \cup Mail \cup {Nobody}]
  BY DEF Tick
<1> QED
  BY <1>1, <1>2, <1>3, <1>4, <1>5, <1>6 DEF TypeOK

LEMMA LedgerTyped ==
  ASSUME NEW s \in {"none", "claimed", "failed", "completed"},
         NEW h \in Calls \cup {Nobody}, NEW l \in BOOLEAN
  PROVE  [state |-> s, holder |-> h, live |-> l] \in LedgerRow
BY DEF LedgerRow

\* The rows a call that ends is taken from.
LEMMA ForgottenTyped ==
  ASSUME NEW c \in Calls
  PROVE  /\ \A row \in LedgerRow : Forgotten(row, c) \in LedgerRow
         /\ \A row \in ReservationRow : Forgotten(row, c) \in ReservationRow
BY DEF Forgotten, LedgerRow, ReservationRow

\* The parts of a call.
LEMMA CallParts ==
  ASSUME TypeOK, NEW c \in Calls
  PROVE  /\ call[c].batch \in Batches \cup {Nobody}
         /\ call[c].todo \in SUBSET Mail
         /\ call[c].token \in BOOLEAN
         /\ "none" \in BatchState
BY DEF TypeOK, Call, BatchState

LEMMA CallEndsTyped ==
  ASSUME TypeOK, NEW c \in Calls, CallEnds(c)
  PROVE  call' \in [Calls -> Call] /\ reservation' \in ReservationRow
BY ForgottenTyped, NoCallTyped DEF TypeOK, CallEnds

LEMMA OutcomeTyped ==
  ASSUME TypeOK, NEW c \in Calls, NEW s \in {"failed", "completed"}, Outcome(c, s)
  PROVE  ledger' \in [Batches -> LedgerRow]
<1>1. [state |-> s, holder |-> Nobody, live |-> FALSE] \in LedgerRow
  BY LedgerTyped
<1> QED
  BY <1>1 DEF TypeOK, Outcome

LEMMA CallFailsTyped ==
  ASSUME TypeOK, NEW c \in Calls, CallFails(c)
  PROVE  /\ call' \in [Calls -> Call] /\ reservation' \in ReservationRow
         /\ ledger' \in [Batches -> LedgerRow]
BY CallEndsTyped, OutcomeTyped DEF CallFails

LEMMA EnqueuedTyped ==
  ASSUME TypeOK, NEW b \in Batches
  PROVE  Enqueued(b) \in [Batches -> TaskRow]
BY DEF TypeOK, Enqueued, TaskRow

LEMMA FaultTyped == ASSUME TypeOK, Fault PROVE faults' \in 0..MaxFaults
BY CountAssumption DEF TypeOK, Fault

LEMMA SubmissionTyped ==
  ASSUME TypeOK, NEW c \in Calls, call[c].pc # "idle" => call[c].batch \in Batches /\ window[call[c].batch] # <<>>,
         CallStep(c) \/ AcceptFails(c) \/ CallLost(c) \/ \E b \in Batches : Submit(c, b)
  PROVE  TypeOK'
<1> USE DEF briefing
<1>1. CASE \E b \in Batches : Submit(c, b)
  <2> PICK b \in Batches : Submit(c, b)
    BY <1>1
  <2>1. ledger' \in [Batches -> LedgerRow]
    BY LedgerTyped DEF Submit, TypeOK
  <2>2. call' \in [Calls -> Call]
    <3>1. MailOf(b) \in SUBSET Mail
      BY DEF MailOf
    <3> QED
      BY <3>1, ServingTyped, CallParts DEF Submit, TypeOK
  <2> QED
    BY <2>1, <2>2 DEF Submit, TypeOK
<1>2. CASE Reserve(c)
  <2> DEFINE b == call[c].batch
  <2>1. CASE MayOpen(b) \/ MayReclaim(b)
    <3>1. Reserved(c, b) \in ReservationRow
      BY DEF TypeOK, Call, Reserved, ReservationRow
    <3>2. batch' \in [Batches -> BatchState]
      BY ZenonT(60), <1>2, <2>1 DEF Reserve, MayOpen, MayReclaim, Accepted, TypeOK, BatchState
    <3>3. Serving("accept", b, call[c].todo, TRUE, "none") \in Call
      BY ServingTyped, CallParts
    <3>4. ~Accepted(b)
      BY <2>1 DEF MayOpen, MayReclaim, Accepted
    <3>5. /\ reservation' = Reserved(c, b) /\ ledger' = ledger
          /\ call' = [call EXCEPT ![c] = Serving("accept", b, call[c].todo, TRUE, "none")]
      BY <1>2, <2>1, <3>4 DEF Reserve
    <3>6. call' \in [Calls -> Call]
      BY <3>3, <3>5 DEF TypeOK
    <3> HIDE DEF b
    <3> QED
      BY <1>2, <3>1, <3>2, <3>5, <3>6 DEF Reserve, TypeOK
  <2>2. CASE Accepted(b)
    <3>1. Serving("accept", b, call[c].todo, FALSE, "none") \in Call
      BY ServingTyped, CallParts
    <3>2. ~MayOpen(b) /\ ~MayReclaim(b)
      BY <2>2 DEF MayOpen, MayReclaim, Accepted
    <3> QED
      BY <1>2, <2>2, <3>1, <3>2 DEF Reserve, TypeOK
  <2>3. CASE ~MayOpen(b) /\ ~MayReclaim(b) /\ ~Accepted(b)
    BY <1>2, <2>3, CallFailsTyped DEF Reserve, TypeOK
  <2> QED
    BY <2>1, <2>2, <2>3
<1>3. CASE Accept(c)
  <2> DEFINE m == Min(call[c].todo)
  <2>1. call' \in [Calls -> Call]
    BY <1>3, ServingTyped, CallParts DEF Accept, TypeOK
  <2>2. item' \in [Mail -> ItemRow]
    BY <1>3 DEF Accept, TypeOK, Call, ItemRow, Upserted
  <2> QED
    BY <1>3, <2>1, <2>2 DEF Accept, TypeOK
<1>4. CASE BeginFinalize(c)
  <2>1. batch[call[c].batch] \in BatchState
    BY <1>4 DEF BeginFinalize, TypeOK
  <2>2. call' \in [Calls -> Call]
    BY <1>4, <2>1, ServingTyped, CallParts DEF BeginFinalize, TypeOK
  <2> QED
    BY <1>4, <2>2 DEF BeginFinalize, TypeOK
<1>5. CASE Finalize(c)
  <2> DEFINE b == call[c].batch
  <2>1. CASE ~MayFinalize(c, b)
    BY <1>5, <2>1, CallFailsTyped DEF Finalize, TypeOK
  <2>2. CASE MayFinalize(c, b)
    <3>1. checkpoint' \in 0..Last
      BY <1>5, <2>2 DEF Finalize, TypeOK, To
    <3>2. NoReservation \in ReservationRow
      BY DEF NoReservation, ReservationRow
    <3>3. Serving("done", b, {}, FALSE, "none") \in Call
      BY ServingTyped, CallParts
    <3>7. call' \in [Calls -> Call]
      BY <1>5, <2>2, <3>3 DEF Finalize, TypeOK
    <3>4. batch' \in [Batches -> BatchState]
      BY <1>5, <2>2 DEF Finalize, TypeOK, BatchState
    <3>5. task' \in [Batches -> TaskRow]
      BY <1>5, <2>2, EnqueuedTyped DEF Finalize, TypeOK
    <3>6. history' \in [Batches -> {"open", "final", "early"}]
      BY <1>5, <2>2 DEF Finalize, TypeOK
    <3> QED
      BY <1>5, <2>2, <3>1, <3>2, <3>4, <3>5, <3>6, <3>7 DEF Finalize, TypeOK
  <2> QED
    BY <2>1, <2>2
<1>6. CASE Receipt(c)
  BY <1>6, CallEndsTyped, OutcomeTyped DEF Receipt, TypeOK
<1>7. CASE AcceptFails(c)
  BY <1>7, CallFailsTyped, FaultTyped DEF AcceptFails, TypeOK
<1>8. CASE CallLost(c)
  BY <1>8, CallEndsTyped, ForgottenTyped, FaultTyped DEF CallLost, TypeOK
<1> QED
  BY <1>1, <1>2, <1>3, <1>4, <1>5, <1>6, <1>7, <1>8 DEF CallStep
LEMMA LapseTyped ==
  ASSUME TypeOK, Lapse
  PROVE  TypeOK'
<1> USE DEF briefing, submission
<1>1. CASE ReservationLapses
  <2>1. faults' \in 0..MaxFaults
    BY <1>1, FaultTyped DEF ReservationLapses, TypeOK
  <2>2. reservation' \in ReservationRow
    BY <1>1 DEF ReservationLapses, TypeOK, ReservationRow
  <2> QED
    BY <1>1, <2>1, <2>2 DEF ReservationLapses, TypeOK
<1>2. CASE \E b \in Batches : LedgerLapses(b)
  <2> PICK b \in Batches : LedgerLapses(b)
    BY <1>2
  <2>1. faults' \in 0..MaxFaults
    BY FaultTyped DEF LedgerLapses, TypeOK
  <2>2. ledger' \in [Batches -> LedgerRow]
    BY ZenonT(60) DEF LedgerLapses, TypeOK, LedgerRow
  <2> QED
    BY <2>1, <2>2 DEF LedgerLapses, TypeOK
<1>3. CASE \E b \in Batches : TriggerLapses(b)
  <2> PICK b \in Batches : TriggerLapses(b)
    BY <1>3
  <2>1. trigger' \in [Batches -> TriggerRow]
    BY ZenonT(60) DEF TriggerLapses, TypeOK, TriggerRow
  <2> QED
    BY <2>1 DEF TriggerLapses, TypeOK
<1> QED
  BY <1>1, <1>2, <1>3 DEF Lapse

LEMMA ItemsTyped ==
  ASSUME TypeOK, (\E m \in Mail : ClaimItem(m)) \/ CompleteItem \/ ItemFails \/ CompleteItemFails
  PROVE  TypeOK'
<1> USE DEF briefing, submission
<1>1. CASE \E m \in Mail : ClaimItem(m)
  <2> PICK m \in Mail : ClaimItem(m)
    BY <1>1
  <2>1. item' \in [Mail -> ItemRow]
    BY ZenonT(60) DEF ClaimItem, TypeOK, ItemRow
  <2> QED
    BY <2>1 DEF ClaimItem, TypeOK
<1>2. CASE CompleteItem
  <2>1. item' \in [Mail -> ItemRow]
    BY ZenonT(60), <1>2 DEF CompleteItem, TypeOK, ItemRow
  <2>2. batch' \in [Batches -> BatchState]
    BY <1>2 DEF CompleteItem, TypeOK, BatchState
  <2>3. task' \in [Batches -> TaskRow]
    BY ZenonT(60), <1>2 DEF CompleteItem, Enqueued, TypeOK, TaskRow
  <2>4. history' \in [Batches -> {"open", "final", "early"}]
    BY <1>2 DEF CompleteItem, TypeOK
  <2>5. worker' = Tick /\ UNCHANGED <<window, ledger, checkpoint, reservation, call, trigger, run, faults>>
    BY <1>2 DEF CompleteItem
  <2> QED
    BY <2>1, <2>2, <2>3, <2>4, <2>5 DEF TypeOK, Tick
<1>3. CASE ItemFails
  <2>1. item' \in [Mail -> ItemRow]
    BY ZenonT(60), <1>3 DEF ItemFails, TypeOK, ItemRow
  <2>2. batch' \in [Batches -> BatchState]
    BY <1>3 DEF ItemFails, TypeOK, BatchState
  <2> QED
    BY <1>3, <2>1, <2>2, FaultTyped DEF ItemFails, TypeOK, Nobody
<1>4. CASE CompleteItemFails
  BY <1>4, FaultTyped DEF CompleteItemFails, TypeOK, Nobody
<1> QED
  BY <1>1, <1>2, <1>3, <1>4

LEMMA BriefingTyped ==
  ASSUME TypeOK, NEW b \in Batches,
         ClaimTask(b) \/ BriefingStep(b) \/ BriefingFails(b) \/ RunEnds(b)
  PROVE  TypeOK'
<1> USE DEF briefing, submission
<1>1. CASE ClaimTask(b)
  <2>1. task' \in [Batches -> TaskRow]
    BY <1>1 DEF ClaimTask, TypeOK, TaskRow
  <2> QED
    BY <1>1, <2>1 DEF ClaimTask, TypeOK
<1>2. ASSUME Waiting(b) PROVE task' \in [Batches -> TaskRow]
  BY <1>2 DEF Waiting, TypeOK, TaskRow
<1>3. CASE TriggerRun(b)
  <2>1. Inserted(b) \in TriggerRow
    BY DEF Inserted, Covered, ItemsOf, TypeOK, TriggerRow
  <2>2. [state |-> "creating", live |-> TRUE, input |-> Inserted(b).input] \in TriggerRow
    BY <2>1 DEF TriggerRow
  <2>3. trigger' \in [Batches -> TriggerRow]
    BY <1>3, <2>2 DEF TriggerRun, Claim, TypeOK
  <2>4. task' \in [Batches -> TaskRow]
    BY <1>2, <1>3 DEF TriggerRun, TypeOK
  <2>5. worker' = [at |-> "link", on |-> b] \/ worker' = [at |-> "create", on |-> b] \/ worker' = Tick
    BY <1>3 DEF TriggerRun, At
  <2>6. UNCHANGED <<window, ledger, checkpoint, reservation, call, run, batch, item, history, faults>>
    BY <1>3 DEF TriggerRun
  <2> QED
    BY <2>3, <2>4, <2>5, <2>6 DEF Tick, TypeOK
<1>4. CASE CreateRun(b)
  BY <1>4 DEF CreateRun, At, TypeOK
<1>5. CASE LinkRun(b)
  <2>1. trigger' \in [Batches -> TriggerRow]
    BY <1>5 DEF LinkRun, Claim, TypeOK, TriggerRow
  <2>2. task' \in [Batches -> TaskRow]
    BY <1>5 DEF LinkRun, TypeOK, TaskRow
  <2> QED
    BY <1>5, <2>1, <2>2 DEF LinkRun, Tick, TypeOK
<1>6. CASE LookAtRun(b)
  <2>1. task' \in [Batches -> TaskRow]
    BY <1>2, <1>6 DEF LookAtRun, TypeOK
  <2> QED
    BY <1>6, <2>1 DEF LookAtRun, At, Tick, TypeOK
<1>7. CASE CompleteTask(b)
  <2>1. task' \in [Batches -> TaskRow]
    BY <1>7 DEF CompleteTask, TypeOK, TaskRow
  <2> QED
    BY <1>7, <2>1 DEF CompleteTask, Tick, TypeOK
<1>8. CASE BriefingFails(b)
  <2>1. task' \in [Batches -> TaskRow]
    BY <1>2, <1>8 DEF BriefingFails, TypeOK
  <2>2. trigger' \in [Batches -> TriggerRow]
    <3>1. [state |-> "accepted", live |-> FALSE, input |-> trigger[b].input] \in TriggerRow
      BY DEF TypeOK, TriggerRow
    <3> QED
      BY <1>8, <3>1 DEF BriefingFails, Claim, TypeOK
  <2> QED
    BY <1>8, <2>1, <2>2, FaultTyped DEF BriefingFails, Tick, TypeOK
<1>9. CASE RunEnds(b)
  BY <1>9 DEF RunEnds, TypeOK
<1> QED
  BY <1>1, <1>3, <1>4, <1>5, <1>6, <1>7, <1>8, <1>9 DEF BriefingStep

LEMMA StopTyped == ASSUME TypeOK, Stop PROVE TypeOK'
<1>1. ledger' \in [Batches -> LedgerRow] /\ reservation' \in ReservationRow
  BY DEF Stop, Lost, TypeOK, LedgerRow, ReservationRow
<1> QED
  BY <1>1, NoCallTyped, FaultTyped DEF Stop, briefing, Tick, TypeOK

LEMMA ScanTyped == ASSUME TypeOK, NEW b \in Batches, Scan(b) PROVE TypeOK'
<1>1. PICK to \in checkpoint + 1 .. Last : window' = [window EXCEPT ![b] = <<checkpoint, to>>]
  BY DEF Scan
<1>2. <<checkpoint, to>> \in (0..Last) \X (0..Last)
  BY MailAssumption DEF TypeOK
<1>3. window' \in [Batches -> (0..Last) \X (0..Last) \cup {<<>>}]
  BY <1>1, <1>2 DEF TypeOK
<1> QED
  BY <1>3 DEF Scan, briefing, TypeOK
-----------------------------------------------------------------------------
(* What a call has seen to, the checkpoint and the receipts *)

\* The invariant without the types.
Accounts == Forward /\ AllServed /\ Known /\ CheckpointCovers /\ ReceiptTrue

\* The invariant gives the call lemma its assumption.
LEMMA CallsBatch ==
  ASSUME AllServed, NEW c \in Calls, call[c].pc # "idle"
  PROVE  call[c].batch \in Batches /\ window[call[c].batch] # <<>>
BY DEF AllServed, Served

\* Nothing is taken back: batches stay as scanned, the checkpoint moves forward, items stay.
Kept ==
  /\ window' = window /\ checkpoint' >= checkpoint
  /\ \A m \in Mail : item[m].state # "none" => item'[m].state # "none"

LEMMA WindowKept ==
  ASSUME Kept, NEW b \in Batches
  PROVE  From(b)' = From(b) /\ To(b)' = To(b) /\ MailOf(b)' = MailOf(b)
BY DEF Kept, To, From, MailOf

\* A step that lets every call but c be, and keeps what is there, keeps all calls served
\* if c is served after it.
LEMMA OthersServed ==
  ASSUME TypeOK, TypeOK', AllServed, Kept, NEW c \in Calls,
         \A d \in Calls \ {c} : call'[d] = call[d],
         call'[c].pc # "idle" => Served(c, call[c].batch)' /\ call'[c].batch = call[c].batch
  PROVE  AllServed'
<1> SUFFICES ASSUME NEW d \in Calls, call'[d].pc # "idle" PROVE Served(d, call[d].batch)'
  BY DEF AllServed
<1>1. CASE d = c
  BY <1>1 DEF Served
<1>2. CASE d # c
  <2>1. call'[d] = call[d]
    BY <1>2
  <2>2. Served(d, call[d].batch) /\ call[d].batch \in Batches
    BY <2>1 DEF AllServed, Served
  <2> PICK b \in Batches : b = call[d].batch
    BY <2>2
  <2>3. Served(d, b)
    BY <2>2
  <2>4. /\ call'[d].todo = call[d].todo
        /\ call'[d].pc = "finalize" => call'[d].todo = {}
    BY <2>1, <2>3 DEF Served
  <2>5. call'[d].pc = "done" => checkpoint' >= To(b)
    <3>1. To(b) \in Nat /\ checkpoint \in Nat /\ checkpoint' \in Nat
      BY <2>3 DEF TypeOK, To, Served
    <3> QED
      BY <2>1, <2>3, <3>1 DEF Served, Kept
  <2>6. Served(d, b)'
    <3>1. To(b)' = To(b) /\ MailOf(b)' = MailOf(b)
      BY WindowKept
    <3>2. \A m \in MailOf(b) : m \in call'[d].todo \/ item'[m].state # "none"
      BY <2>3, <2>4 DEF Served, Kept, MailOf
    <3>3. window'[b] # <<>>
      BY <2>3 DEF Served, Kept
    <3> QED
      BY <2>4, <2>5, <3>1, <3>2, <3>3 DEF Served
  <2> QED
    BY <2>1, <2>6
<1> QED
  BY <1>1, <1>2
\* The same for a step that leaves the calls alone, or ends them all.
LEMMA CallsServed ==
  ASSUME TypeOK, TypeOK', AllServed, Kept, \A d \in Calls : call'[d] = call[d] \/ call'[d].pc = "idle"
  PROVE  AllServed'
<1>1. CASE \E c \in Calls : call'[c].pc # "idle"
  <2> PICK c \in Calls : call'[c].pc # "idle"
    BY <1>1
  <2> SUFFICES ASSUME NEW d \in Calls, call'[d].pc # "idle" PROVE Served(d, call[d].batch)'
    BY DEF AllServed
  <2>1. call'[d] = call[d]
    OBVIOUS
  <2>2. Served(d, call[d].batch) /\ call[d].batch \in Batches
    BY <2>1 DEF AllServed, Served
  <2> PICK b \in Batches : b = call[d].batch
    BY <2>2
  <2>3. Served(d, b)
    BY <2>2
  <2>4. To(b)' = To(b) /\ MailOf(b)' = MailOf(b)
    BY WindowKept
  <2>5. \A m \in MailOf(b) : m \in call'[d].todo \/ item'[m].state # "none"
    BY <2>1, <2>3 DEF Served, Kept, MailOf
  <2>6. call'[d].pc = "done" => checkpoint' >= To(b)
    <3>1. To(b) \in Nat /\ checkpoint \in Nat /\ checkpoint' \in Nat
      BY <2>3 DEF TypeOK, To, Served
    <3> QED
      BY <2>1, <2>3, <3>1 DEF Served, Kept
  <2>7. Served(d, b)'
    BY <2>1, <2>3, <2>4, <2>5, <2>6 DEF Served, Kept
  <2> QED
    BY <2>1, <2>7
<1>2. CASE ~\E c \in Calls : call'[c].pc # "idle"
  BY <1>2 DEF AllServed
<1> QED
  BY <1>1, <1>2

\* What is left to show of a step that keeps what is there: what it adds to the ledger,
\* and what the checkpoint passes.
LEMMA AccountsKept ==
  ASSUME OutlookInv, TypeOK', Kept, AllServed', checkpoint' = checkpoint \/ CheckpointCovers',
         \A b \in Batches : ledger'[b].state # "none" => window[b] # <<>>,
         \A b \in Batches : ledger'[b].state = "completed" => ledger[b].state = "completed" \/ checkpoint' >= To(b)
  PROVE  Accounts'
<1>1. Forward'
  BY WindowKept DEF OutlookInv, Forward, Kept
<1>2. Known'
  BY DEF Known, Kept
<1>3. CheckpointCovers'
  BY DEF OutlookInv, CheckpointCovers, Kept
<1>4. ReceiptTrue'
  <2> SUFFICES ASSUME NEW b \in Batches, ledger'[b].state = "completed" PROVE checkpoint' >= To(b)'
    BY DEF ReceiptTrue
  <2>1. To(b)' = To(b)
    BY WindowKept
  <2>2. CASE checkpoint' >= To(b)
    BY <2>1, <2>2
  <2>3. CASE ledger[b].state = "completed"
    <3>1. checkpoint >= To(b) /\ window[b] # <<>>
      BY <2>3 DEF OutlookInv, ReceiptTrue, Known
    <3>2. To(b) \in Nat /\ checkpoint \in Nat /\ checkpoint' \in Nat
      BY <3>1 DEF OutlookInv, TypeOK, To
    <3> QED
      BY <2>1, <3>1, <3>2 DEF Kept
  <2> QED
    BY <2>2, <2>3
<1> QED
  BY <1>1, <1>2, <1>3, <1>4 DEF Accounts
\* The loop and the leases leave the calls, the checkpoint and the ledger's outcomes alone.
LEMMA LoopAccounts ==
  ASSUME OutlookInv, TypeOK', window' = window, checkpoint' = checkpoint, call' = call,
         \A m \in Mail : item[m].state # "none" => item'[m].state # "none",
         \A b \in Batches : ledger'[b].state = ledger[b].state
  PROVE  Accounts'
<1>1. Kept
  BY DEF Kept, OutlookInv, TypeOK
<1>2. AllServed'
  BY <1>1, CallsServed DEF OutlookInv
<1> QED
  BY <1>1, <1>2, AccountsKept DEF OutlookInv, Known

LEMMA BackgroundAccounts ==
  ASSUME OutlookInv, TypeOK',
         \/ Lapse \/ CompleteItem \/ ItemFails \/ CompleteItemFails
         \/ \E m \in Mail : ClaimItem(m)
         \/ \E b \in Batches : ClaimTask(b) \/ BriefingStep(b) \/ BriefingFails(b) \/ RunEnds(b)
  PROVE  Accounts'
<1> USE DEF submission, briefing
<1>1. CASE Lapse
  <2>1. /\ window' = window /\ checkpoint' = checkpoint /\ call' = call /\ item' = item
        /\ ledger' = ledger \/ \E b \in Batches : ledger' = [ledger EXCEPT ![b].live = FALSE]
    BY <1>1 DEF Lapse, ReservationLapses, LedgerLapses, TriggerLapses
  <2>2. \A b \in Batches : ledger'[b].state = ledger[b].state
    <3>1. CASE \E b \in Batches : ledger' = [ledger EXCEPT ![b].live = FALSE]
      <4> PICK a \in Batches : ledger' = [ledger EXCEPT ![a].live = FALSE]
        BY <3>1
      <4> SUFFICES ASSUME NEW b \in Batches PROVE ledger'[b].state = ledger[b].state
        OBVIOUS
      <4>1. ledger \in [Batches -> LedgerRow]
        BY DEF OutlookInv, TypeOK
      <4> QED
        BY <4>1 DEF LedgerRow
    <3> QED
      BY <2>1, <3>1
  <2> QED
    BY <2>1, <2>2, LoopAccounts
<1>2. CASE CompleteItem \/ ItemFails \/ CompleteItemFails \/ \E m \in Mail : ClaimItem(m)
  <2>1. /\ window' = window /\ checkpoint' = checkpoint /\ call' = call /\ ledger' = ledger
        /\ \/ item' = item
           \/ \E m : item' = [item EXCEPT ![m].state = "completed"]
           \/ \E m : item' = [item EXCEPT ![m].state = "retrying"]
           \/ \E m : item' = [item EXCEPT ![m].state = "processing"]
    BY <1>2 DEF CompleteItem, ItemFails, CompleteItemFails, ClaimItem
  <2>2. \A m \in Mail : item[m].state # "none" => item'[m].state # "none"
    BY <2>1 DEF OutlookInv, TypeOK, ItemRow
  <2> QED
    BY <2>1, <2>2, LoopAccounts
<1>3. CASE \E b \in Batches : ClaimTask(b) \/ BriefingStep(b) \/ BriefingFails(b) \/ RunEnds(b)
  <2>1. window' = window /\ checkpoint' = checkpoint /\ call' = call /\ ledger' = ledger /\ item' = item
    BY <1>3 DEF ClaimTask, BriefingStep, BriefingFails, RunEnds, TriggerRun, CreateRun, LinkRun, LookAtRun,
      CompleteTask
  <2> QED
    BY <2>1, LoopAccounts
<1> QED
  BY <1>1, <1>2, <1>3

LEMMA StopAccounts == ASSUME OutlookInv, TypeOK', Stop PROVE Accounts'
<1>1. Kept /\ \A d \in Calls : call'[d].pc = "idle"
  BY DEF Kept, Stop, OutlookInv, TypeOK, NoCall, Serving
<1>2. AllServed'
  BY <1>1, CallsServed DEF OutlookInv
<1>3. \A b \in Batches : ledger'[b].state = ledger[b].state
  BY DEF Stop, Lost, OutlookInv, TypeOK, LedgerRow
<1> QED
  BY <1>1, <1>2, <1>3, AccountsKept DEF OutlookInv, Known, Stop

\* A scan leaves the batches that exist as they are.
LEMMA ScanAccounts == ASSUME OutlookInv, TypeOK', NEW b \in Batches, Scan(b) PROVE Accounts'
<1>1. /\ window[b] = <<>>
      /\ UNCHANGED <<ledger, checkpoint, call, item>>
      /\ \E to \in checkpoint + 1 .. Last : window' = [window EXCEPT ![b] = <<checkpoint, to>>]
  BY DEF Scan
<1> PICK to \in checkpoint + 1 .. Last : window' = [window EXCEPT ![b] = <<checkpoint, to>>]
  BY <1>1
<1>2. \A a \in Batches : window[a] # <<>> => a # b /\ window'[a] = window[a]
  BY <1>1 DEF OutlookInv, TypeOK
<1>3. ASSUME NEW a \in Batches, window[a] # <<>>
      PROVE  From(a)' = From(a) /\ To(a)' = To(a) /\ MailOf(a)' = MailOf(a) /\ window'[a] # <<>>
  BY <1>2, <1>3 DEF From, To, MailOf
<1>4. Forward'
  <2> SUFFICES ASSUME NEW a \in Batches, window'[a] # <<>> PROVE From(a)' < To(a)'
    BY DEF Forward
  <2>1. CASE a = b
    <3>1. From(b)' = checkpoint /\ To(b)' = to
      BY DEF From, To, OutlookInv, TypeOK
    <3> QED
      BY <2>1, <3>1, MailAssumption DEF OutlookInv, TypeOK
  <2>2. CASE a # b
    BY <2>2, <1>3 DEF OutlookInv, Forward, TypeOK
  <2> QED
    BY <2>1, <2>2
<1>5. AllServed'
  <2> SUFFICES ASSUME NEW c \in Calls, call[c].pc # "idle" PROVE Served(c, call[c].batch)'
    BY <1>1 DEF AllServed
  <2>1. Served(c, call[c].batch)
    BY DEF OutlookInv, AllServed
  <2> PICK a \in Batches : a = call[c].batch
    BY <2>1 DEF Served
  <2>2. Served(c, a)'
    BY <1>1, <1>3, <2>1 DEF Served
  <2> QED
    BY <1>1, <2>2
<1>6. Known' /\ CheckpointCovers'
  BY <1>1, <1>3 DEF OutlookInv, Known, CheckpointCovers
<1>7. ReceiptTrue'
  <2> SUFFICES ASSUME NEW a \in Batches, ledger[a].state = "completed" PROVE checkpoint >= To(a)'
    BY <1>1 DEF ReceiptTrue
  <2> QED
    BY <1>3 DEF OutlookInv, Known, ReceiptTrue
<1> QED
  BY <1>4, <1>5, <1>6, <1>7 DEF Accounts
-----------------------------------------------------------------------------
(* The submission *)

LEMMA SubmitAccounts ==
  ASSUME OutlookInv, TypeOK', NEW c \in Calls, NEW b \in Batches, Submit(c, b)
  PROVE  Accounts'
<1>1. /\ call[c].pc = "idle" /\ window[b] # <<>> /\ UNCHANGED <<window, checkpoint, item>>
      /\ ledger' = [ledger EXCEPT ![b] = [state |-> "claimed", holder |-> c, live |-> TRUE]]
      /\ call' = [call EXCEPT ![c] = Serving("reserve", b, MailOf(b), FALSE, "none")]
  BY DEF Submit
<1>2. Kept
  BY <1>1 DEF Kept, OutlookInv, TypeOK
<1>3. call'[c] = Serving("reserve", b, MailOf(b), FALSE, "none") /\ \A d \in Calls \ {c} : call'[d] = call[d]
  BY <1>1 DEF OutlookInv, TypeOK
<1>4. AllServed'
  <2> SUFFICES ASSUME NEW d \in Calls, call'[d].pc # "idle" PROVE Served(d, call[d].batch)'
    BY DEF AllServed
  <2>1. CASE d = c
    <3>1. MailOf(b)' = MailOf(b)
      BY <1>2, WindowKept
    <3> QED
      BY <1>1, <1>3, <2>1, <3>1 DEF Served, Serving
  <2>2. CASE d # c
    <3>1. call'[d] = call[d] /\ Served(d, call[d].batch)
      BY <1>3, <2>2 DEF OutlookInv, AllServed
    <3> PICK a \in Batches : a = call[d].batch
      BY <3>1 DEF Served
    <3>2. To(a)' = To(a) /\ MailOf(a)' = MailOf(a)
      BY <1>2, WindowKept
    <3>3. Served(d, a)'
      BY <1>1, <3>1, <3>2 DEF Served
    <3> QED
      BY <3>1, <3>3
  <2> QED
    BY <2>1, <2>2
<1>5. \A a \in Batches : /\ ledger'[a].state # "none" => window[a] # <<>>
                         /\ ledger'[a].state = "completed" => ledger[a].state = "completed"
  BY <1>1 DEF OutlookInv, TypeOK, Known
<1> QED
  BY <1>1, <1>2, <1>4, <1>5, AccountsKept

\* A call goes on, or ends, without a receipt; nothing but itself, its tokens, its ledger
\* row and the reservation changes.
LEMMA OutcomeStates ==
  ASSUME TypeOK, NEW c \in Calls, NEW s \in {"failed", "completed"}, Outcome(c, s), NEW b \in Batches
  PROVE  ledger'[b].state = ledger[b].state \/ (b = call[c].batch /\ ledger'[b].state = s)
<1> DEFINE row == [state |-> s, holder |-> Nobody, live |-> FALSE]
<1>1. ledger \in [Batches -> LedgerRow]
  BY DEF TypeOK
<1>2. CASE b # call[c].batch
  BY <1>1, <1>2 DEF Outcome
<1>3. CASE b = call[c].batch
  <2>1. ledger'[b] = row \/ ledger'[b] = ledger[b]
    BY <1>1, <1>3 DEF Outcome
  <2> QED
    BY <1>3, <2>1
<1> QED
  BY <1>2, <1>3

LEMMA CallGone ==
  ASSUME OutlookInv, TypeOK', NEW c \in Calls, CallEnds(c), window' = window, checkpoint' = checkpoint, item' = item
  PROVE  Kept /\ AllServed'
<1>1. Kept
  BY DEF Kept, OutlookInv, TypeOK
<1>2. \A d \in Calls : call'[d] = call[d] \/ call'[d].pc = "idle"
  BY DEF CallEnds, NoCall, Serving, OutlookInv, TypeOK
<1> QED
  BY <1>1, <1>2, CallsServed DEF OutlookInv

LEMMA FailAccounts ==
  ASSUME OutlookInv, TypeOK', NEW c \in Calls, call[c].pc # "idle", CallFails(c),
         window' = window, checkpoint' = checkpoint, item' = item
  PROVE  Accounts'
<1>1. Kept /\ AllServed'
  BY CallGone DEF CallFails
<1>2. call[c].batch \in Batches /\ window[call[c].batch] # <<>>
  BY CallsBatch DEF OutlookInv
<1>3. \A b \in Batches : ledger'[b].state = ledger[b].state \/ (b = call[c].batch /\ ledger'[b].state = "failed")
  BY OutcomeStates DEF CallFails, OutlookInv
<1>4. \A b \in Batches : /\ ledger'[b].state # "none" => window[b] # <<>>
                         /\ ledger'[b].state = "completed" => ledger[b].state = "completed"
  BY <1>2, <1>3 DEF OutlookInv, Known
<1> QED
  BY <1>1, <1>4, AccountsKept

LEMMA ReceiptAccounts ==
  ASSUME OutlookInv, TypeOK', NEW c \in Calls, Receipt(c)
  PROVE  Accounts'
<1>1. /\ call[c].pc = "done" /\ Outcome(c, "completed") /\ CallEnds(c)
      /\ window' = window /\ checkpoint' = checkpoint /\ item' = item
  BY DEF Receipt
<1>2. Kept /\ AllServed'
  BY <1>1, CallGone
<1>3. call[c].batch \in Batches /\ window[call[c].batch] # <<>> /\ checkpoint >= To(call[c].batch)
  BY <1>1 DEF OutlookInv, AllServed, Served
<1>4. \A b \in Batches : ledger'[b].state = ledger[b].state \/ (b = call[c].batch /\ ledger'[b].state = "completed")
  BY <1>1, OutcomeStates DEF OutlookInv
<1>5. \A b \in Batches :
        /\ ledger'[b].state # "none" => window[b] # <<>>
        /\ ledger'[b].state = "completed" => ledger[b].state = "completed" \/ checkpoint' >= To(b)
  BY <1>1, <1>3, <1>4 DEF OutlookInv, Known
<1> QED
  BY <1>1, <1>2, <1>5, AccountsKept

LEMMA LostAccounts ==
  ASSUME OutlookInv, TypeOK', NEW c \in Calls, CallLost(c)
  PROVE  Accounts'
<1>1. CallEnds(c) /\ window' = window /\ checkpoint' = checkpoint /\ item' = item
  BY DEF CallLost
<1>2. Kept /\ AllServed'
  BY <1>1, CallGone
<1>3. \A b \in Batches : ledger'[b].state = ledger[b].state
  BY DEF CallLost, Forgotten, OutlookInv, TypeOK, LedgerRow
<1> QED
  BY <1>1, <1>2, <1>3, AccountsKept DEF OutlookInv, Known
LEMMA ReserveAccounts == ASSUME OutlookInv, TypeOK', NEW c \in Calls, Reserve(c) PROVE Accounts'
<1> DEFINE b == call[c].batch
<1>1. call[c].pc = "reserve" /\ window' = window /\ checkpoint' = checkpoint /\ item' = item
  BY DEF Reserve
<1>2. CASE CallFails(c)
  BY <1>1, <1>2, FailAccounts
<1>3. CASE /\ ledger' = ledger
           /\ \E token \in BOOLEAN : call' = [call EXCEPT ![c] = Serving("accept", b, call[c].todo, token, "none")]
  <2> PICK token \in BOOLEAN : call' = [call EXCEPT ![c] = Serving("accept", b, call[c].todo, token, "none")]
    BY <1>3
  <2>1. /\ call'[c].pc = "accept" /\ call'[c].batch = b /\ call'[c].todo = call[c].todo
        /\ \A d \in Calls \ {c} : call'[d] = call[d]
    BY DEF OutlookInv, TypeOK, Serving
  <2>2. Kept
    BY <1>1 DEF Kept, OutlookInv, TypeOK
  <2>3. Served(c, b)
    BY <1>1 DEF OutlookInv, AllServed
  <2> PICK a \in Batches : a = b
    BY <2>3 DEF Served
  <2>4. MailOf(a)' = MailOf(a)
    BY <2>2, WindowKept
  <2>5. Served(c, a)'
    BY <1>1, <2>1, <2>3, <2>4 DEF Served
  <2>6. AllServed'
    BY <2>1, <2>2, <2>5, OthersServed DEF OutlookInv
  <2> QED
    BY <1>1, <1>3, <2>2, <2>6, AccountsKept DEF OutlookInv, Known
<1> QED
  BY <1>2, <1>3 DEF Reserve

LEMMA AcceptAccounts == ASSUME OutlookInv, TypeOK', NEW c \in Calls, Accept(c) PROVE Accounts'
<1> DEFINE b == call[c].batch
           n == Min(call[c].todo)
<1>1. /\ call[c].pc = "accept" /\ call[c].todo # {} /\ UNCHANGED <<window, checkpoint, ledger>>
      /\ item' = [item EXCEPT ![n] = Upserted(n, b)]
      /\ call' = [call EXCEPT ![c] = Serving("accept", b, call[c].todo \ {n}, call[c].token, "none")]
  BY DEF Accept
<1> HIDE DEF n
<1>2. /\ call'[c].pc = "accept" /\ call'[c].batch = b /\ call'[c].todo = call[c].todo \ {n}
      /\ \A d \in Calls \ {c} : call'[d] = call[d]
  BY <1>1 DEF OutlookInv, TypeOK, Serving
<1>3. n \in Mail => item'[n].state # "none"
  <2>1. Upserted(n, b).state # "none"
    BY DEF Upserted
  <2> QED
    BY <1>1, <2>1 DEF OutlookInv, TypeOK
<1>4. \A m \in Mail : m # n => item'[m] = item[m]
  BY <1>1 DEF OutlookInv, TypeOK
<1>5. Kept
  BY <1>1, <1>3, <1>4 DEF Kept, OutlookInv, TypeOK
<1>6. Served(c, b)
  BY <1>1 DEF OutlookInv, AllServed
<1> PICK a \in Batches : a = b
  BY <1>6 DEF Served
<1>7. MailOf(a)' = MailOf(a) /\ MailOf(a) \subseteq Mail
  BY <1>5, WindowKept DEF MailOf
<1>8. \A m \in MailOf(a) : m \in call'[c].todo \/ item'[m].state # "none"
  BY <1>2, <1>3, <1>4, <1>6, <1>7 DEF Served
<1>9. Served(c, a)'
  BY <1>1, <1>2, <1>6, <1>7, <1>8 DEF Served
<1>10. AllServed'
  BY <1>2, <1>5, <1>9, OthersServed DEF OutlookInv
<1> QED
  BY <1>1, <1>5, <1>10, AccountsKept DEF OutlookInv, Known

LEMMA BeginAccounts == ASSUME OutlookInv, TypeOK', NEW c \in Calls, BeginFinalize(c) PROVE Accounts'
<1> DEFINE b == call[c].batch
<1>1. /\ call[c].pc = "accept" /\ call[c].todo = {} /\ UNCHANGED <<window, checkpoint, ledger, item>>
      /\ call' = [call EXCEPT ![c] = Serving("finalize", b, {}, call[c].token, batch[b])]
  BY DEF BeginFinalize
<1>2. /\ call'[c].pc = "finalize" /\ call'[c].batch = b /\ call'[c].todo = {}
      /\ \A d \in Calls \ {c} : call'[d] = call[d]
  BY <1>1 DEF OutlookInv, TypeOK, Serving
<1>3. Kept
  BY <1>1 DEF Kept, OutlookInv, TypeOK
<1>4. Served(c, b)
  BY <1>1 DEF OutlookInv, AllServed
<1> PICK a \in Batches : a = b
  BY <1>4 DEF Served
<1>5. MailOf(a)' = MailOf(a)
  BY <1>3, WindowKept
<1>6. Served(c, a)'
  BY <1>1, <1>2, <1>4, <1>5 DEF Served
<1>7. AllServed'
  BY <1>2, <1>3, <1>6, OthersServed DEF OutlookInv
<1> QED
  BY <1>1, <1>3, <1>7, AccountsKept DEF OutlookInv, Known

\* The checkpoint moves from where the batch was scanned from to where it was scanned to,
\* or stays there; what it passes is the batch's, and has been seen to.
LEMMA FinalizeAccounts == ASSUME OutlookInv, TypeOK', NEW c \in Calls, Finalize(c) PROVE Accounts'
<1> DEFINE b == call[c].batch
<1>1. call[c].pc = "finalize" /\ window' = window /\ item' = item
  BY DEF Finalize
<1>2. CASE ~MayFinalize(c, b)
  <2>1. CallFails(c) /\ checkpoint' = checkpoint
    BY <1>2 DEF Finalize
  <2> QED
    BY <1>1, <2>1, FailAccounts
<1>3. CASE MayFinalize(c, b)
  <2>1. /\ checkpoint' = To(b) /\ ledger' = ledger
        /\ call' = [call EXCEPT ![c] = Serving("done", b, {}, FALSE, "none")]
    BY <1>3 DEF Finalize
  <2>2. checkpoint = From(b) \/ checkpoint = To(b)
    BY <1>3 DEF MayFinalize
  <2>3. Served(c, b) /\ call[c].todo = {}
    BY <1>1 DEF OutlookInv, AllServed, Served
  <2>4. /\ call'[c].pc = "done" /\ call'[c].batch = b /\ call'[c].todo = {}
        /\ \A d \in Calls \ {c} : call'[d] = call[d]
    BY <2>1 DEF OutlookInv, TypeOK, Serving
  <2> PICK a \in Batches : a = b
    BY <2>3 DEF Served
  <2>5. From(a) \in Nat /\ To(a) \in Nat /\ From(a) < To(a) /\ checkpoint \in Nat
    BY <2>3 DEF OutlookInv, TypeOK, Forward, Served, From, To
  <2>6. checkpoint' >= checkpoint
    BY <2>1, <2>2, <2>5
  <2>7. Kept
    BY <1>1, <2>6 DEF Kept
  <2>8. CheckpointCovers'
    <3> SUFFICES ASSUME NEW m \in Mail, m <= To(a) PROVE item[m].state # "none"
      BY <1>1, <2>1 DEF CheckpointCovers
    <3>1. m \in Nat
      BY MailAssumption
    <3>2. CASE m <= From(a)
      <4>1. m <= checkpoint
        BY <2>2, <2>5, <3>1, <3>2
      <4> QED
        BY <4>1 DEF OutlookInv, CheckpointCovers
    <3>3. CASE From(a) < m
      <4>1. m \in MailOf(a)
        BY <3>3 DEF MailOf
      <4> QED
        BY <2>3, <4>1 DEF Served
    <3> QED
      BY <2>5, <3>1, <3>2, <3>3
  <2>9. MailOf(a)' = MailOf(a) /\ To(a)' = To(a)
    BY <2>7, WindowKept
  <2>10. checkpoint' >= To(a)
    BY <2>1, <2>5
  <2>11. \A m \in MailOf(a) : item'[m].state # "none"
    BY <1>1, <2>3 DEF Served
  <2>12. Served(c, a)'
    BY <1>1, <2>3, <2>4, <2>9, <2>10, <2>11 DEF Served
  <2>13. AllServed'
    BY <2>4, <2>7, <2>12, OthersServed DEF OutlookInv
  <2> QED
    BY <2>1, <2>7, <2>8, <2>13, AccountsKept DEF OutlookInv, Known
<1> QED
  BY <1>2, <1>3
-----------------------------------------------------------------------------
(* The theorems *)

LEMMA SubmissionStep ==
  ASSUME OutlookInv, NEW c \in Calls,
         CallStep(c) \/ AcceptFails(c) \/ CallLost(c) \/ \E b \in Batches : Submit(c, b)
  PROVE  TypeOK' /\ Accounts'
<1>1. TypeOK'
  BY SubmissionTyped, CallsBatch DEF OutlookInv
<1>2. CASE \E b \in Batches : Submit(c, b)
  BY <1>1, <1>2, SubmitAccounts
<1>3. CASE AcceptFails(c)
  <2>1. /\ call[c].pc # "idle" /\ CallFails(c)
        /\ window' = window /\ checkpoint' = checkpoint /\ item' = item
    BY <1>3 DEF AcceptFails
  <2> QED
    BY <1>1, <2>1, FailAccounts
<1>4. CASE CallLost(c)
  BY <1>1, <1>4, LostAccounts
<1>5. CASE CallStep(c)
  BY <1>1, <1>5, ReserveAccounts, AcceptAccounts, BeginAccounts, FinalizeAccounts, ReceiptAccounts DEF CallStep
<1> QED
  BY <1>2, <1>3, <1>4, <1>5

LEMMA OutlookInit == Init => OutlookInv
<1> SUFFICES ASSUME Init PROVE OutlookInv
  OBVIOUS
<1>1. TypeOK
  BY InitTyped
<1>2. Forward /\ Known /\ ReceiptTrue /\ AllServed
  BY DEF Init, Forward, Known, ReceiptTrue, AllServed, NoCall, Serving
<1>3. CheckpointCovers
  BY MailAssumption DEF Init, CheckpointCovers
<1> QED
  BY <1>1, <1>2, <1>3 DEF OutlookInv

LEMMA OutlookNext == OutlookInv /\ [Next]_vars => OutlookInv'
<1> SUFFICES ASSUME OutlookInv, [Next]_vars PROVE TypeOK' /\ Accounts'
  BY DEF OutlookInv, Accounts
<1>1. CASE \E b \in Batches : Scan(b)
  <2>1. TypeOK'
    BY <1>1, ScanTyped DEF OutlookInv
  <2> QED
    BY <1>1, <2>1, ScanAccounts
<1>2. CASE \E b \in Batches : ClaimTask(b) \/ BriefingStep(b) \/ BriefingFails(b) \/ RunEnds(b)
  <2>1. TypeOK'
    BY <1>2, BriefingTyped DEF OutlookInv
  <2> QED
    BY <1>2, <2>1, BackgroundAccounts
<1>3. CASE \E c \in Calls : CallStep(c) \/ AcceptFails(c) \/ CallLost(c) \/ \E b \in Batches : Submit(c, b)
  BY <1>3, SubmissionStep
<1>4. CASE (\E m \in Mail : ClaimItem(m)) \/ CompleteItem \/ ItemFails \/ CompleteItemFails
  <2>1. TypeOK'
    BY <1>4, ItemsTyped DEF OutlookInv
  <2> QED
    BY <1>4, <2>1, BackgroundAccounts
<1>5. CASE Stop
  BY <1>5, StopTyped, StopAccounts DEF OutlookInv
<1>6. CASE Lapse
  BY <1>6, LapseTyped, BackgroundAccounts DEF OutlookInv
<1>7. CASE UNCHANGED vars
  BY <1>7 DEF vars, submission, briefing, OutlookInv, Accounts, TypeOK, Forward, AllServed, Served, Known,
    CheckpointCovers, ReceiptTrue, From, To, MailOf
<1> QED
  BY <1>1, <1>2, <1>3, <1>4, <1>5, <1>6, <1>7 DEF Next

\* The invariant holds of every behavior of the submission and the loop.
THEOREM OutlookInvariant == Spec => []OutlookInv
BY OutlookInit, OutlookNext, PTL DEF Spec

\* Every row the gateway and the loop write has its type.
THEOREM TypeCorrect == Spec => []TypeOK
<1>1. OutlookInv => TypeOK
  BY DEF OutlookInv
<1> QED
  BY <1>1, OutlookInvariant, PTL

\* The checkpoint of a mailbox never passes mail that was not accepted
\* (FinalizeOutlookIngestionBatch, registerOutlookIngestionTool).
THEOREM CheckpointCoversCorrect == Spec => []CheckpointCovers
<1>1. OutlookInv => CheckpointCovers
  BY DEF OutlookInv
<1> QED
  BY <1>1, OutlookInvariant, PTL

\* A receipt in the action ledger is true for ever: its watermark was committed and no
\* later batch, retry or restart takes it back (addMCPTool, FinalizeOutlookIngestionBatch).
THEOREM ReceiptTrueCorrect == Spec => []ReceiptTrue
<1>1. OutlookInv => ReceiptTrue
  BY DEF OutlookInv
<1> QED
  BY <1>1, OutlookInvariant, PTL
-----------------------------------------------------------------------------
(* What the run of a batch was given *)

\* A batch with a finalized submission and no item left, and one that is closed: it has
\* all the items it will have, or was completed early.
AllDone(b) == history[b] = "final" /\ \A m \in ItemsOf(b) : item[m].state = "completed"
Closed(b) == history[b] = "early" \/ AllDone(b)

\* A finalized batch is behind the checkpoint, so that it gains no item.
Fixed == \A b \in Batches : history[b] = "final" => window[b] # <<>> /\ checkpoint >= To(b)

\* A call accepts the mail of its own batch; mail that was not accepted is in no batch.
InBatch == \A c \in Calls : call[c].pc # "idle" => call[c].todo \subseteq MailOf(call[c].batch)
Fresh == \A m \in Mail : item[m].state = "none" => item[m].batch = Nobody

\* What the loop has in hand.
InHand ==
  /\ worker.at = "item" => worker.on \in Mail /\ item[worker.on].state = "processing"
  /\ worker.at \in {"brief", "create", "link", "finish"} =>
       worker.on \in Batches /\ task[worker.on].state # "none"
  /\ worker.at \in {"create", "link"} => trigger[worker.on].state # "none"

\* A batch is completed, is seen to be by a call, or has a task, only once it is closed.
Looked(b) == \E c \in Calls : call[c].pc = "finalize" /\ call[c].batch = b /\ call[c].seen = "completed"
Noted(b) == batch[b] = "completed" \/ task[b].state # "none" \/ Looked(b)
Over == \A b \in Batches : Noted(b) => Closed(b)

\* A run comes of a trigger, a trigger of a task, and its input is that of the closed batch.
Given ==
  \A b \in Batches :
    /\ run[b] # "none" => trigger[b].state # "none"
    /\ trigger[b].state # "none" => task[b].state # "none" /\ (history[b] = "early" \/ trigger[b].input = ItemsOf(b))

BriefInv == OutlookInv /\ Fixed /\ InBatch /\ Fresh /\ InHand /\ Over /\ Given

\* What no step does to a batch, an item or a call: a finalized batch gains no item, a
\* completed item stays as it is, and no batch is noted that is not closed.
ItemMoves(m) ==
  \/ item'[m] = item[m]
  \/ /\ item'[m].state # "none" /\ item[m].state # "completed"
     /\ \/ item[m].state # "none" /\ item'[m].batch = item[m].batch
        \/ item[m].state = "none" /\ history[item'[m].batch] # "final"
CallMoves(c) ==
  \/ call'[c] = call[c] \/ call'[c].pc = "idle"
  \/ \E b \in Batches : /\ call'[c].batch = b /\ window[b] # <<>>
                        /\ call'[c].todo \subseteq MailOf(b)
HistoryMoves(b) ==
  \/ history'[b] = history[b]
  \/ history[b] = "open" /\ (history'[b] = "final" => window[b] # <<>> /\ checkpoint' >= To(b))
TaskMoves(b) ==
  /\ task[b].state # "none" => task'[b].state # "none"
  /\ trigger[b].state # "none" => trigger'[b].state # "none" /\ trigger'[b].input = trigger[b].input
  /\ trigger[b].state = "none" /\ trigger'[b].state # "none" =>
       task[b].state # "none" /\ trigger'[b].input = Covered(b)
  /\ run'[b] # "none" => run[b] # "none" \/ trigger[b].state # "none"
Moves ==
  /\ checkpoint' >= checkpoint
  /\ \A m \in Mail : ItemMoves(m)
  /\ \A c \in Calls : CallMoves(c)
  /\ \A b \in Batches : /\ window[b] # <<>> => window'[b] = window[b]
                        /\ HistoryMoves(b) /\ TaskMoves(b)
                        /\ Noted(b)' => Noted(b) \/ Closed(b)'

LEMMA ClosedStays ==
  ASSUME Moves, NEW b \in Batches
  PROVE  /\ Closed(b) => Closed(b)'
         /\ AllDone(b) => ItemsOf(b)' = ItemsOf(b)
<1>1. /\ HistoryMoves(b)
      /\ \A m \in Mail : ItemMoves(m)
  BY DEF Moves
<1>2. ASSUME AllDone(b), NEW m \in Mail
      PROVE  /\ item'[m].batch = b <=> item[m].batch = b
             /\ item'[m].batch = b => item'[m].state = "completed"
  <2>1. history[b] = "final" /\ (item[m].batch = b => item[m].state = "completed")
    BY <1>2 DEF AllDone, ItemsOf
  <2>2. CASE item'[m] = item[m]
    BY <2>1, <2>2
  <2>3. CASE item'[m] # item[m]
    <3>1. /\ item[m].state # "completed"
          /\ item'[m].batch = item[m].batch \/ history[item'[m].batch] # "final"
      BY <1>1, <2>3 DEF ItemMoves
    <3>2. item[m].batch # b /\ item'[m].batch # b
      BY <2>1, <3>1
    <3> QED
      BY <3>2
  <2> QED
    BY <2>2, <2>3
<1>3. AllDone(b) => ItemsOf(b)' = ItemsOf(b)
  BY <1>2 DEF ItemsOf
<1>4. AllDone(b) => AllDone(b)'
  <2> SUFFICES ASSUME AllDone(b) PROVE AllDone(b)'
    OBVIOUS
  <2>1. history'[b] = "final"
    BY <1>1 DEF HistoryMoves, AllDone
  <2>2. \A m \in ItemsOf(b)' : item'[m].state = "completed"
    BY <1>2 DEF ItemsOf
  <2> QED
    BY <2>1, <2>2 DEF AllDone
<1>5. history[b] = "early" => history'[b] = "early"
  BY <1>1 DEF HistoryMoves
<1> QED
  BY <1>3, <1>4, <1>5 DEF Closed

\* A step that moves so leaves everything but what the loop has in hand to be shown.
LEMMA MovesKeep ==
  ASSUME BriefInv, TypeOK', Moves
  PROVE  Fixed' /\ InBatch' /\ Fresh' /\ Over' /\ Given'
<1>1. ASSUME NEW b \in Batches, window[b] # <<>>
      PROVE  window'[b] = window[b] /\ To(b)' = To(b) /\ MailOf(b)' = MailOf(b)
  <2>1. window'[b] = window[b]
    BY <1>1 DEF Moves
  <2> QED
    BY <2>1 DEF To, From, MailOf
<1>2. Fixed'
  <2> SUFFICES ASSUME NEW b \in Batches, history'[b] = "final"
               PROVE  window'[b] # <<>> /\ checkpoint' >= To(b)'
    BY DEF Fixed
  <2>1. window[b] # <<>> /\ checkpoint' >= To(b)
    <3>1. CASE history[b] = "final"
      <4>1. window[b] # <<>> /\ checkpoint >= To(b)
        BY <3>1 DEF BriefInv, Fixed
      <4>2. To(b) \in Nat /\ checkpoint \in Nat /\ checkpoint' \in Nat
        BY <4>1 DEF BriefInv, OutlookInv, TypeOK, To
      <4>3. checkpoint' >= checkpoint
        BY DEF Moves
      <4> QED
        BY <4>1, <4>2, <4>3
    <3>2. CASE history[b] # "final"
      BY <3>2 DEF Moves, HistoryMoves
    <3> QED
      BY <3>1, <3>2
  <2> QED
    BY <1>1, <2>1
<1>3. InBatch'
  <2> SUFFICES ASSUME NEW c \in Calls, call'[c].pc # "idle"
               PROVE  call'[c].todo \subseteq MailOf(call[c].batch)'
    BY DEF InBatch
  <2>1. PICK b \in Batches : call'[c].batch = b /\ window[b] # <<>> /\ call'[c].todo \subseteq MailOf(b)
    <3>1. CASE call'[c] = call[c]
      BY <3>1, CallsBatch DEF BriefInv, OutlookInv, InBatch
    <3>2. CASE call'[c] # call[c]
      BY <3>2 DEF Moves, CallMoves
    <3> QED
      BY <3>1, <3>2
  <2>2. MailOf(b)' = MailOf(b)
    BY <1>1, <2>1
  <2>3. MailOf(call[c].batch)' = MailOf(b)'
    BY <2>1 DEF MailOf, From, To
  <2> QED
    BY <2>1, <2>2, <2>3
<1>4. Fresh'
  <2> SUFFICES ASSUME NEW m \in Mail, item'[m].state = "none" PROVE item'[m].batch = Nobody
    BY DEF Fresh
  <2>1. item'[m] = item[m]
    BY DEF Moves, ItemMoves
  <2> QED
    BY <2>1 DEF BriefInv, Fresh
<1>5. Over'
  <2> SUFFICES ASSUME NEW b \in Batches, Noted(b)' PROVE Closed(b)'
    BY DEF Over
  <2>1. Noted(b) \/ Closed(b)'
    BY DEF Moves
  <2> QED
    BY <2>1, ClosedStays DEF BriefInv, Over
<1>6. Given'
  <2> SUFFICES ASSUME NEW b \in Batches
               PROVE  /\ run'[b] # "none" => trigger'[b].state # "none"
                      /\ trigger'[b].state # "none" =>
                           task'[b].state # "none" /\ (history'[b] = "early" \/ trigger'[b].input = ItemsOf(b)')
    BY DEF Given
  <2>1. TaskMoves(b) /\ HistoryMoves(b)
    BY DEF Moves
  <2>2. run'[b] # "none" => trigger'[b].state # "none"
    BY <2>1 DEF TaskMoves, BriefInv, Given
  <2>3. ASSUME trigger'[b].state # "none"
        PROVE  task'[b].state # "none" /\ (history'[b] = "early" \/ trigger'[b].input = ItemsOf(b)')
    <3>1. task[b].state # "none" /\ task'[b].state # "none"
      BY <2>1, <2>3 DEF TaskMoves, BriefInv, Given
    <3>2. Closed(b)
      BY <3>1 DEF BriefInv, Over, Noted
    <3>3. CASE history[b] = "early"
      BY <2>1, <3>1, <3>3 DEF HistoryMoves
    <3>4. CASE AllDone(b)
      <4>1. ItemsOf(b)' = ItemsOf(b)
        BY <3>4, ClosedStays
      <4>2. Covered(b) = ItemsOf(b) /\ history[b] # "early"
        BY <3>4 DEF Covered, AllDone
      <4>3. trigger'[b].input = ItemsOf(b)
        BY <2>1, <2>3, <4>2 DEF TaskMoves, BriefInv, Given
      <4> QED
        BY <3>1, <4>1, <4>3
    <3> QED
      BY <3>2, <3>3, <3>4 DEF Closed
  <2> QED
    BY <2>2, <2>3
<1> QED
  BY <1>2, <1>3, <1>4, <1>5, <1>6

\* A step of the submission that takes no item, and finalizes nothing.
Quiet ==
  /\ UNCHANGED <<window, checkpoint, briefing, item, worker, history>>
  /\ \A b \in Batches : batch'[b] = "completed" => batch[b] = "completed"
  /\ \A c \in Calls :
       /\ CallMoves(c)
       /\ call'[c].pc = "finalize" /\ call'[c].seen = "completed" =>
            call'[c] = call[c] \/ batch[call'[c].batch] = "completed"

LEMMA QuietMoves ==
  ASSUME BriefInv, Quiet
  PROVE  Moves /\ InHand'
<1>1. UNCHANGED <<window, checkpoint, task, trigger, run, item, worker, history>>
  BY DEF Quiet, briefing
<1>2. ASSUME NEW b \in Batches, Noted(b)' PROVE Noted(b)
  <2>1. CASE Looked(b)'
    <3> PICK c \in Calls : call'[c].pc = "finalize" /\ call'[c].batch = b /\ call'[c].seen = "completed"
      BY <2>1 DEF Looked
    <3> QED
      BY DEF Quiet, Noted, Looked
  <2>2. CASE ~Looked(b)'
    BY <1>1, <1>2, <2>2 DEF Quiet, Noted
  <2> QED
    BY <2>1, <2>2
<1>3. checkpoint' >= checkpoint
  BY <1>1 DEF BriefInv, OutlookInv, TypeOK
<1>4. \A m \in Mail : ItemMoves(m)
  BY <1>1 DEF ItemMoves
<1>5. \A b \in Batches : HistoryMoves(b) /\ TaskMoves(b)
  BY <1>1 DEF HistoryMoves, TaskMoves
<1>6. Moves
  BY <1>1, <1>2, <1>3, <1>4, <1>5 DEF Moves, Quiet
<1>7. InHand'
  BY <1>1 DEF BriefInv, InHand
<1> QED
  BY <1>6, <1>7

\* A call that ends, or goes on, with every other call left as it is.
LEMMA OneCallQuiet ==
  ASSUME BriefInv, NEW c \in Calls, NEW row, call' = [call EXCEPT ![c] = row],
         \/ row.pc = "idle"
         \/ \E b \in Batches :
              /\ row.batch = b /\ window[b] # <<>> /\ row.todo \subseteq MailOf(b)
              /\ row.pc = "finalize" /\ row.seen = "completed" => batch[b] = "completed"
  PROVE  \A d \in Calls :
           /\ CallMoves(d)
           /\ call'[d].pc = "finalize" /\ call'[d].seen = "completed" =>
                call'[d] = call[d] \/ batch[call'[d].batch] = "completed"
<1> SUFFICES ASSUME NEW d \in Calls
             PROVE  /\ CallMoves(d)
                    /\ call'[d].pc = "finalize" /\ call'[d].seen = "completed" =>
                         call'[d] = call[d] \/ batch[call'[d].batch] = "completed"
  OBVIOUS
<1>1. call \in [Calls -> Call]
  BY DEF BriefInv, OutlookInv, TypeOK
<1>2. CASE d # c
  BY <1>1, <1>2 DEF CallMoves
<1>3. CASE d = c
  <2>1. call'[d] = row
    BY <1>1, <1>3
  <2>2. CASE row.pc = "idle"
    BY <2>1, <2>2 DEF CallMoves
  <2>3. CASE row.pc # "idle"
    <3> PICK b \in Batches :
          /\ row.batch = b /\ window[b] # <<>> /\ row.todo \subseteq MailOf(b)
          /\ row.pc = "finalize" /\ row.seen = "completed" => batch[b] = "completed"
      BY <2>3
    <3> QED
      BY <2>1 DEF CallMoves
  <2> QED
    BY <2>2, <2>3
<1> QED
  BY <1>2, <1>3

\* What is known of a call at the start of its step.
LEMMA CallKnown ==
  ASSUME BriefInv, NEW c \in Calls, call[c].pc # "idle"
  PROVE  call[c].batch \in Batches /\ window[call[c].batch] # <<>> /\ call[c].todo \subseteq MailOf(call[c].batch)
BY CallsBatch DEF BriefInv, OutlookInv, InBatch

LEMMA EndQuiet ==
  ASSUME BriefInv, NEW c \in Calls, CallEnds(c), batch' = batch,
         UNCHANGED <<window, checkpoint, briefing, item, worker, history>>
  PROVE  Quiet
<1>1. NoCall.pc = "idle" /\ call' = [call EXCEPT ![c] = NoCall]
  BY DEF CallEnds, NoCall, Serving
<1> QED
  BY <1>1, OneCallQuiet DEF Quiet

LEMMA SubmissionQuiet ==
  ASSUME BriefInv, NEW c \in Calls,
         \/ Reserve(c) \/ BeginFinalize(c) \/ Receipt(c) \/ AcceptFails(c) \/ CallLost(c)
         \/ \E b \in Batches : Submit(c, b)
  PROVE  Quiet
<1>1. CASE Receipt(c) \/ AcceptFails(c) \/ CallLost(c)
  <2>1. /\ CallEnds(c) /\ batch' = batch
        /\ UNCHANGED <<window, checkpoint, briefing, item, worker, history>>
    BY <1>1 DEF Receipt, AcceptFails, CallLost, CallFails, briefing
  <2> QED
    BY <2>1, EndQuiet
<1>2. CASE \E b \in Batches : Submit(c, b)
  <2> PICK b \in Batches : Submit(c, b)
    BY <1>2
  <2> DEFINE row == Serving("reserve", b, MailOf(b), FALSE, "none")
  <2>1. /\ call' = [call EXCEPT ![c] = row] /\ window[b] # <<>> /\ batch' = batch
        /\ UNCHANGED <<window, checkpoint, briefing, item, worker, history>>
    BY DEF Submit, briefing
  <2>2. row.pc = "reserve" /\ row.batch = b /\ row.todo = MailOf(b)
    BY DEF Serving
  <2> HIDE DEF row
  <2>3. /\ row.batch = b /\ window[b] # <<>> /\ row.todo \subseteq MailOf(b)
        /\ row.pc = "finalize" /\ row.seen = "completed" => batch[b] = "completed"
    BY <2>1, <2>2
  <2> QED
    BY <2>1, <2>3, OneCallQuiet DEF Quiet
<1>3. CASE BeginFinalize(c)
  <2>1. call[c].pc = "accept"
    BY <1>3 DEF BeginFinalize
  <2> PICK b \in Batches : b = call[c].batch /\ window[b] # <<>>
    BY <2>1, CallKnown
  <2> DEFINE row == Serving("finalize", b, {}, call[c].token, batch[b])
  <2>2. /\ call' = [call EXCEPT ![c] = row] /\ batch' = batch
        /\ UNCHANGED <<window, checkpoint, briefing, item, worker, history>>
    BY <1>3 DEF BeginFinalize, briefing
  <2>3. row.batch = b /\ row.todo = {} /\ row.seen = batch[b]
    BY DEF Serving
  <2> HIDE DEF row
  <2>4. /\ row.batch = b /\ window[b] # <<>> /\ row.todo \subseteq MailOf(b)
        /\ row.pc = "finalize" /\ row.seen = "completed" => batch[b] = "completed"
    BY <2>3
  <2> QED
    BY <2>2, <2>4, OneCallQuiet DEF Quiet
<1>4. CASE Reserve(c)
  <2>1. call[c].pc = "reserve"
    BY <1>4 DEF Reserve
  <2> PICK b \in Batches : b = call[c].batch /\ window[b] # <<>> /\ call[c].todo \subseteq MailOf(b)
    BY <2>1, CallKnown
  <2>2. UNCHANGED <<window, checkpoint, briefing, item, worker, history>>
    BY <1>4 DEF Reserve, briefing
  <2>3. \A a \in Batches : batch'[a] = "completed" => batch[a] = "completed"
    BY <1>4 DEF Reserve, BriefInv, OutlookInv, TypeOK
  <2>4. CASE CallFails(c) /\ batch' = batch
    BY <2>2, <2>4, EndQuiet DEF CallFails
  <2>5. CASE \E token \in BOOLEAN : call' = [call EXCEPT ![c] = Serving("accept", b, call[c].todo, token, "none")]
    <3> PICK token \in BOOLEAN : call' = [call EXCEPT ![c] = Serving("accept", b, call[c].todo, token, "none")]
      BY <2>5
    <3> DEFINE row == Serving("accept", b, call[c].todo, token, "none")
    <3>1. row.pc = "accept" /\ row.batch = b /\ row.todo = call[c].todo
      BY DEF Serving
    <3>2. call' = [call EXCEPT ![c] = row]
      OBVIOUS
    <3> HIDE DEF row
    <3>3. /\ row.batch = b /\ window[b] # <<>> /\ row.todo \subseteq MailOf(b)
          /\ row.pc = "finalize" /\ row.seen = "completed" => batch[b] = "completed"
      BY <3>1
    <3> QED
      BY ZenonT(60), <2>2, <2>3, <3>2, <3>3, OneCallQuiet DEF Quiet
  <2> QED
    BY <1>4, <2>4, <2>5 DEF Reserve
<1> QED
  BY <1>1, <1>2, <1>3, <1>4

LEMMA StopMoves == ASSUME BriefInv, Stop PROVE Moves /\ InHand'
<1>1. /\ UNCHANGED <<window, checkpoint, task, trigger, run, batch, item, history>>
      /\ worker' = Tick /\ call' = [c \in Calls |-> NoCall]
  BY DEF Stop, briefing
<1>2. \A c \in Calls : call'[c].pc = "idle"
  BY <1>1 DEF NoCall, Serving
<1>3. \A b \in Batches : Noted(b)' => Noted(b)
  BY <1>1, <1>2 DEF Noted, Looked
<1>4. checkpoint' >= checkpoint
  BY <1>1 DEF BriefInv, OutlookInv, TypeOK
<1>5. \A m \in Mail : ItemMoves(m)
  BY <1>1 DEF ItemMoves
<1>6. \A b \in Batches : HistoryMoves(b) /\ TaskMoves(b)
  BY <1>1 DEF HistoryMoves, TaskMoves
<1>7. Moves
  BY <1>1, <1>2, <1>3, <1>4, <1>5, <1>6 DEF Moves, CallMoves
<1>8. InHand'
  BY <1>1 DEF InHand, Tick
<1> QED
  BY <1>7, <1>8

\* A call takes an item it has: a set of times has a first.
LEMMA MinOf ==
  ASSUME NEW S \in SUBSET Nat, S # {}
  PROVE  Min(S) \in S
<1> DEFINE Less == {ss \in Nat \X Nat : ss[1] < ss[2]}
<1>1. OpToRel(<, Nat) = Less
  BY DEF OpToRel
<1>2. IsWellFoundedOn(Less, Nat)
  BY <1>1, NatLessThanWellFounded
<1>3. PICK x \in S : \A y \in S : <<y, x>> \notin Less
  <2> HIDE DEF Less
  <2> QED
    BY <1>2, WFMin
<1>4. ASSUME NEW y \in S PROVE x =< y
  <2>1. ~ y < x
    <3>1. ASSUME y < x PROVE <<y, x>> \in Less
      BY <3>1
    <3> QED
      BY <1>3, <3>1
  <2> QED
    BY <2>1
<1> QED
  BY <1>4 DEF Min

\* An item a call accepts is new only to a batch that is not finalized: the mail of one
\* that is has been passed by the checkpoint.
LEMMA AcceptMoves == ASSUME BriefInv, NEW c \in Calls, Accept(c) PROVE Moves /\ InHand'
<1>1. call[c].pc = "accept" /\ call[c].todo # {}
  BY DEF Accept
<1> PICK b \in Batches : b = call[c].batch /\ window[b] # <<>> /\ call[c].todo \subseteq MailOf(b)
  BY <1>1, CallKnown
<1> PICK n : n = Min(call[c].todo)
  OBVIOUS
<1>2. n \in call[c].todo /\ n \in MailOf(b) /\ n \in Mail
  <2>1. MailOf(b) \subseteq Mail
    BY DEF MailOf
  <2>2. call[c].todo \in SUBSET Nat
    <3>1. \A m \in Mail : m \in Nat
      BY MailAssumption
    <3> QED
      BY <2>1, <3>1
  <2> QED
    BY <1>1, <2>1, <2>2, MinOf
<1> PICK row : row = Serving("accept", b, call[c].todo \ {n}, call[c].token, "none")
  OBVIOUS
<1>3. /\ item' = [item EXCEPT ![n] = Upserted(n, b)]
      /\ UNCHANGED <<window, checkpoint, task, trigger, run, batch, worker, history>>
      /\ call' = [call EXCEPT ![c] = row]
      /\ row.pc = "accept" /\ row.batch = b /\ row.todo = call[c].todo \ {n}
  BY DEF Accept, briefing, Serving
<1>4. item'[n] = Upserted(n, b) /\ \A m \in Mail : m # n => item'[m] = item[m]
  BY <1>2, <1>3 DEF BriefInv, OutlookInv, TypeOK
<1>5. \A m \in Mail : ItemMoves(m)
  <2>1. ASSUME item[n].state = "none" PROVE history[b] # "final"
    <3>1. n \in Nat /\ n <= To(b) /\ To(b) \in Nat /\ checkpoint \in Nat
      BY <1>2, MailAssumption DEF MailOf, To, BriefInv, OutlookInv, TypeOK
    <3>2. ~(n <= checkpoint)
      BY <1>2, <2>1 DEF BriefInv, OutlookInv, CheckpointCovers
    <3>3. ~(checkpoint >= To(b))
      BY <3>1, <3>2
    <3> QED
      BY <3>3 DEF BriefInv, Fixed
  <2>2. ItemMoves(n)
    <3>1. CASE item[n].state = "none"
      <4>1. item'[n].state = "pending" /\ item'[n].batch = b
        BY <1>4, <3>1 DEF Upserted
      <4> QED
        BY <2>1, <3>1, <4>1 DEF ItemMoves
    <3>2. CASE item[n].state # "none"
      BY <1>4, <3>2 DEF Upserted, ItemMoves
    <3> QED
      BY <3>1, <3>2
  <2> QED
    BY <1>4, <2>2 DEF ItemMoves
<1>6. \A d \in Calls : /\ CallMoves(d)
                       /\ call'[d].pc = "finalize" /\ call'[d].seen = "completed" =>
                            call'[d] = call[d] \/ batch[call'[d].batch] = "completed"
  <2>1. /\ row.batch = b /\ window[b] # <<>> /\ row.todo \subseteq MailOf(b)
        /\ row.pc = "finalize" /\ row.seen = "completed" => batch[b] = "completed"
    BY <1>3
  <2> QED
    BY <1>3, <2>1, OneCallQuiet
<1>7. \A a \in Batches : Noted(a)' => Noted(a)
  BY <1>3, <1>6 DEF Noted, Looked
<1>8. \A a \in Batches : HistoryMoves(a) /\ TaskMoves(a)
  BY <1>3 DEF HistoryMoves, TaskMoves
<1>9. checkpoint' >= checkpoint
  BY <1>3 DEF BriefInv, OutlookInv, TypeOK
<1>10. Moves
  BY <1>3, <1>5, <1>6, <1>7, <1>8, <1>9 DEF Moves
<1>11. \A m \in Mail : item[m].state = "processing" => item'[m].state = "processing"
  BY <1>4 DEF Upserted
<1>12. InHand'
  BY <1>3, <1>11 DEF BriefInv, InHand
<1> QED
  BY <1>10, <1>12

\* A batch is completed by its finalization if nothing is left of it: it is closed then.
LEMMA FinalizeMoves == ASSUME BriefInv, NEW c \in Calls, Finalize(c) PROVE Moves /\ InHand'
<1>1. call[c].pc = "finalize" /\ UNCHANGED <<window, item, trigger, run, worker>>
  BY DEF Finalize
<1> PICK b \in Batches : b = call[c].batch /\ window[b] # <<>>
  BY <1>1, CallKnown
<1> PICK over \in BOOLEAN : over = (call[c].seen = "completed" \/ ItemsOf(b) = {})
  OBVIOUS
<1>2. CASE ~MayFinalize(c, b)
  <2>1. CallEnds(c) /\ UNCHANGED <<window, checkpoint, briefing, item, worker, history, batch>>
    BY <1>2 DEF Finalize, CallFails, briefing
  <2>2. Quiet
    BY <2>1, EndQuiet
  <2> QED
    BY <2>2, QuietMoves
<1>3. CASE MayFinalize(c, b)
  <2> PICK row : row = Serving("done", b, {}, FALSE, "none")
    OBVIOUS
  <2>1. /\ checkpoint' = To(b)
        /\ batch' = [batch EXCEPT ![b] = IF over THEN "completed" ELSE "queued"]
        /\ task' = IF over THEN Enqueued(b) ELSE task
        /\ history' = [history EXCEPT ![b] = IF @ = "open" THEN "final" ELSE @]
        /\ call' = [call EXCEPT ![c] = row]
        /\ row.pc = "done" /\ row.batch = b /\ row.todo = {}
    BY <1>3 DEF Finalize, Serving
  <2>2. checkpoint' >= checkpoint
    <3>1. From(b) \in Nat /\ To(b) \in Nat /\ From(b) < To(b)
      BY DEF BriefInv, OutlookInv, TypeOK, Forward, From, To
    <3> QED
      BY <1>3, <2>1, <3>1 DEF MayFinalize
  <2>3. checkpoint' >= To(b)
    BY <2>1 DEF BriefInv, OutlookInv, TypeOK, To
  <2>4. /\ history'[b] = IF history[b] = "open" THEN "final" ELSE history[b]
        /\ \A a \in Batches : a # b => history'[a] = history[a]
    BY <2>1 DEF BriefInv, OutlookInv, TypeOK
  <2>5. /\ \A a \in Batches : HistoryMoves(a)
        /\ \A m \in Mail : ItemMoves(m)
    BY <1>1, <2>3, <2>4 DEF HistoryMoves, ItemMoves
  <2>6. \A a \in Batches : /\ task[a].state # "none" => task'[a].state # "none"
                           /\ a # b \/ ~over => task'[a] = task[a]
    BY <2>1 DEF Enqueued, BriefInv, OutlookInv, TypeOK, TaskRow
  <2>7. \A a \in Batches : TaskMoves(a)
    BY <1>1, <2>6 DEF TaskMoves
  <2>8. /\ \A d \in Calls : CallMoves(d)
        /\ \A d \in Calls : call'[d].pc = "finalize" => call'[d] = call[d]
    <3>1. \A d \in Calls : call'[d] = IF d = c THEN row ELSE call[d]
      BY <2>1 DEF BriefInv, OutlookInv, TypeOK
    <3> QED
      BY <2>1, <3>1 DEF CallMoves
  <2>9. ASSUME over PROVE Noted(b) \/ Closed(b)'
    <3>1. CASE call[c].seen = "completed"
      BY <1>1, <3>1 DEF Noted, Looked
    <3>2. CASE ItemsOf(b) = {}
      <4>1. ItemsOf(b)' = {}
        BY <1>1, <3>2 DEF ItemsOf
      <4>2. history[b] \in {"open", "final", "early"}
        BY DEF BriefInv, OutlookInv, TypeOK
      <4> QED
        BY <2>4, <4>1, <4>2 DEF Closed, AllDone
    <3> QED
      BY <2>9, <3>1, <3>2
  <2>10. ASSUME NEW a \in Batches, Noted(a)' PROVE Noted(a) \/ Closed(a)'
    <3>1. CASE a = b /\ over
      BY <2>9, <3>1
    <3>2. CASE ~(a = b /\ over)
      <4>1. task'[a] = task[a]
        BY <2>6, <3>2
      <4>2. batch'[a] = "completed" => batch[a] = "completed"
        BY <2>1, <3>2 DEF BriefInv, OutlookInv, TypeOK
      <4>3. Looked(a)' => Looked(a)
        BY <2>8 DEF Looked
      <4> QED
        BY <2>10, <4>1, <4>2, <4>3 DEF Noted
    <3> QED
      BY <3>1, <3>2
  <2>11. Moves
    BY <1>1, <2>2, <2>5, <2>7, <2>8, <2>10 DEF Moves
  <2>12. InHand'
    BY <1>1, <2>6 DEF BriefInv, InHand
  <2> QED
    BY <2>11, <2>12
<1> QED
  BY <1>2, <1>3

LEMMA ScanMoves == ASSUME BriefInv, NEW b \in Batches, Scan(b) PROVE Moves /\ InHand'
<1>1. /\ window[b] = <<>> /\ \E w : window' = [window EXCEPT ![b] = w]
      /\ UNCHANGED <<checkpoint, call, task, trigger, run, batch, item, worker, history>>
  BY DEF Scan, briefing
<1>2. \A a \in Batches : window[a] # <<>> => window'[a] = window[a]
  BY <1>1 DEF BriefInv, OutlookInv, TypeOK
<1>3. checkpoint' >= checkpoint
  BY <1>1 DEF BriefInv, OutlookInv, TypeOK
<1>4. Moves
  BY <1>1, <1>2, <1>3 DEF Moves, ItemMoves, CallMoves, HistoryMoves, TaskMoves, Noted, Looked
<1> QED
  BY <1>1, <1>4 DEF BriefInv, InHand

LEMMA LapseMoves == ASSUME BriefInv, Lapse PROVE Moves /\ InHand'
<1>1. /\ UNCHANGED <<window, checkpoint, call, task, run, batch, item, worker, history>>
      /\ \A b \in Batches : trigger'[b].state = trigger[b].state /\ trigger'[b].input = trigger[b].input
  <2>1. CASE ReservationLapses \/ \E b \in Batches : LedgerLapses(b)
    BY <2>1 DEF ReservationLapses, LedgerLapses, briefing
  <2>2. CASE \E b \in Batches : TriggerLapses(b)
    BY <2>2 DEF TriggerLapses, submission, BriefInv, OutlookInv, TypeOK, TriggerRow
  <2> QED
    BY <2>1, <2>2 DEF Lapse
<1>2. checkpoint' >= checkpoint
  BY <1>1 DEF BriefInv, OutlookInv, TypeOK
<1>3. Moves
  BY <1>1, <1>2 DEF Moves, ItemMoves, CallMoves, HistoryMoves, TaskMoves, Noted, Looked
<1>4. worker.at \in {"create", "link"} => worker.on \in Batches
  BY DEF BriefInv, InHand
<1> QED
  BY <1>1, <1>3, <1>4 DEF BriefInv, InHand

\* A step of the loop on an item: nothing of the submission changes.
LEMMA LoopMoves ==
  ASSUME BriefInv, submission' = submission,
         \A m \in Mail : ItemMoves(m),
         \A b \in Batches : HistoryMoves(b) /\ TaskMoves(b),
         \A b \in Batches : \/ batch'[b] = "completed" /\ batch[b] # "completed"
                            \/ task'[b].state # "none" /\ task[b].state = "none"
                            => Closed(b)'
  PROVE  Moves
<1>1. UNCHANGED <<window, checkpoint, call>>
  BY DEF submission
<1>2. checkpoint' >= checkpoint
  BY <1>1 DEF BriefInv, OutlookInv, TypeOK
<1>3. \A b \in Batches : Noted(b)' => Noted(b) \/ Closed(b)'
  BY <1>1 DEF Noted, Looked
<1>4. \A c \in Calls : CallMoves(c)
  BY <1>1 DEF CallMoves
<1> QED
  BY <1>1, <1>2, <1>3, <1>4 DEF Moves

LEMMA ClaimItemMoves == ASSUME BriefInv, NEW m \in Mail, ClaimItem(m) PROVE Moves /\ InHand'
<1>1. /\ submission' = submission /\ UNCHANGED <<task, trigger, run, batch, history>>
      /\ item[m].state \in {"pending", "retrying", "processing"}
      /\ item' = [item EXCEPT ![m].state = "processing"] /\ worker' = [at |-> "item", on |-> m]
  BY DEF ClaimItem, briefing
<1>2. /\ item'[m].state = "processing" /\ item'[m].batch = item[m].batch
      /\ \A n \in Mail : n # m => item'[n] = item[n]
  BY <1>1 DEF BriefInv, OutlookInv, TypeOK, ItemRow
<1>3. \A n \in Mail : ItemMoves(n)
  BY <1>1, <1>2 DEF ItemMoves
<1>4. \A b \in Batches : HistoryMoves(b) /\ TaskMoves(b)
  BY <1>1 DEF HistoryMoves, TaskMoves
<1>5. Moves
  BY <1>1, <1>3, <1>4, LoopMoves
<1> QED
  BY <1>1, <1>2, <1>5 DEF InHand

\* What the loop has in hand is a batch's, and not completed.
LEMMA InHandItem ==
  ASSUME BriefInv, worker.at = "item"
  PROVE  worker.on \in Mail /\ item[worker.on].state = "processing"
BY DEF BriefInv, InHand

LEMMA ItemFailsMoves == ASSUME BriefInv, ItemFails PROVE Moves /\ InHand'
<1> PICK m \in Mail : m = worker.on /\ item[m].state = "processing"
  BY InHandItem DEF ItemFails
<1>1. /\ submission' = submission /\ UNCHANGED <<task, trigger, run, history>>
      /\ item' = [item EXCEPT ![m].state = "retrying"] /\ worker' = [at |-> "cos", on |-> Nobody]
      /\ batch' = [batch EXCEPT ![item[m].batch] = "processing"]
  BY DEF ItemFails, briefing
<1>2. /\ item'[m].state = "retrying" /\ item'[m].batch = item[m].batch
      /\ \A n \in Mail : n # m => item'[n] = item[n]
  BY <1>1 DEF BriefInv, OutlookInv, TypeOK, ItemRow
<1>3. \A n \in Mail : ItemMoves(n)
  BY <1>2 DEF ItemMoves
<1>4. \A b \in Batches : HistoryMoves(b) /\ TaskMoves(b)
  BY <1>1 DEF HistoryMoves, TaskMoves
<1>5. \A b \in Batches : batch'[b] = "completed" => batch[b] = "completed"
  BY <1>1 DEF BriefInv, OutlookInv, TypeOK
<1>6. Moves
  BY <1>1, <1>3, <1>4, <1>5, LoopMoves
<1> QED
  BY <1>1, <1>6 DEF InHand

LEMMA CompleteItemFailsMoves == ASSUME BriefInv, CompleteItemFails PROVE Moves /\ InHand'
<1>1. /\ submission' = submission /\ UNCHANGED <<task, trigger, run, batch, item, history>>
      /\ worker' = [at |-> "cos", on |-> Nobody]
  BY DEF CompleteItemFails, briefing
<1>2. Moves
  BY <1>1, LoopMoves DEF HistoryMoves, TaskMoves, ItemMoves
<1> QED
  BY <1>1, <1>2 DEF InHand

\* The last item of a batch closes it, early if its submission is not finalized.
LEMMA CompleteItemMoves == ASSUME BriefInv, CompleteItem PROVE Moves /\ InHand'
<1> PICK m \in Mail : m = worker.on /\ item[m].state = "processing"
  BY InHandItem DEF CompleteItem
<1> PICK b : b = item[m].batch
  OBVIOUS
<1> PICK over \in BOOLEAN : over = (Remaining(m) = {})
  OBVIOUS
<1>1. /\ submission' = submission /\ UNCHANGED <<trigger, run>>
      /\ item' = [item EXCEPT ![m].state = "completed"] /\ worker' = Tick
      /\ batch' = [batch EXCEPT ![b] = IF over THEN "completed" ELSE "processing"]
      /\ task' = IF over THEN Enqueued(b) ELSE task
      /\ history' = [history EXCEPT ![b] = IF over /\ @ = "open" THEN "early" ELSE @]
  BY DEF CompleteItem
<1>2. /\ item'[m].state = "completed" /\ item'[m].batch = b
      /\ \A n \in Mail : n # m => item'[n] = item[n]
  BY <1>1 DEF BriefInv, OutlookInv, TypeOK, ItemRow
<1>3. \A n \in Mail : ItemMoves(n)
  BY <1>2 DEF ItemMoves
<1>4. \A a \in Batches : history'[a] = IF a = b /\ over /\ history[a] = "open" THEN "early" ELSE history[a]
  BY <1>1 DEF BriefInv, OutlookInv, TypeOK
<1>5. \A a \in Batches : /\ task[a].state # "none" => task'[a].state # "none"
                         /\ task'[a].state # "none" /\ task[a].state = "none" => a = b /\ over
                         /\ batch'[a] = "completed" /\ batch[a] # "completed" => a = b /\ over
  BY <1>1 DEF Enqueued, BriefInv, OutlookInv, TypeOK, TaskRow
<1>6. \A a \in Batches : HistoryMoves(a) /\ TaskMoves(a)
  BY <1>1, <1>4, <1>5 DEF HistoryMoves, TaskMoves
<1>7. ASSUME b \in Batches, over PROVE Closed(b)'
  <2>1. \A n \in ItemsOf(b) \ {m} : item[n].state = "completed"
    BY <1>7 DEF Remaining
  <2>2. \A n \in ItemsOf(b)' : item'[n].state = "completed"
    BY <1>2, <2>1 DEF ItemsOf
  <2>3. history[b] \in {"open", "final", "early"}
    BY <1>7 DEF BriefInv, OutlookInv, TypeOK
  <2> QED
    BY <1>4, <1>7, <2>2, <2>3 DEF Closed, AllDone
<1>8. Moves
  BY <1>1, <1>3, <1>5, <1>6, <1>7, LoopMoves
<1> QED
  BY <1>1, <1>8 DEF InHand, Tick

\* A step of the loop on the briefing of b, whose task is there.
LEMMA BriefingMoves ==
  ASSUME BriefInv, NEW b \in Batches, task[b].state # "none",
         UNCHANGED <<submission, batch, item, history>>,
         \A a \in Batches : a # b => task'[a] = task[a] /\ trigger'[a] = trigger[a] /\ run'[a] = run[a],
         task'[b].state # "none",
         \/ trigger'[b].state = trigger[b].state /\ trigger'[b].input = trigger[b].input
         \/ trigger'[b].state # "none" /\ trigger'[b].input = Inserted(b).input,
         run'[b] # "none" => run[b] # "none" \/ trigger[b].state # "none",
         \/ worker'.at = "tick"
         \/ /\ worker'.at \in {"brief", "create", "link", "finish"} /\ worker'.on = b
            /\ worker'.at \in {"create", "link"} => trigger'[b].state # "none"
  PROVE  Moves /\ InHand'
<1>1. \A m \in Mail : ItemMoves(m)
  BY DEF ItemMoves
<1>2. TaskMoves(b)
  BY DEF TaskMoves, Inserted
<1>3. \A a \in Batches : HistoryMoves(a) /\ TaskMoves(a)
  BY <1>2 DEF HistoryMoves, TaskMoves
<1>4. \A a \in Batches : ~(batch'[a] = "completed" /\ batch[a] # "completed")
  OBVIOUS
<1>5. \A a \in Batches : ~(task'[a].state # "none" /\ task[a].state = "none")
  OBVIOUS
<1>6. Moves
  BY <1>1, <1>3, <1>4, <1>5, LoopMoves
<1>7. InHand'
  BY DEF InHand
<1> QED
  BY <1>6, <1>7

\* What the loop has in hand at each point of a briefing.
LEMMA InHandTask ==
  ASSUME BriefInv, NEW b \in Batches, worker.on = b, worker.at \in {"brief", "create", "link", "finish"}
  PROVE  /\ task[b].state # "none"
         /\ worker.at \in {"create", "link"} => trigger[b].state # "none"
BY DEF BriefInv, InHand

LEMMA TaskWritten ==
  ASSUME BriefInv, NEW b \in Batches, NEW s \in {"waiting", "processing", "completed"},
         task' = [task EXCEPT ![b].state = s]
  PROVE  task'[b].state # "none" /\ \A a \in Batches : a # b => task'[a] = task[a]
BY DEF BriefInv, OutlookInv, TypeOK, TaskRow

LEMMA TriggerWritten ==
  ASSUME BriefInv, NEW b \in Batches, NEW row, trigger' = [trigger EXCEPT ![b] = row]
  PROVE  trigger'[b] = row /\ \A a \in Batches : a # b => trigger'[a] = trigger[a]
BY DEF BriefInv, OutlookInv, TypeOK

LEMMA ClaimTaskMoves == ASSUME BriefInv, NEW b \in Batches, ClaimTask(b) PROVE Moves /\ InHand'
<1>1. /\ task[b].state # "none" /\ task' = [task EXCEPT ![b].state = "processing"]
      /\ worker'.at = "brief" /\ worker'.on = b
      /\ UNCHANGED <<submission, trigger, run, batch, item, history>>
  BY DEF ClaimTask
<1>2. task'[b].state # "none" /\ \A a \in Batches : a # b => task'[a] = task[a]
  BY <1>1, TaskWritten
<1> QED
  BY <1>1, <1>2, BriefingMoves

LEMMA TriggerRunMoves == ASSUME BriefInv, NEW b \in Batches, TriggerRun(b) PROVE Moves /\ InHand'
<1>1. /\ worker.at = "brief" /\ worker.on = b
      /\ UNCHANGED <<submission, task, run, batch, item, history>>
  BY DEF TriggerRun
<1>2. task[b].state # "none"
  BY <1>1, InHandTask
<1>3. CASE run[b] # "none" /\ At(b, "link") /\ UNCHANGED <<task, trigger>>
  <2>1. trigger[b].state # "none"
    BY <1>3 DEF BriefInv, Given
  <2>2. worker'.at = "link" /\ worker'.on = b
    BY <1>3 DEF At
  <2> QED
    BY <1>1, <1>2, <1>3, <2>1, <2>2, BriefingMoves
<1>4. CASE At(b, "create") /\ Claim(b, "creating", TRUE, Inserted(b).input)
  <2>1. worker'.at = "create" /\ worker'.on = b
    BY <1>4 DEF At
  <2>2. /\ trigger'[b].state # "none" /\ trigger'[b].input = Inserted(b).input
        /\ \A a \in Batches : a # b => trigger'[a] = trigger[a]
    <3> PICK row : row = [state |-> "creating", live |-> TRUE, input |-> Inserted(b).input]
      OBVIOUS
    <3>1. trigger' = [trigger EXCEPT ![b] = row]
      BY <1>4 DEF Claim
    <3>2. row.state = "creating" /\ row.input = Inserted(b).input
      OBVIOUS
    <3> QED
      BY ZenonT(60), <3>1, <3>2, TriggerWritten
  <2> QED
    BY <1>1, <1>2, <2>1, <2>2, BriefingMoves
<1>5. CASE worker' = Tick /\ UNCHANGED <<task, trigger>>
  <2>1. worker'.at = "tick"
    BY <1>5 DEF Tick
  <2> QED
    BY <1>1, <1>2, <1>5, <2>1, BriefingMoves
<1> QED
  BY <1>3, <1>4, <1>5 DEF TriggerRun

LEMMA CreateRunMoves == ASSUME BriefInv, NEW b \in Batches, CreateRun(b) PROVE Moves /\ InHand'
<1>1. /\ worker.at = "create" /\ worker.on = b /\ run' = [run EXCEPT ![b] = "queued"]
      /\ worker'.at = "link" /\ worker'.on = b
      /\ UNCHANGED <<submission, task, trigger, batch, item, history>>
  BY DEF CreateRun, At
<1>2. task[b].state # "none" /\ trigger[b].state # "none"
  BY <1>1, InHandTask
<1>3. \A a \in Batches : a # b => run'[a] = run[a]
  BY <1>1 DEF BriefInv, OutlookInv, TypeOK
<1> QED
  BY <1>1, <1>2, <1>3, BriefingMoves

LEMMA LinkRunMoves == ASSUME BriefInv, NEW b \in Batches, LinkRun(b) PROVE Moves /\ InHand'
<1>1. /\ worker.at = "link" /\ worker.on = b /\ Claim(b, "created", FALSE, trigger[b].input)
      /\ task' = [task EXCEPT ![b] = [state |-> "waiting", linked |-> TRUE]]
      /\ worker'.at = "tick"
      /\ UNCHANGED <<submission, run, batch, item, history>>
  BY DEF LinkRun, Tick
<1>2. task[b].state # "none" /\ trigger[b].state # "none"
  BY <1>1, InHandTask
<1>3. task'[b].state # "none" /\ \A a \in Batches : a # b => task'[a] = task[a]
  BY <1>1 DEF BriefInv, OutlookInv, TypeOK
<1>4. /\ trigger'[b].state # "none" /\ trigger'[b].input = trigger[b].input
      /\ \A a \in Batches : a # b => trigger'[a] = trigger[a]
  <2> PICK row : row = [state |-> "created", live |-> FALSE, input |-> trigger[b].input]
    OBVIOUS
  <2>1. trigger' = [trigger EXCEPT ![b] = row]
    BY <1>1 DEF Claim
  <2>2. row.state = "created" /\ row.input = trigger[b].input
    OBVIOUS
  <2> QED
    BY ZenonT(60), <2>1, <2>2, TriggerWritten
<1>5. Inserted(b).input = trigger[b].input
  BY <1>2 DEF Inserted
<1> QED
  BY <1>1, <1>2, <1>3, <1>4, <1>5, BriefingMoves

LEMMA LookAtRunMoves == ASSUME BriefInv, NEW b \in Batches, LookAtRun(b) PROVE Moves /\ InHand'
<1>1. /\ worker.at = "brief" /\ worker.on = b
      /\ UNCHANGED <<submission, trigger, run, batch, item, history>>
  BY DEF LookAtRun
<1>2. task[b].state # "none"
  BY <1>1, InHandTask
<1>3. CASE worker'.at = "finish" /\ worker'.on = b /\ UNCHANGED task
  BY <1>1, <1>2, <1>3, BriefingMoves
<1>4. CASE Waiting(b) /\ worker'.at = "tick"
  <2>1. task'[b].state # "none" /\ \A a \in Batches : a # b => task'[a] = task[a]
    BY <1>4, TaskWritten DEF Waiting
  <2> QED
    BY <1>1, <1>2, <1>4, <2>1, BriefingMoves
<1> QED
  BY <1>3, <1>4 DEF LookAtRun, At, Tick

LEMMA CompleteTaskMoves == ASSUME BriefInv, NEW b \in Batches, CompleteTask(b) PROVE Moves /\ InHand'
<1>1. /\ worker.at = "finish" /\ worker.on = b /\ worker'.at = "tick"
      /\ task' = [task EXCEPT ![b].state = "completed"]
      /\ UNCHANGED <<submission, trigger, run, batch, item, history>>
  BY DEF CompleteTask, Tick
<1>2. task[b].state # "none"
  BY <1>1, InHandTask
<1>3. task'[b].state # "none" /\ \A a \in Batches : a # b => task'[a] = task[a]
  BY <1>1, TaskWritten
<1> QED
  BY <1>1, <1>2, <1>3, BriefingMoves

LEMMA BriefingFailsMoves == ASSUME BriefInv, NEW b \in Batches, BriefingFails(b) PROVE Moves /\ InHand'
<1>1. /\ worker.at \in {"brief", "create", "link", "finish"} /\ worker.on = b /\ worker'.at = "tick"
      /\ UNCHANGED <<submission, run, batch, item, history>>
  BY DEF BriefingFails, Tick
<1>2. /\ task[b].state # "none"
      /\ worker.at = "create" => trigger[b].state # "none"
  BY <1>1, InHandTask
<1>3. task'[b].state # "none" /\ \A a \in Batches : a # b => task'[a] = task[a]
  <2>1. CASE Waiting(b)
    BY <2>1, TaskWritten DEF Waiting
  <2>2. CASE UNCHANGED task
    BY <1>2, <2>2
  <2> QED
    BY <2>1, <2>2 DEF BriefingFails
<1>4. /\ trigger'[b].state # "none" \/ trigger'[b].state = trigger[b].state
      /\ trigger'[b].input = trigger[b].input
      /\ \A a \in Batches : a # b => trigger'[a] = trigger[a]
  <2>1. CASE worker.at = "create"
    <3>1. Claim(b, "accepted", FALSE, trigger[b].input)
      BY <2>1 DEF BriefingFails
    <3> QED
      BY <3>1, TriggerWritten DEF Claim
  <2>2. CASE worker.at # "create"
    BY <2>2 DEF BriefingFails
  <2> QED
    BY <2>1, <2>2
<1>5. \/ trigger'[b].state = trigger[b].state /\ trigger'[b].input = trigger[b].input
      \/ trigger'[b].state # "none" /\ trigger'[b].input = Inserted(b).input
  <2>1. CASE trigger[b].state # "none"
    BY <1>4, <2>1 DEF Inserted
  <2>2. CASE trigger[b].state = "none"
    <3>1. worker.at # "create"
      BY <1>2, <2>2
    <3> QED
      BY <3>1 DEF BriefingFails
  <2> QED
    BY <2>1, <2>2
<1> QED
  BY <1>1, <1>2, <1>3, <1>4, <1>5, BriefingMoves

LEMMA RunEndsMoves == ASSUME BriefInv, NEW b \in Batches, RunEnds(b) PROVE Moves /\ InHand'
<1>1. /\ run[b] = "queued"
      /\ UNCHANGED <<submission, task, trigger, batch, item, worker, history>>
  BY DEF RunEnds
<1>2. \A a \in Batches : a # b => run'[a] = run[a]
  BY DEF RunEnds, BriefInv, OutlookInv, TypeOK
<1>3. \A a \in Batches : HistoryMoves(a) /\ TaskMoves(a)
  BY <1>1, <1>2 DEF HistoryMoves, TaskMoves
<1>4. Moves
  BY <1>1, <1>3, LoopMoves DEF ItemMoves
<1> QED
  BY <1>1, <1>4 DEF BriefInv, InHand

LEMMA BriefInit == Init => BriefInv
<1> SUFFICES ASSUME Init PROVE BriefInv
  OBVIOUS
<1>1. OutlookInv
  BY OutlookInit
<1>2. Fixed /\ Fresh /\ InBatch
  BY DEF Init, Fixed, Fresh, InBatch, NoCall, Serving
<1>3. InHand
  BY DEF Init, InHand, Tick
<1>4. Over /\ Given
  BY DEF Init, Over, Given, Noted, Looked, NoCall, Serving
<1> QED
  BY <1>1, <1>2, <1>3, <1>4 DEF BriefInv

LEMMA BriefNext == BriefInv /\ [Next]_vars => BriefInv'
<1> SUFFICES ASSUME BriefInv, [Next]_vars PROVE BriefInv'
  OBVIOUS
<1>1. OutlookInv'
  BY OutlookNext DEF BriefInv
<1>2. TypeOK'
  BY <1>1 DEF OutlookInv
<1>3. Moves /\ InHand'
  <2>1. CASE \E b \in Batches : Scan(b) \/ RunEnds(b) \/ ClaimTask(b)
    BY <2>1, ScanMoves, RunEndsMoves, ClaimTaskMoves
  <2>2. CASE \E b \in Batches : BriefingStep(b) \/ BriefingFails(b)
    BY <2>2, TriggerRunMoves, CreateRunMoves, LinkRunMoves, LookAtRunMoves, CompleteTaskMoves,
       BriefingFailsMoves DEF BriefingStep
  <2>3. CASE \E c \in Calls : Accept(c) \/ Finalize(c)
    BY <2>3, AcceptMoves, FinalizeMoves
  <2>4. CASE \E c \in Calls : \/ Reserve(c) \/ BeginFinalize(c) \/ Receipt(c) \/ AcceptFails(c) \/ CallLost(c)
                              \/ \E b \in Batches : Submit(c, b)
    BY <2>4, SubmissionQuiet, QuietMoves
  <2>5. CASE (\E m \in Mail : ClaimItem(m)) \/ CompleteItem \/ ItemFails \/ CompleteItemFails
    BY <2>5, ClaimItemMoves, CompleteItemMoves, ItemFailsMoves, CompleteItemFailsMoves
  <2>6. CASE Stop \/ Lapse
    BY <2>6, StopMoves, LapseMoves
  <2>7. CASE UNCHANGED vars
    <3>1. UNCHANGED <<submission, task, trigger, run, batch, item, worker, history>>
      BY <2>7 DEF vars, briefing
    <3>2. Moves
      BY <3>1, LoopMoves DEF HistoryMoves, TaskMoves, ItemMoves
    <3> QED
      BY <3>1, <3>2 DEF BriefInv, InHand
  <2> QED
    BY <2>1, <2>2, <2>3, <2>4, <2>5, <2>6, <2>7 DEF Next, CallStep
<1> QED
  BY <1>1, <1>2, <1>3, MovesKeep DEF BriefInv

\* The invariant of the briefing holds of every behavior of the submission and the loop.
THEOREM BriefInvariant == Spec => []BriefInv
BY BriefInit, BriefNext, PTL DEF Spec

\* The run that writes the briefing of a batch was given all of its items, whatever calls,
\* retries and restarts come between, unless the loop had completed the batch before it was
\* finalized (CompleteOutlookOutboxAtomically, FinalizeOutlookIngestionBatch, ProcessCOSBriefing).
THEOREM BriefingCoversCorrect == Spec => []BriefingCovers
<1>1. BriefInv => BriefingCovers
  BY DEF BriefInv, Given, BriefingCovers
<1> QED
  BY <1>1, BriefInvariant, PTL
=============================================================================
