--------------------------- MODULE OutlookBriefing ---------------------------
(***************************************************************************)
(* From a mailbox to a briefing: a client of the MCP gateway submits       *)
(* batches of Outlook mail under an idempotency key (controlplane/         *)
(* mcp_gateway.go, mcp_outlook.go), each batch reserves the checkpoints of *)
(* the mailbox, has its items accepted and advances the checkpoints; the   *)
(* cloud-agent loop remembers the items and, once a batch has none left,   *)
(* has an agent run write its briefing (app/cloud_orchestration.go).       *)
(*                                                                         *)
(* Mail has the time it was sent for its name.  The checkpoints of e-mail  *)
(* and calendar are reserved, compared and written together and are one    *)
(* here.  An item and its outbox row are inserted, retried and completed   *)
(* in one transaction and are one record.  A token (of the ledger, of a    *)
(* reservation) is fresh and known to its call only: the call stands for   *)
(* it, and Nobody for the token of a call that is gone.                    *)
(***************************************************************************)
EXTENDS Integers, FiniteSets, FiniteSetsExt

CONSTANTS
  NumBatches, \* batches a client may submit, each under its own key
  Last,       \* the last time the mailbox is scanned to
  Mail,       \* the times mail was sent at
  NumCalls,   \* calls of the tool that may run at once
  MaxFaults   \* stops, lost calls, errors and calls slower than a lease

ASSUME MailAssumption == Last \in Nat \ {0} /\ Mail \subseteq 1..Last
ASSUME CountAssumption == NumBatches \in Nat /\ NumCalls \in Nat /\ MaxFaults \in Nat

VARIABLES
  window,       \* what a batch was scanned from and to; <<>> while it does not exist
  ledger,       \* action_ledger, the row of the batch's key
  checkpoint,   \* source_checkpoints
  reservation,  \* source_checkpoint_reservations
  batch,        \* outlook_ingestion_batches.state
  item,         \* outlook_ingestion_items and outlook_outbox
  call,         \* the submissions being served
  task,         \* cloud_orchestration_tasks of kind cos_briefing
  trigger,      \* agent_run_triggers of key "cos:" and the batch
  run,          \* agent_runs of that trigger
  worker,       \* where cloudAgentLoop is
  history,      \* whether a batch was finalized, or completed before that
  faults

submission == <<window, ledger, checkpoint, reservation, call>>
briefing == <<task, trigger, run>>
vars == <<submission, briefing, batch, item, worker, history, faults>>

-----------------------------------------------------------------------------
(* Types *)

Batches == 1..NumBatches
Calls == 1..NumCalls
Nobody == 0

NoReservation == [batch |-> Nobody, holder |-> Nobody, live |-> FALSE]
Serving(pc, b, todo, token, seen) ==
  [pc |-> pc, batch |-> b, todo |-> todo, token |-> token, seen |-> seen]
NoCall == Serving("idle", Nobody, {}, FALSE, "none")
Tick == [at |-> "tick", on |-> Nobody]

BatchState == {"none", "received", "queued", "processing", "completed"}

LedgerRow == [state : {"none", "claimed", "failed", "completed"},
              holder : Calls \cup {Nobody}, live : BOOLEAN]
ReservationRow == [batch : Batches \cup {Nobody}, holder : Calls \cup {Nobody}, live : BOOLEAN]
ItemRow == [batch : Batches \cup {Nobody},
            state : {"none", "pending", "retrying", "processing", "completed"}]
Call == [pc : {"idle", "reserve", "accept", "finalize", "done"}, batch : Batches \cup {Nobody},
         todo : SUBSET Mail, token : BOOLEAN, seen : BatchState]
TaskRow == [state : {"none", "pending", "waiting", "processing", "completed"}, linked : BOOLEAN]
TriggerRow == [state : {"none", "accepted", "creating", "created"},
               live : BOOLEAN, input : SUBSET Mail]

TypeOK ==
  /\ window \in [Batches -> (0..Last) \X (0..Last) \cup {<<>>}]
  /\ ledger \in [Batches -> LedgerRow]
  /\ checkpoint \in 0..Last
  /\ reservation \in ReservationRow
  /\ batch \in [Batches -> BatchState]
  /\ item \in [Mail -> ItemRow]
  /\ call \in [Calls -> Call]
  /\ task \in [Batches -> TaskRow]
  /\ trigger \in [Batches -> TriggerRow]
  /\ run \in [Batches -> {"none", "queued", "completed", "empty", "failed"}]
  /\ worker \in [at : {"tick", "item", "cos", "brief", "create", "link", "finish"},
                 on : Batches \cup Mail \cup {Nobody}]
  /\ history \in [Batches -> {"open", "final", "early"}]
  /\ faults \in 0..MaxFaults

Init ==
  /\ window = [b \in Batches |-> <<>>]
  /\ ledger = [b \in Batches |-> [state |-> "none", holder |-> Nobody, live |-> FALSE]]
  /\ checkpoint = 0
  /\ reservation = NoReservation
  /\ batch = [b \in Batches |-> "none"]
  /\ item = [m \in Mail |-> [batch |-> Nobody, state |-> "none"]]
  /\ call = [c \in Calls |-> NoCall]
  /\ task = [b \in Batches |-> [state |-> "none", linked |-> FALSE]]
  /\ trigger = [b \in Batches |-> [state |-> "none", live |-> FALSE, input |-> {}]]
  /\ run = [b \in Batches |-> "none"]
  /\ worker = Tick
  /\ history = [b \in Batches |-> "open"]
  /\ faults = 0

Fault == faults < MaxFaults /\ faults' = faults + 1

-----------------------------------------------------------------------------
(* The client and the gateway *)

From(b) == window[b][1]
To(b) == window[b][2]
MailOf(b) == {m \in Mail : From(b) < m /\ m <= To(b)}
ItemsOf(b) == {m \in Mail : item[m].batch = b}

\* The client scans the mailbox from the last watermark a receipt gave it.
Scan(b) ==
  /\ window[b] = <<>> /\ \A a \in 1 .. b - 1 : window[a] # <<>>
  /\ \E to \in checkpoint + 1 .. Last : window' = [window EXCEPT ![b] = <<checkpoint, to>>]
  /\ UNCHANGED <<ledger, checkpoint, reservation, call, briefing, batch, item, worker, history, faults>>

\* A call that ends takes its tokens with it.
Forgotten(row, c) == IF row.holder = c THEN [row EXCEPT !.holder = Nobody] ELSE row
CallEnds(c) ==
  /\ call' = [call EXCEPT ![c] = NoCall]
  /\ reservation' = Forgotten(reservation, c)

\* Mutant of LedgerFree: the claim of a call that is gone is never taken over.
LedgerFreeNever(b) == ledger[b].state \in {"none", "failed"}

\* ClaimActionExecution: a failed or lapsed execution may be claimed anew, a completed
\* one is replayed, and a running one is left alone.
LedgerFree(b) == ledger[b].state \in {"none", "failed"} \/ (ledger[b].state = "claimed" /\ ~ledger[b].live)

Submit(c, b) ==
  /\ call[c].pc = "idle" /\ \A d \in 1 .. c - 1 : call[d].pc # "idle"
  /\ window[b] # <<>> /\ LedgerFree(b)
  /\ ledger' = [ledger EXCEPT ![b] = [state |-> "claimed", holder |-> c, live |-> TRUE]]
  /\ call' = [call EXCEPT ![c] = Serving("reserve", b, MailOf(b), FALSE, "none")]
  /\ UNCHANGED <<window, checkpoint, reservation, briefing, batch, item, worker, history, faults>>

\* finishActionExecution: only the holder of the claim's token writes its outcome.
Outcome(c, state) ==
  ledger' = [ledger EXCEPT ![call[c].batch] =
    IF @.holder = c /\ @.state = "claimed" THEN [state |-> state, holder |-> Nobody, live |-> FALSE] ELSE @]

\* The handler returns an error, which the ledger records at once.
CallFails(c) == Outcome(c, "failed") /\ CallEnds(c)

-----------------------------------------------------------------------------
(* The tool outlook_ingestion_submit *)

Held == reservation # NoReservation
Reserved(c, b) == [batch |-> b, holder |-> c, live |-> TRUE]

\* CreateOutlookIngestionBatchWithCheckpoints for a batch that does not exist: the
\* reservation of another one is dropped when its lease has lapsed.
MayOpen(b) == batch[b] = "none" /\ checkpoint = From(b) /\ ~reservation.live

\* For one that does: its own reservation is taken over when it has lapsed, and made
\* again when it was dropped and no other one is there.
MayReclaim(b) ==
  /\ batch[b] \in {"received", "processing"}
  /\ \/ reservation.batch = b /\ ~reservation.live
     \/ ~Held /\ checkpoint = From(b)

\* One that has been queued or completed needs none.
Accepted(b) == batch[b] \in {"queued", "completed"}

Reserve(c) ==
  LET b == call[c].batch IN
  /\ call[c].pc = "reserve"
  /\ \/ /\ MayOpen(b) \/ MayReclaim(b)
        /\ batch' = [batch EXCEPT ![b] = IF @ = "none" THEN "received" ELSE @]
        /\ reservation' = Reserved(c, b)
        /\ call' = [call EXCEPT ![c] = Serving("accept", b, call[c].todo, TRUE, "none")]
        /\ UNCHANGED ledger
     \/ /\ Accepted(b)
        /\ call' = [call EXCEPT ![c] = Serving("accept", b, call[c].todo, FALSE, "none")]
        /\ UNCHANGED <<batch, reservation, ledger>>
     \/ /\ ~MayOpen(b) /\ ~MayReclaim(b) /\ ~Accepted(b)
        /\ CallFails(c)
        /\ UNCHANGED batch
  /\ UNCHANGED <<window, checkpoint, briefing, item, worker, history, faults>>

\* UpsertOutlookIngestionItemAndEnqueue: an item is new, or a duplicate of an item that
\* stays with its batch.
Upserted(m, b) == IF item[m].state = "none" THEN [batch |-> b, state |-> "pending"] ELSE item[m]

Accept(c) ==
  /\ call[c].pc = "accept" /\ call[c].todo # {}
  /\ LET m == Min(call[c].todo) IN
       /\ item' = [item EXCEPT ![m] = Upserted(m, call[c].batch)]
       /\ call' = [call EXCEPT ![c] =
            Serving("accept", call[c].batch, call[c].todo \ {m}, call[c].token, "none")]
  /\ UNCHANGED <<window, ledger, checkpoint, reservation, briefing, batch, worker, history, faults>>

\* Mutant of AcceptFails: what cannot be accepted is left out.
AcceptSkips(c) ==
  /\ call[c].pc = "accept" /\ call[c].todo # {} /\ Fault
  /\ call' = [call EXCEPT ![c].todo = @ \ {Min(@)}]
  /\ UNCHANGED <<window, ledger, checkpoint, reservation, briefing, batch, item, worker, history>>

\* An error ends the submission: what it has accepted stays, what it has not will not be
\* passed by the checkpoint.
AcceptFails(c) ==
  /\ call[c].pc = "accept" /\ Fault
  /\ CallFails(c)
  /\ UNCHANGED <<window, checkpoint, briefing, batch, item, worker, history>>

\* FinalizeOutlookIngestionBatch begins with a look at the batch.
BeginFinalize(c) ==
  /\ call[c].pc = "accept" /\ call[c].todo = {}
  /\ LET b == call[c].batch IN
       call' = [call EXCEPT ![c] = Serving("finalize", b, {}, call[c].token, batch[b])]
  /\ UNCHANGED <<window, ledger, checkpoint, reservation, briefing, batch, item, worker, history, faults>>

\* Mutant of MayFinalize: the checkpoint is not compared with the one the batch was scanned from.
MayFinalizeBlind(c, b) == IF call[c].token THEN reservation = Reserved(c, b) ELSE ~Held

\* With a token, the reservation must still be the call's; without one there must be
\* none, and the checkpoint may have been advanced before.
MayFinalize(c, b) ==
  IF call[c].token
    THEN reservation = Reserved(c, b) /\ checkpoint = From(b)
    ELSE ~Held /\ (checkpoint = From(b) \/ (call[c].seen \in {"queued", "completed"} /\ checkpoint = To(b)))

\* enqueueCloudOrchestrationTaskTx: one task for a batch.
Enqueued(b) == [task EXCEPT ![b] = IF @.state = "none" THEN [@ EXCEPT !.state = "pending"] ELSE @]

Finalize(c) ==
  LET b == call[c].batch
      over == call[c].seen = "completed" \/ ItemsOf(b) = {} IN
  /\ call[c].pc = "finalize"
  /\ IF MayFinalize(c, b)
       THEN /\ checkpoint' = To(b)
            /\ reservation' = NoReservation
            /\ batch' = [batch EXCEPT ![b] = IF over THEN "completed" ELSE "queued"]
            /\ task' = IF over THEN Enqueued(b) ELSE task
            /\ history' = [history EXCEPT ![b] = IF @ = "open" THEN "final" ELSE @]
            /\ call' = [call EXCEPT ![c] = Serving("done", b, {}, FALSE, "none")]
            /\ UNCHANGED ledger
       ELSE CallFails(c) /\ UNCHANGED <<checkpoint, batch, task, history>>
  /\ UNCHANGED <<window, item, trigger, run, worker, faults>>

\* The receipt, which the ledger keeps for the next call of the same key.
Receipt(c) ==
  /\ call[c].pc = "done"
  /\ Outcome(c, "completed") /\ CallEnds(c)
  /\ UNCHANGED <<window, checkpoint, briefing, batch, item, worker, history, faults>>

Lost(row) == [row EXCEPT !.holder = Nobody]

\* The client goes away: the call ends where it is and the ledger stays claimed.
CallLost(c) ==
  /\ call[c].pc # "idle" /\ Fault
  /\ CallEnds(c)
  /\ ledger' = [b \in Batches |-> Forgotten(ledger[b], c)]
  /\ UNCHANGED <<window, checkpoint, briefing, batch, item, worker, history>>

\* The lease of a call that is gone lapses in time; one that is slower than its lease
\* is a fault.
LedgerLapses(b) ==
  /\ ledger[b].live
  /\ IF ledger[b].holder = Nobody THEN UNCHANGED faults ELSE Fault
  /\ ledger' = [ledger EXCEPT ![b].live = FALSE]
  /\ UNCHANGED <<window, checkpoint, reservation, call, briefing, batch, item, worker, history>>

\* The ledger's lease is a minute and is taken first, that of the same call's
\* reservation is five.
ReservationLapses ==
  /\ reservation.live
  /\ ~(ledger[reservation.batch].live /\ ledger[reservation.batch].holder = reservation.holder)
  /\ IF reservation.holder = Nobody THEN UNCHANGED faults ELSE Fault
  /\ reservation' = [reservation EXCEPT !.live = FALSE]
  /\ UNCHANGED <<window, ledger, checkpoint, call, briefing, batch, item, worker, history>>

-----------------------------------------------------------------------------
(* cloudAgentLoop: an item, or else a briefing, at a time *)

\* What the next tick is sure to find.  What is retried, waits, or was left by a process
\* that is gone may be due or not.  (The loop is the only one: it finds nothing in
\* process but what a stopped process, or a failed update, has left to its lease.)
ItemDue(m) == item[m].state = "pending"
TaskDue(b) == task[b].state = "pending"

\* ClaimOutlookOutbox; the oldest first, and delays make that any.
ClaimItem(m) ==
  /\ worker.at = "tick" \/ (worker.at = "cos" /\ ~\E b \in Batches : TaskDue(b))
  /\ item[m].state \in {"pending", "retrying", "processing"}
  /\ item' = [item EXCEPT ![m].state = "processing"]
  /\ worker' = [at |-> "item", on |-> m]
  /\ UNCHANGED <<submission, briefing, batch, history, faults>>

\* The knowledge service fails: FailOutlookOutbox, and the tick goes on to a briefing.
ItemFails ==
  /\ worker.at = "item" /\ Fault
  /\ item' = [item EXCEPT ![worker.on].state = "retrying"]
  /\ batch' = [batch EXCEPT ![item[worker.on].batch] = "processing"]
  /\ worker' = [at |-> "cos", on |-> Nobody]
  /\ UNCHANGED <<submission, briefing, history>>

\* Mutant of Remaining: an item that is retried is not counted.
RemainingNew(m) == {n \in ItemsOf(item[m].batch) \ {m} : item[n].state = "pending"}

\* The batch's items other than m that are not completed.
Remaining(m) == {n \in ItemsOf(item[m].batch) \ {m} : item[n].state # "completed"}

\* The observation is written under the item's key, again if need be, and
\* CompleteOutlookOutboxAtomically writes the rest.
CompleteItem ==
  LET m == worker.on
      b == item[m].batch
      over == Remaining(m) = {} IN
  /\ worker.at = "item"
  /\ item' = [item EXCEPT ![m].state = "completed"]
  /\ batch' = [batch EXCEPT ![b] = IF over THEN "completed" ELSE "processing"]
  /\ task' = IF over THEN Enqueued(b) ELSE task
  /\ history' = [history EXCEPT ![b] = IF over /\ @ = "open" THEN "early" ELSE @]
  /\ worker' = Tick
  /\ UNCHANGED <<submission, trigger, run, faults>>

\* The completion fails after the observation: the item is left to its lease.
CompleteItemFails ==
  /\ worker.at = "item" /\ Fault
  /\ worker' = [at |-> "cos", on |-> Nobody]
  /\ UNCHANGED <<submission, briefing, batch, item, history>>

\* ClaimCloudOrchestrationTaskKind.
ClaimTask(b) ==
  /\ worker.at = "cos" \/ (worker.at = "tick" /\ ~\E m \in Mail : ItemDue(m))
  /\ task[b].state \in {"pending", "waiting", "processing"}
  /\ task' = [task EXCEPT ![b].state = "processing"]
  /\ worker' = [at |-> "brief", on |-> b]
  /\ UNCHANGED <<submission, trigger, run, batch, item, history, faults>>

At(b, at) == worker' = [at |-> at, on |-> b]
Waiting(b) == task' = [task EXCEPT ![b].state = "waiting"]

\* TriggerAgentRun up to its claim: the first caller's input is kept and a run that exists
\* is linked.  A claim that has not lapsed gives no run: the task cannot be linked to
\* it (run_id is a foreign key) and is left in process, to its lease.
Covered(b) == {m \in ItemsOf(b) : item[m].state = "completed"}
Inserted(b) == IF trigger[b].state = "none" THEN [state |-> "accepted", live |-> FALSE, input |-> Covered(b)] ELSE trigger[b]
Claim(b, state, live, input) ==
  trigger' = [trigger EXCEPT ![b] = [state |-> state, live |-> live, input |-> input]]
ClaimFree(row) == row.state = "accepted" \/ (row.state = "creating" /\ ~row.live)

TriggerRun(b) ==
  LET row == Inserted(b) IN
  /\ worker = [at |-> "brief", on |-> b] /\ ~task[b].linked
  /\ \/ run[b] # "none" /\ At(b, "link") /\ UNCHANGED <<task, trigger>>
     \/ /\ run[b] = "none" /\ ClaimFree(row)
        /\ Claim(b, "creating", TRUE, row.input)
        /\ At(b, "create") /\ UNCHANGED task
     \/ /\ run[b] = "none" /\ ~ClaimFree(row)
        /\ worker' = Tick /\ UNCHANGED <<task, trigger>>
  /\ UNCHANGED <<submission, run, batch, item, history, faults>>

\* CreateAgentRunForTrigger; agent_runs has one row for a trigger.
CreateRun(b) ==
  /\ worker = [at |-> "create", on |-> b]
  /\ run' = [run EXCEPT ![b] = "queued"]
  /\ At(b, "link")
  /\ UNCHANGED <<submission, task, trigger, batch, item, history, faults>>

\* The trigger names its run, and LinkCloudOrchestrationRun has the task name it too.
\* (A stop between the two leaves a run the next attempt finds, as a stop before both.)
LinkRun(b) ==
  /\ worker = [at |-> "link", on |-> b]
  /\ Claim(b, "created", FALSE, trigger[b].input)
  /\ task' = [task EXCEPT ![b] = [state |-> "waiting", linked |-> TRUE]]
  /\ worker' = Tick
  /\ UNCHANGED <<submission, run, batch, item, history, faults>>

\* The rest of ProcessCOSBriefing: a run that has not completed is looked at again in
\* five minutes, one whose briefing is blank in a minute, whatever becomes of either;
\* the briefing of any other is published under the batch's key.
LookAtRun(b) ==
  /\ worker = [at |-> "brief", on |-> b] /\ task[b].linked
  /\ IF run[b] = "completed"
       THEN At(b, "finish") /\ UNCHANGED task
       ELSE Waiting(b) /\ worker' = Tick
  /\ UNCHANGED <<submission, trigger, run, batch, item, history, faults>>

CompleteTask(b) ==
  /\ worker = [at |-> "finish", on |-> b]
  /\ task' = [task EXCEPT ![b].state = "completed"]
  /\ worker' = Tick
  /\ UNCHANGED <<submission, trigger, run, batch, item, history, faults>>

\* An error: the trigger's claim is given back if the run was not created, and the task
\* is rescheduled, unless it is the task's own update that fails.
BriefingFails(b) ==
  /\ worker.on = b /\ worker.at \in {"brief", "create", "link", "finish"} /\ Fault
  /\ IF worker.at = "create" THEN Claim(b, "accepted", FALSE, trigger[b].input) ELSE UNCHANGED trigger
  /\ Waiting(b) \/ (worker.at \in {"link", "finish"} /\ UNCHANGED task)
  /\ worker' = Tick
  /\ UNCHANGED <<submission, run, batch, item, history>>

\* The agent runtime (AgentRuntime): an admitted run ends, and one that completes has
\* written a briefing or a blank one ("empty").
RunEnds(b) ==
  /\ run[b] = "queued"
  /\ \E outcome \in {"completed", "empty", "failed"} : run' = [run EXCEPT ![b] = outcome]
  /\ UNCHANGED <<submission, task, trigger, batch, item, worker, history, faults>>

\* The process stops and another one starts: calls and loop are gone, their rows keep
\* their leases.
Stop ==
  /\ Fault
  /\ worker' = Tick
  /\ call' = [c \in Calls |-> NoCall]
  /\ reservation' = Lost(reservation)
  /\ ledger' = [b \in Batches |-> Lost(ledger[b])]
  /\ UNCHANGED <<window, checkpoint, briefing, batch, item, history>>

\* The claim of a trigger left in the middle lapses in a minute.
TriggerLapses(b) ==
  /\ trigger[b].live /\ worker \notin [at : {"create", "link"}, on : {b}]
  /\ trigger' = [trigger EXCEPT ![b].live = FALSE]
  /\ UNCHANGED <<submission, task, run, batch, item, worker, history, faults>>

-----------------------------------------------------------------------------

CallStep(c) == Reserve(c) \/ Accept(c) \/ BeginFinalize(c) \/ Finalize(c) \/ Receipt(c)
BriefingStep(b) == TriggerRun(b) \/ CreateRun(b) \/ LinkRun(b) \/ LookAtRun(b) \/ CompleteTask(b)
Lapse == ReservationLapses \/ \E b \in Batches : LedgerLapses(b) \/ TriggerLapses(b)

Next ==
  \/ \E b \in Batches : Scan(b) \/ RunEnds(b) \/ ClaimTask(b) \/ BriefingStep(b) \/ BriefingFails(b)
  \/ \E c \in Calls : \/ \E b \in Batches : Submit(c, b)
                      \/ CallStep(c) \/ AcceptFails(c) \/ CallLost(c)
  \/ \E m \in Mail : ClaimItem(m)
  \/ CompleteItem \/ ItemFails \/ CompleteItemFails \/ Stop \/ Lapse

Spec == Init /\ [][Next]_vars

\* The client submits a batch until it has its receipt ("Retryable" in the gateway's
\* errors); the loop ticks on and takes what is due, oldest first; calls return; leases
\* nobody renews lapse; runs end.
Fairness ==
  /\ \A b \in Batches : SF_vars(\E c \in Calls : Submit(c, b)) /\ SF_vars(ClaimTask(b))
  /\ SF_vars(\E m \in Mail : ClaimItem(m))
  /\ \A c \in Calls : WF_vars(CallStep(c))
  /\ WF_vars(CompleteItem \/ \E b \in Batches : BriefingStep(b))
  /\ WF_vars(\E b \in Batches : RunEnds(b))
  /\ WF_vars(Lapse /\ faults' = faults)

FairSpec == Spec /\ Fairness

-----------------------------------------------------------------------------
(* Properties *)

\* "Never advance a checkpoint before Vessica accepts the batch": whatever batches race,
\* mail the checkpoint has passed has been accepted.
CheckpointCovers == \A m \in Mail : m <= checkpoint => item[m].state # "none"

\* A receipt is true and stays true: its watermark was committed and is not taken back.
ReceiptTrue == \A b \in Batches : ledger[b].state = "completed" => checkpoint >= To(b)

\* The run that writes a batch's briefing was given all of the batch's items, unless the
\* worker caught up with the submission and completed the batch before it was finalized.
BriefingCovers ==
  \A b \in Batches : trigger[b].state # "none" /\ history[b] # "early" => trigger[b].input = ItemsOf(b)

\* A batch another one has overtaken, or that waits for one which cannot be finalized.
Overtaken(b) == window[b] # <<>> /\ checkpoint # From(b) /\ (history[b] = "open" \/ checkpoint # To(b))
Blocked(b) == Held /\ reservation.batch # b /\ history[reservation.batch] = "early"

\* What is to come of a batch: its client gets a receipt, and what was accepted a briefing.
Settled(b) ==
  ledger[b].state \in {"none", "completed"} \/ Overtaken(b) \/ Blocked(b) \/ history[b] = "early"
Briefed(b) == history[b] = "open" \/ task[b].state = "completed" \/ run[b] \in {"failed", "empty"}

\* A client that submits its batch until it has a receipt gets one, through lost calls,
\* leases left behind and competing batches, and a batch that was accepted has its
\* briefing in the end, unless its run has failed or has written none.
BatchesEnd == []<>(\A b \in Batches : Settled(b) /\ Briefed(b))
=============================================================================
