---------------------------- MODULE LinearOutbox ----------------------------
(***************************************************************************)
(* What Linear shows of an epic and its tickets.  A loop enqueues, for     *)
(* every ticket of the run, one message under a key made of the ticket and *)
(* its status; another loop sends the messages one by one, the oldest      *)
(* first, and retries those that fail.  The first message of a ticket      *)
(* creates its sub-issue, the others set the sub-issue's state, and each   *)
(* may close the epic's own issue.                                         *)
(*                                                                         *)
(* One process runs both loops (ControlPlaneLease says for how long there  *)
(* may be two).  history records what the properties make exceptions for:  *)
(*   "failed"   a message was not sent at its first attempt                *)
(*   "skipped"  an enqueue failed, and nobody noticed                      *)
(*   "lost"     Linear did what its caller takes for failed                *)
(*   "again"    a ticket returned to a status it has had before            *)
(*   "late"     a ticket was closed before a pass saw it                   *)
(*   "unread"   a ticket got another sub-issue, since the look-up of the   *)
(*              one it has had failed                                      *)
(***************************************************************************)
EXTENDS Naturals, Sequences

CONSTANTS
  NumTickets,
  MaxTries,   \* attempts after which FailOutbox gives up; 8 in the code
  Faults,     \* crashes and failed calls (bound)
  Releases    \* tickets given back to 'open' (bound)

ASSUME OutboxAssumption ==
  NumTickets \in Nat /\ MaxTries \in Nat \ {0} /\ Faults \in Nat /\ Releases \in Nat

VARIABLES
  ticket,   \* tickets.status
  order,    \* the keys of outbox_messages by created_at
  row,      \* status and attempts per key
  mapping,  \* external_mappings of the tickets: an index of issue, 0 for none
  issue,    \* the sub-issues in Linear
  parent,   \* the state of the epic's issue in Linear
  loop,     \* the outbox loop and the message it has in hand
  released, faults, history

vars == <<ticket, order, row, mapping, issue, parent, loop, released, faults, history>>

Tickets == 1..NumTickets
Status == {"open", "in_progress", "closed"}
\* The issue of the epic is number 0; accepting the epic enqueued its only message.
EpicInWork == <<0, "in_progress">>
Keys == (Tickets \X Status) \cup {EpicInWork}

\* TodoStateID, WIPStateID, DoneStateID
IssueState == {"todo", "wip", "done"}
StateFor(status) ==
  CASE status = "open" -> "todo" [] status = "in_progress" -> "wip" [] status = "closed" -> "done"

Waiting == {"pending", "retry"}
MessageRow == [status: {"none", "running", "completed", "failed"} \cup Waiting, attempts: Nat]
NoMessage == [status |-> "none", attempts |-> 0]
Fresh == [status |-> "pending", attempts |-> 0]

Loop == [pc: {"down", "idle", "update", "create", "map", "check", "close", "finish"},
         key: Keys, attempts: Nat]
Idle == [pc |-> "idle", key |-> EpicInWork, attempts |-> 0]

Init ==
  /\ ticket = [t \in Tickets |-> "open"]
  /\ order = <<EpicInWork>>
  /\ row = [k \in Keys |-> IF k = EpicInWork THEN Fresh ELSE NoMessage]
  /\ mapping = [t \in Tickets |-> 0]
  /\ issue = <<>>
  /\ parent = "todo"
  /\ loop = Idle
  /\ released = 0
  /\ faults = 0
  /\ history = {}

Fault == faults < Faults /\ faults' = faults + 1
Note(what) == history' = history \cup what
When(condition, what) == IF condition THEN {what} ELSE {}

-----------------------------------------------------------------------------
(* The run *)

Work(t) ==
  /\ \/ ticket[t] = "open" /\ ticket' = [ticket EXCEPT ![t] = "in_progress"]
     \/ ticket[t] = "in_progress" /\ ticket' = [ticket EXCEPT ![t] = "closed"]
  /\ UNCHANGED <<order, row, mapping, issue, parent, loop, released, faults, history>>

\* The claim is given up or expires.
Release(t) ==
  /\ ticket[t] = "in_progress" /\ ticket' = [ticket EXCEPT ![t] = "open"]
  /\ released < Releases /\ released' = released + 1
  /\ Note({"again"})
  /\ UNCHANGED <<order, row, mapping, issue, parent, loop, faults>>

-----------------------------------------------------------------------------
(* SyncRunToLinear, in a pass of the projection loop *)

\* Mutant of Upserted: a message that was given up stays so.
UpsertedUnlessOver(r) ==
  CASE r = NoMessage -> Fresh
    [] r.status \in {"completed", "failed"} -> r
    [] OTHER -> [r EXCEPT !.status = "pending"]

\* EnqueueOutbox: what is completed stays; what waits, runs or has failed is to be
\* sent, with the attempts it has had.
Upserted(r) ==
  CASE r = NoMessage -> Fresh
    [] r.status = "completed" -> r
    [] OTHER -> [r EXCEPT !.status = "pending"]

\* The messages of a pass, by the age of their tickets.
Pass == [t \in Tickets |-> <<t, ticket[t]>>]
Unseen(t) == \A status \in Status : row[<<t, status>>] = NoMessage

\* A pass: the tickets are read in one statement and enqueued one by one, the oldest
\* first; an enqueue that fails is ignored.  A pass that would change nothing is left out.
Sync(skipped) ==
  LET found == {Pass[t] : t \in Tickets \ skipped}
      fresh == {k \in found : row[k] = NoMessage} IN
  /\ loop.pc # "down"
  /\ \E t \in Tickets : row[Pass[t]] # Upserted(row[Pass[t]])
  /\ IF skipped = {} THEN UNCHANGED faults ELSE Fault
  /\ row' = [k \in Keys |-> IF k \in found THEN Upserted(row[k]) ELSE row[k]]
  /\ \E n \in 0..NumTickets : \E new \in [1..n -> fresh] :
       /\ \A k \in fresh : \E i \in DOMAIN new : new[i] = k
       /\ \A i, j \in DOMAIN new : i < j => new[i][1] < new[j][1]
       /\ order' = order \o new
  /\ Note(When(skipped # {}, "skipped")
          \cup When(\E t \in Tickets : Unseen(t) /\ ticket[t] = "closed", "late"))
  /\ UNCHANGED <<ticket, mapping, issue, parent, loop, released>>

-----------------------------------------------------------------------------
(* The outbox loop *)

\* Mutant of Orphan: a message that is running is never taken up again.
NeverOrphan(k) == FALSE

\* Running for more than five minutes; no call takes that long.
Orphan(k) == row[k].status = "running"

\* Mutant of OldestFirst: without ORDER BY created_at.
AnyFirst(i) == TRUE

\* A message that waits for another attempt may be due or not; a fresh one is.
OldestFirst(i) == \A j \in 1..(i - 1) : row[order[j]] # Fresh

\* The message of the epic looks nothing up; nobody but this loop writes the mappings
\* of tickets.
IsMapped(t) == t = 0 \/ mapping[t] # 0
Takes(k, pc) == loop' = [pc |-> pc, key |-> k, attempts |-> row[k].attempts + 1]

\* ClaimOutbox, and the choice between the calls of processOutbox: any error of
\* GetExternalMapping is taken for "not mapped".
Claim(i) ==
  LET k == order[i] IN
  /\ loop.pc = "idle"
  /\ row[k].status \in Waiting \/ Orphan(k)
  /\ OldestFirst(i)
  /\ row' = [row EXCEPT ![k] = [status |-> "running", attempts |-> @.attempts + 1]]
  /\ \/ /\ Takes(k, IF IsMapped(k[1]) THEN "update" ELSE "create")
        /\ UNCHANGED <<faults, history>>
     \/ /\ k[1] # 0 /\ mapping[k[1]] # 0 /\ Takes(k, "create")
        /\ Fault /\ Note({"unread"})
  /\ UNCHANGED <<ticket, order, mapping, issue, parent, released>>

\* The ticket of the message in hand, or 0, and the state it asks for.
Subject == loop.key[1]
Wanted == StateFor(loop.key[2])
Proceeds(pc) == loop' = [loop EXCEPT !.pc = pc]

\* What the calls do in Linear.
Updates ==
  IF Subject = 0 THEN parent' = Wanted /\ UNCHANGED issue
  ELSE issue' = [issue EXCEPT ![mapping[Subject]].state = Wanted] /\ UNCHANGED parent
Creates == issue' = Append(issue, [ticket |-> Subject, state |-> Wanted]) /\ UNCHANGED parent
Closes == parent' = "done" /\ UNCHANGED issue

\* Mutant of AfterUpdate: nobody looks at the parent.
AfterUpdateAtOnce == "finish"

\* The epic's issue has no parent to look at.
AfterUpdate == IF Subject = 0 THEN "finish" ELSE "check"

\* UpdateIssueState
Update ==
  /\ loop.pc = "update" /\ Updates
  /\ Proceeds(AfterUpdate)
  /\ UNCHANGED <<ticket, order, row, mapping, released, faults, history>>

\* CreateSubIssue, for a ticket that has none as far as the look-up could tell.
CreateSubIssue ==
  /\ loop.pc = "create" /\ Creates
  /\ Proceeds("map")
  /\ UNCHANGED <<ticket, order, row, mapping, released, faults, history>>

\* Mutant of Mapped: the answer is not written down.
MappedNot == mapping

\* UpsertExternalMapping, for the issue just created; an earlier one is forgotten.
Mapped == [mapping EXCEPT ![Subject] = Len(issue)]

Map ==
  /\ loop.pc = "map"
  /\ mapping' = Mapped
  /\ Proceeds("check")
  /\ UNCHANGED <<ticket, order, row, issue, parent, released, faults, history>>

\* Mutant of ChildrenDone: one child that is done will do.
SomeChildDone == \E i \in DOMAIN issue : issue[i].state = "done"

ChildrenDone == \A i \in DOMAIN issue : issue[i].state = "done"

\* completeLinearParentIfAllChildrenDone reads child and parent ...
Check ==
  /\ loop.pc = "check"
  /\ Proceeds(IF ChildrenDone /\ parent # "done" THEN "close" ELSE "finish")
  /\ UNCHANGED <<ticket, order, row, mapping, issue, parent, released, faults, history>>

\* ... and closes the parent.
CloseParent ==
  /\ loop.pc = "close" /\ Closes
  /\ Proceeds("finish")
  /\ UNCHANGED <<ticket, order, row, mapping, released, faults, history>>

\* CompleteOutbox, by id; its error is ignored.
Finish ==
  /\ loop.pc = "finish"
  /\ \/ row' = [row EXCEPT ![loop.key].status = "completed"] /\ UNCHANGED <<faults, history>>
     \/ UNCHANGED row /\ Fault /\ Note({"failed"})
  /\ loop' = Idle
  /\ UNCHANGED <<ticket, order, mapping, issue, parent, released>>

\* The call under way comes to nothing, or is done in Linear and its answer is lost.
Interrupted ==
  \/ UNCHANGED <<issue, parent>> /\ Note({"failed"} \cup When(loop.pc = "map", "lost"))
  \/ /\ \/ loop.pc = "update" /\ Updates
        \/ loop.pc = "create" /\ Creates
        \/ loop.pc = "close" /\ Closes
     /\ Note({"failed", "lost"})

GivesUp == loop.attempts >= MaxTries

\* A call or a statement fails or takes too long: FailOutbox, by id.
CallFails ==
  /\ loop.pc \notin {"down", "idle", "finish"} /\ Fault
  /\ Interrupted
  /\ row' = [row EXCEPT ![loop.key].status = IF GivesUp THEN "failed" ELSE "retry"]
  /\ loop' = Idle
  /\ UNCHANGED <<ticket, order, mapping, released>>

-----------------------------------------------------------------------------
(* The process *)

\* A crash, a shutdown or a lost lease.  The message in hand stays 'running':
\* FailOutbox has no context left to say otherwise.
Stop ==
  /\ loop.pc # "down" /\ Fault
  /\ IF loop.pc = "idle" THEN UNCHANGED <<issue, parent, history>> ELSE Interrupted
  /\ loop' = [Idle EXCEPT !.pc = "down"]
  /\ UNCHANGED <<ticket, order, row, mapping, released>>

Start ==
  /\ loop.pc = "down"
  /\ loop' = Idle
  /\ UNCHANGED <<ticket, order, row, mapping, issue, parent, released, faults, history>>

Send == Update \/ CreateSubIssue \/ Map \/ Check \/ CloseParent \/ Finish

Next ==
  \/ \E t \in Tickets : Work(t) \/ Release(t)
  \/ \E skipped \in SUBSET Tickets : Sync(skipped)
  \/ \E i \in DOMAIN order : Claim(i)
  \/ Send
  \/ CallFails
  \/ Stop
  \/ Start

Spec == Init /\ [][Next]_vars

\* The platform starts a process that has stopped, the loops tick, calls time out, and
\* a message that waits for another attempt or was left running becomes due.
Fairness ==
  /\ WF_vars(Start)
  /\ WF_vars(\E skipped \in SUBSET Tickets : Sync(skipped))
  /\ WF_vars(Send)
  /\ WF_vars(\E i \in DOMAIN order : Claim(i))

FairSpec == Spec /\ Fairness

-----------------------------------------------------------------------------
(* Properties *)

TypeOK ==
  /\ ticket \in [Tickets -> Status]
  /\ order \in Seq(Keys)
  /\ row \in [Keys -> MessageRow]
  /\ mapping \in [Tickets -> 0..Len(issue)]
  /\ issue \in Seq([ticket: Tickets, state: IssueState])
  /\ parent \in IssueState
  /\ loop \in Loop
  /\ released \in 0..Releases /\ faults \in 0..Faults
  /\ history \subseteq {"failed", "skipped", "lost", "again", "late", "unread"}

\* A ticket has one sub-issue, whatever is retried, unless Linear has created one that
\* nobody wrote down, or what was written down could not be read.
OneSubIssue ==
  history \cap {"lost", "unread"} = {} =>
    \A i, j \in DOMAIN issue : issue[i].ticket = issue[j].ticket => i = j

Sent(t) == row[<<t, ticket[t]>>].status = "completed"

\* When the message for the present status of a ticket has been sent, that is what
\* Linear shows, unless an older message had to be tried again or the status is back.
SentMeansShown ==
  history \cap {"failed", "again"} = {} =>
    \A t \in Tickets : Sent(t) => mapping[t] # 0 /\ issue[mapping[t]].state = StateFor(ticket[t])

\* The epic's issue is not done before the last ticket is closed, unless a sub-issue
\* was still missing.
DoneLast ==
  history \cap {"failed", "skipped", "late"} = {} =>
    (parent = "done" => \A t \in Tickets : ticket[t] = "closed")

\* The status of a ticket is sent again and again, whatever has failed, been retried or
\* given up in between: of a status that is kept, that it is sent at last.
StatusSent == \A t \in Tickets : []<>(Sent(t))

\* The outbox runs empty again and again: no message is left 'running' or waiting, not
\* even one whose process died.
OutboxDrains == []<>(\A k \in Keys : row[k].status \in {"none", "completed", "failed"})

\* When all tickets are closed the epic's issue is done at last.
ParentFollows ==
  (\A t \in Tickets : ticket[t] = "closed")
    ~> (parent = "done" \/ history # {})
=============================================================================
