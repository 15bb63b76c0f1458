---------------------------- MODULE TicketClaims ----------------------------
(***************************************************************************)
(* Tickets and the leases agents hold on them: claim, heartbeat, release,  *)
(* close, the sweep of expired leases, and the edits that write a ticket's *)
(* status without looking at its claim.                                    *)
(*                                                                         *)
(* The rows live in Postgres at READ COMMITTED.  What a request reads      *)
(* before it holds the row locks it writes under is kept in op[h]; its     *)
(* writes, all under those locks, are one step.  A claim's first UPDATE    *)
(* finds expired leases in a subquery, which Postgres does not evaluate    *)
(* again when the ticket row it waited for has changed: it re-checks the   *)
(* ticket's own status only.                                               *)
(***************************************************************************)
EXTENDS Naturals

CONSTANTS
  Tickets,
  Agents,
  Handlers,  \* requests served at a time: CLI processes and the run engine
  None       \* no agent, no ticket, no status

TicketStatus == {"ready", "claimed", "in_progress", "blocked", "closed"}

ASSUME NoneAssumption == None \notin Agents \cup Tickets \cup TicketStatus

VARIABLES
  ticket,  \* tickets.status
  claim,   \* the row of claims for each ticket (ticket_id is UNIQUE)
  op,      \* what each request has read and not yet written
  torn     \* history: some request wrote over a claim it had not looked at

vars == <<ticket, claim, op, torn>>

-----------------------------------------------------------------------------
(* Rows *)

ClaimStatus == {"active", "expired", "released", "closed"}
ClaimRow == [agent: Agents \cup {None}, status: ClaimStatus, expired: BOOLEAN]
Claim == {c \in ClaimRow : c.status = "active" => c.agent # None}
\* The row does not exist yet.
NoClaim == [agent |-> None, status |-> "released", expired |-> FALSE]

Working == {"claimed", "in_progress"}
Active(t) == claim[t].status = "active"
Lapsed(t) == Active(t) /\ claim[t].expired
Live(t) == Active(t) /\ ~claim[t].expired

\* ids: the tickets whose lease the request found expired; write: the status an
\* edit is about to write.
OpRow == [kind: {"idle", "sweep", "claim", "close", "update"},
          ticket: Tickets \cup {None}, agent: Agents \cup {None},
          ids: SUBSET Tickets, write: TicketStatus \cup {None}]
Op == {o \in OpRow : /\ o.kind = "claim" => o.agent # None
                     /\ o.kind = "update" => o.write # None}
Request(kind, t, a, ids, s) ==
  [kind |-> kind, ticket |-> t, agent |-> a, ids |-> ids, write |-> s]
Idle == Request("idle", None, None, {}, None)

\* createTicket: a ticket is 'ready' and has no claim.
Init ==
  /\ ticket = [t \in Tickets |-> "ready"]
  /\ claim = [t \in Tickets |-> NoClaim]
  /\ op = [h \in Handlers |-> Idle]
  /\ torn = FALSE

Begin(h, o) == op[h] = Idle /\ op' = [op EXCEPT ![h] = o] /\ UNCHANGED <<ticket, claim, torn>>
Finish(h) == op' = [op EXCEPT ![h] = Idle]

LeaseExpires(t) ==
  /\ Live(t)
  /\ claim' = [claim EXCEPT ![t].expired = TRUE]
  /\ UNCHANGED <<ticket, op, torn>>

-----------------------------------------------------------------------------
(* Sweeping and claiming *)

\* The status of each ticket once those of ids in Working are 'ready' again.
Reopened(ids) ==
  [t \in Tickets |-> IF t \in ids /\ ticket[t] \in Working THEN "ready" ELSE ticket[t]]

Expired(row) == [agent |-> row.agent, status |-> "expired", expired |-> row.expired]

\* ExpireClaims, which ReadyTickets calls first: the SELECT outside the transaction ...
BeginExpire(h) ==
  LET ids == {t \in Tickets : Lapsed(t)} IN
  ids # {} /\ Begin(h, Request("sweep", None, None, ids, None))

\* Mutant of SweptTickets: the sweep ends claims and leaves the tickets.
SweptNothing(ids) == ticket

SweptTickets(ids) == Reopened(ids)

\* ... and the transaction that writes to what was selected.
ExpireCommit(h) ==
  LET ids == op[h].ids IN
  /\ op[h].kind = "sweep"
  /\ claim' = [t \in Tickets |-> IF t \in ids THEN Expired(claim[t]) ELSE claim[t]]
  /\ ticket' = SweptTickets(ids)
  /\ torn' = (torn \/ \E t \in ids : Live(t))
  /\ Finish(h)

\* ClaimTicket, asked for by id or by ClaimNext: the subquery of its first UPDATE ...
BeginClaim(h, t, a) == Begin(h, Request("claim", t, a, {u \in Tickets : Lapsed(u)}, None))

ClaimedRow(o) == [agent |-> o.agent, status |-> "active", expired |-> FALSE]

\* Mutant of ClaimCAS: UPDATE ... SET status='claimed' without AND status='ready'.
ClaimsAnything(o) == ticket[o.ticket] # "closed"

\* UPDATE tickets SET status='claimed' WHERE id=? AND status='ready' changed a row.
ClaimCAS(o) == Reopened(o.ids)[o.ticket] = "ready"

\* ... and its writes.  If the ticket is not 'ready' all is rolled back (Rollback).
ClaimCommit(h) ==
  LET o == op[h] IN
  /\ o.kind = "claim"
  /\ ClaimCAS(o)
  /\ ticket' = [Reopened(o.ids) EXCEPT ![o.ticket] = "claimed"]
  /\ claim' = [t \in Tickets |->
                 IF t = o.ticket THEN ClaimedRow(o)
                 ELSE IF t \in o.ids /\ Lapsed(t) THEN Expired(claim[t]) ELSE claim[t]]
  /\ torn' = (torn \/ \E t \in o.ids : Live(t))
  /\ Finish(h)

-----------------------------------------------------------------------------
(* The holder *)

\* HeartbeatClaim renews an active claim, late or not, and the ticket is
\* 'in_progress' whatever it was.
HeartbeatClaim(t, a) ==
  /\ Active(t) /\ claim[t].agent = a
  /\ claim' = [claim EXCEPT ![t].expired = FALSE]
  /\ ticket' = [ticket EXCEPT ![t] = "in_progress"]
  /\ UNCHANGED <<op, torn>>

ReleaseClaim(t, a) ==
  /\ Active(t) /\ claim[t].agent = a
  /\ claim' = [claim EXCEPT ![t].status = "released"]
  /\ ticket' = [ticket EXCEPT ![t] = "ready"]
  /\ UNCHANGED <<op, torn>>

\* err == nil && claimAgent != agentID is an error; no active claim is not.
MayClose(t, a) == Active(t) => claim[t].agent = a

\* CloseTicket looks for another agent's claim, without locking it ...
BeginClose(h, t, a) ==
  /\ MayClose(t, a)
  /\ Begin(h, Request("close", t, a, {}, None))

\* Mutant of ClosedClaim: closing a ticket leaves its claim as it was.
ClosedClaimNot(t) == claim[t]

ClosedClaim(t) == [agent |-> claim[t].agent, status |-> "closed", expired |-> claim[t].expired]

\* ... then closes the ticket and its claim, whoever holds it by now.
CloseCommit(h) ==
  LET t == op[h].ticket IN
  /\ op[h].kind = "close"
  /\ ticket' = [ticket EXCEPT ![t] = "closed"]
  /\ claim' = [claim EXCEPT ![t] = ClosedClaim(t)]
  /\ torn' = (torn \/ (Active(t) /\ claim[t].agent # op[h].agent))
  /\ Finish(h)

-----------------------------------------------------------------------------
(* Writers that do not look at the claim *)

\* UpdateTicket reads the row and writes back every column.  'ves ticket update'
\* writes the status it read, 'block' writes 'blocked', 'unblock' writes 'ready'.
BeginUpdate(h, t) ==
  \E s \in {ticket[t], "blocked", "ready"} :
    Begin(h, Request("update", t, None, {}, s))

\* The edit leaves ticket and claim at odds, or reopens what was closed.
AtOdds(t, s) ==
  \/ Active(t) /\ s = "ready"
  \/ ~Active(t) /\ s \in Working
  \/ ticket[t] = "closed" /\ s # "closed"

UpdateCommit(h) ==
  LET t == op[h].ticket  s == op[h].write IN
  /\ op[h].kind = "update"
  /\ ticket' = [ticket EXCEPT ![t] = s]
  /\ torn' = (torn \/ AtOdds(t, s) \/ (s = "closed" /\ Active(t)))
  /\ Finish(h)
  /\ UNCHANGED claim

\* The scenario that failed passes now: the bug ticket is 'closed', its claim stays.
ResolveValidationFailure(t) ==
  /\ ticket[t] # "closed"
  /\ ticket' = [ticket EXCEPT ![t] = "closed"]
  /\ torn' = (torn \/ Active(t))
  /\ UNCHANGED <<claim, op>>

\* The request fails, is a deadlock victim, or its client dies.
Rollback(h) ==
  /\ op[h] # Idle
  /\ Finish(h)
  /\ UNCHANGED <<ticket, claim, torn>>

Serve(h) ==
  \/ BeginExpire(h)
  \/ ExpireCommit(h)
  \/ ClaimCommit(h)
  \/ CloseCommit(h)
  \/ UpdateCommit(h)
  \/ Rollback(h)
  \/ \E t \in Tickets : \/ BeginUpdate(h, t)
                        \/ \E a \in Agents : BeginClaim(h, t, a) \/ BeginClose(h, t, a)

Next ==
  \/ \E h \in Handlers : Serve(h)
  \/ \E t \in Tickets : \/ LeaseExpires(t)
                        \/ ResolveValidationFailure(t)
                        \/ \E a \in Agents : HeartbeatClaim(t, a) \/ ReleaseClaim(t, a)

Spec == Init /\ [][Next]_vars

-----------------------------------------------------------------------------
(* Properties *)

TypeOK ==
  /\ ticket \in [Tickets -> TicketStatus]
  /\ claim \in [Tickets -> Claim]
  /\ op \in [Handlers -> Op]
  /\ torn \in BOOLEAN

\* Unless a request wrote over a claim it had not looked at: a ticket in work has
\* the active claim that a sweep needs to find to give it back, and a ticket in the
\* queue or closed has none, so nothing is stuck and nothing handed out twice.
ClaimMatchesTicket ==
  ~torn => \A t \in Tickets : /\ ticket[t] \in Working => Active(t)
                              /\ ticket[t] \in {"ready", "closed"} => ~Active(t)

\* The step ends a request of agent a to close t.
ClosedBy(t, a) ==
  \E h \in Handlers : /\ op[h].kind = "close" /\ op[h].ticket = t /\ op[h].agent = a
                      /\ op'[h] = Idle

\* A claim whose lease runs is its agent's until that agent releases it or closes
\* the ticket; no claimant, sweep or other agent's close ends it, unless torn.
Kept(t) ==
  Live(t) => /\ claim'[t].agent = claim[t].agent
             /\ claim'[t].status \in {"active", "released", "closed"}
             /\ claim'[t].status = "closed" => ClosedBy(t, claim[t].agent)
LeaseHonoured == [][~torn' => \A t \in Tickets : Kept(t)]_vars

\* Work that is closed is not done again: nobody claims, renews or reopens a
\* closed ticket, unless torn.
ClosedForGood ==
  [][~torn' => \A t \in Tickets : ticket[t] = "closed" => ticket'[t] = "closed"]_vars

\* "The conditional update is the claim lock: concurrent Postgres claimers cannot
\* both change the same ready row" (ClaimTicket): a claimant that found a lease
\* expired does not take the ticket from one that has claimed it since.
TakenFromLive(h, t) ==
  /\ op[h].kind = "claim" /\ op[h].ticket = t /\ t \in op[h].ids
  /\ Live(t) /\ claim'[t].agent # claim[t].agent
ClaimLock == [][\A h \in Handlers, t \in Tickets : ~TakenFromLive(h, t)]_vars
=============================================================================
