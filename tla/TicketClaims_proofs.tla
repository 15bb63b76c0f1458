------------------------- MODULE TicketClaims_proofs -------------------------
(***************************************************************************)
(* The lease discipline of tickets, for any number of tickets, agents and  *)
(* requests: as long as no request writes over a claim it has not looked   *)
(* at, ticket and claim agree, and then a running lease is honoured and a  *)
(* closed ticket stays closed.  TypeOK /\ ClaimMatchesTicket is inductive. *)
(***************************************************************************)
EXTENDS TicketClaims, TLAPS

TicketInv == TypeOK /\ ClaimMatchesTicket

-----------------------------------------------------------------------------
(* Types *)

LEMMA RequestTyped ==
  ASSUME NEW kind \in {"idle", "sweep", "claim", "close", "update"},
         NEW t \in Tickets \cup {None}, NEW a \in Agents \cup {None},
         NEW ids \in SUBSET Tickets, NEW s \in TicketStatus \cup {None},
         kind = "claim" => a # None, kind = "update" => s # None
  PROVE  Request(kind, t, a, ids, s) \in Op
<1>1. Request(kind, t, a, ids, s) \in OpRow
  BY DEF Request, OpRow
<1> QED
  BY <1>1 DEF Request, Op

LEMMA IdleTyped == Idle \in Op
BY RequestTyped DEF Idle

LEMMA ClaimTyped ==
  ASSUME NEW a \in Agents \cup {None}, NEW s \in ClaimStatus, NEW e \in BOOLEAN,
         s = "active" => a # None
  PROVE  [agent |-> a, status |-> s, expired |-> e] \in Claim
<1>1. [agent |-> a, status |-> s, expired |-> e] \in ClaimRow
  BY DEF ClaimRow
<1> QED
  BY <1>1 DEF Claim

LEMMA InitTyped == Init => TypeOK
<1>1. NoClaim \in Claim
  BY ClaimTyped DEF NoClaim, ClaimStatus
<1> QED
  BY <1>1, IdleTyped DEF Init, TypeOK, TicketStatus

LEMMA FinishTyped ==
  ASSUME TypeOK, NEW h \in Handlers, Finish(h)
  PROVE  op' \in [Handlers -> Op]
BY IdleTyped DEF TypeOK, Finish

LEMMA ReopenedTyped ==
  ASSUME TypeOK, NEW ids
  PROVE  Reopened(ids) \in [Tickets -> TicketStatus]
BY DEF TypeOK, Reopened, TicketStatus

\* What a commit writes into a row of claims is a row.
LEMMA RowsTyped ==
  ASSUME TypeOK, NEW t \in Tickets
  PROVE  Expired(claim[t]) \in Claim /\ ClosedClaim(t) \in Claim
<1>1. /\ claim[t].agent \in Agents \cup {None}
      /\ claim[t].expired \in BOOLEAN
  BY DEF TypeOK, Claim, ClaimRow
<1> QED
  BY <1>1, ClaimTyped DEF Expired, ClosedClaim, ClaimStatus

LEMMA BeginTyped ==
  ASSUME TypeOK, NEW h \in Handlers, NEW o \in Op, Begin(h, o)
  PROVE  TypeOK'
BY DEF TypeOK, Begin

LEMMA ServeTyped ==
  ASSUME TypeOK, NEW h \in Handlers, Serve(h)
  PROVE  TypeOK'
<1> USE DEF TicketStatus
<1>1. CASE BeginExpire(h)
  <2>1. Request("sweep", None, None, {t \in Tickets : Lapsed(t)}, None) \in Op
    BY RequestTyped
  <2> QED
    BY <1>1, <2>1, BeginTyped DEF BeginExpire
<1>2. CASE ExpireCommit(h)
  <2>1. claim' \in [Tickets -> Claim]
    BY <1>2, RowsTyped DEF ExpireCommit, TypeOK
  <2>2. ticket' \in [Tickets -> TicketStatus]
    BY <1>2, ReopenedTyped DEF ExpireCommit, SweptTickets
  <2>3. torn' \in BOOLEAN /\ op' \in [Handlers -> Op]
    BY <1>2, FinishTyped DEF ExpireCommit, TypeOK
  <2> QED
    BY <2>1, <2>2, <2>3 DEF TypeOK
<1>3. CASE ClaimCommit(h)
  <2>1. ClaimedRow(op[h]) \in Claim
    <3>1. op[h].agent \in Agents \cup {None} /\ op[h].agent # None
      BY <1>3 DEF TypeOK, Op, OpRow, ClaimCommit
    <3> QED
      BY <3>1, ClaimTyped DEF ClaimedRow, ClaimStatus
  <2>2. claim' \in [Tickets -> Claim]
    BY <1>3, <2>1, RowsTyped DEF ClaimCommit, TypeOK
  <2>3. ticket' \in [Tickets -> TicketStatus]
    BY <1>3, ReopenedTyped DEF ClaimCommit
  <2>4. torn' \in BOOLEAN /\ op' \in [Handlers -> Op]
    BY <1>3, FinishTyped DEF ClaimCommit, TypeOK
  <2> QED
    BY <2>2, <2>3, <2>4 DEF TypeOK
<1>4. CASE CloseCommit(h)
  <2>1. claim' \in [Tickets -> Claim]
    BY <1>4, RowsTyped DEF CloseCommit, TypeOK
  <2>2. torn' \in BOOLEAN /\ op' \in [Handlers -> Op]
    BY <1>4, FinishTyped DEF CloseCommit, TypeOK
  <2> QED
    BY <1>4, <2>1, <2>2 DEF CloseCommit, TypeOK
<1>5. CASE UpdateCommit(h)
  <2>1. op[h].write \in TicketStatus
    BY <1>5 DEF UpdateCommit, TypeOK, Op, OpRow
  <2>2. torn' \in BOOLEAN /\ op' \in [Handlers -> Op]
    BY <1>5, FinishTyped DEF UpdateCommit, TypeOK
  <2> QED
    BY <1>5, <2>1, <2>2 DEF UpdateCommit, TypeOK
<1>6. CASE Rollback(h)
  BY <1>6, FinishTyped DEF Rollback, TypeOK
<1>7. ASSUME NEW t \in Tickets, BeginUpdate(h, t)
      PROVE  TypeOK'
  <2>1. PICK s \in {ticket[t], "blocked", "ready"} :
          Begin(h, Request("update", t, None, {}, s))
    BY <1>7 DEF BeginUpdate
  <2>2. s \in TicketStatus
    BY <2>1 DEF TypeOK
  <2>3. Request("update", t, None, {}, s) \in Op
    BY <2>2, RequestTyped, NoneAssumption
  <2> QED
    BY <2>1, <2>3, BeginTyped
<1>8. ASSUME NEW t \in Tickets, NEW a \in Agents, BeginClaim(h, t, a)
      PROVE  TypeOK'
  <2>1. Request("claim", t, a, {u \in Tickets : Lapsed(u)}, None) \in Op
    BY RequestTyped, NoneAssumption
  <2> QED
    BY <1>8, <2>1, BeginTyped DEF BeginClaim
<1>9. ASSUME NEW t \in Tickets, NEW a \in Agents, BeginClose(h, t, a)
      PROVE  TypeOK'
  <2>1. Request("close", t, a, {}, None) \in Op
    BY RequestTyped
  <2> QED
    BY <1>9, <2>1, BeginTyped DEF BeginClose
<1> QED
  BY <1>1, <1>2, <1>3, <1>4, <1>5, <1>6, <1>7, <1>8, <1>9 DEF Serve

LEMMA StepTyped == TypeOK /\ [Next]_vars => TypeOK'
<1> SUFFICES ASSUME TypeOK, [Next]_vars
             PROVE  TypeOK'
  OBVIOUS
<1>1. ASSUME NEW h \in Handlers, Serve(h)
      PROVE  TypeOK'
  BY <1>1, ServeTyped
<1>2. ASSUME NEW t \in Tickets, LeaseExpires(t)
      PROVE  TypeOK'
  <2>1. [claim[t] EXCEPT !.expired = TRUE] \in Claim
    BY DEF TypeOK, Claim, ClaimRow
  <2> QED
    BY <1>2, <2>1 DEF LeaseExpires, TypeOK
<1>3. ASSUME NEW t \in Tickets, ResolveValidationFailure(t)
      PROVE  TypeOK'
  BY <1>3 DEF ResolveValidationFailure, TypeOK, TicketStatus
<1>4. ASSUME NEW t \in Tickets, NEW a \in Agents, HeartbeatClaim(t, a)
      PROVE  TypeOK'
  <2>1. [claim[t] EXCEPT !.expired = FALSE] \in Claim
    BY DEF TypeOK, Claim, ClaimRow
  <2> QED
    BY <1>4, <2>1 DEF HeartbeatClaim, TypeOK, TicketStatus
<1>5. ASSUME NEW t \in Tickets, NEW a \in Agents, ReleaseClaim(t, a)
      PROVE  TypeOK'
  <2>1. [claim[t] EXCEPT !.status = "released"] \in Claim
    BY DEF TypeOK, Claim, ClaimRow, ClaimStatus
  <2> QED
    BY <1>5, <2>1 DEF ReleaseClaim, TypeOK, TicketStatus
<1>6. CASE UNCHANGED vars
  BY <1>6 DEF vars, TypeOK
<1> QED
  BY <1>1, <1>2, <1>3, <1>4, <1>5, <1>6 DEF Next

-----------------------------------------------------------------------------
(* Ticket and claim agree *)

\* What a step must do to each ticket for the two rows to go on agreeing.
Agree(t) ==
  /\ ticket[t] \in Working => Active(t)
  /\ ticket[t] \in {"ready", "closed"} => ~Active(t)

LEMMA AgreeUntorn == ClaimMatchesTicket <=> (~torn => \A t \in Tickets : Agree(t))
BY DEF ClaimMatchesTicket, Agree

\* The whole argument: a step that does not tear keeps the rows in agreement,
\* honours running leases and leaves closed tickets closed.
Good(t) == Agree(t)' /\ Kept(t) /\ (ticket[t] = "closed" => ticket'[t] = "closed")

LEMMA ServeGood ==
  ASSUME TypeOK, TypeOK', NEW h \in Handlers, Serve(h), ~torn',
         \A t \in Tickets : Agree(t), NEW t \in Tickets
  PROVE  ~torn /\ Good(t)
<1> USE DEF Agree, Active, Working
<1>1. CASE UNCHANGED <<ticket, claim, torn>>
  BY <1>1 DEF Good, Kept, Live
<1>2. CASE ExpireCommit(h)
  <2>1. ~torn /\ (t \in op[h].ids => ~Live(t))
    BY <1>2 DEF ExpireCommit
  <2>2. ticket'[t] = IF t \in op[h].ids /\ ticket[t] \in Working
                     THEN "ready" ELSE ticket[t]
    BY <1>2 DEF ExpireCommit, SweptTickets, Reopened
  <2>3. claim'[t] = IF t \in op[h].ids THEN Expired(claim[t]) ELSE claim[t]
    BY <1>2 DEF ExpireCommit
  <2> QED
    BY <2>1, <2>2, <2>3 DEF Good, Kept, Live, Expired
<1>3. CASE ClaimCommit(h)
  <2> DEFINE o == op[h]
  <2>1. ~torn /\ (t \in o.ids => ~Live(t))
    BY <1>3 DEF ClaimCommit
  <2>2. ticket'[t] = IF t = o.ticket THEN "claimed"
                     ELSE IF t \in o.ids /\ ticket[t] \in Working
                       THEN "ready" ELSE ticket[t]
    BY <1>3 DEF ClaimCommit, Reopened
  <2>3. claim'[t] = IF t = o.ticket THEN ClaimedRow(o)
                    ELSE IF t \in o.ids /\ Lapsed(t) THEN Expired(claim[t]) ELSE claim[t]
    BY <1>3 DEF ClaimCommit
  <2>4. t = o.ticket => ticket[t] = "ready" \/ (t \in o.ids /\ ticket[t] \in Working)
    BY <1>3 DEF ClaimCommit, ClaimCAS, Reopened
  <2>5. CASE t = o.ticket
    BY <2>1, <2>2, <2>3, <2>4, <2>5 DEF Good, Kept, Live, ClaimedRow
  <2>6. CASE t # o.ticket
    BY <2>1, <2>2, <2>3, <2>6 DEF Good, Kept, Live, Lapsed, Expired
  <2> QED
    BY <2>5, <2>6
<1>4. CASE CloseCommit(h)
  <2>1. CASE t # op[h].ticket
    BY <1>4, <2>1 DEF CloseCommit, Good, Kept, Live, TypeOK
  <2>2. CASE t = op[h].ticket
    <3>1. ~torn /\ (Active(t) => claim[t].agent = op[h].agent)
      BY <1>4, <2>2 DEF CloseCommit
    <3>2. ticket'[t] = "closed" /\ claim'[t] = ClosedClaim(t)
      BY <1>4, <2>2 DEF CloseCommit, TypeOK
    <3>3. op[h].kind = "close" /\ op'[h] = Idle
      BY <1>4 DEF CloseCommit, Finish, TypeOK
    <3>4. Live(t) => ClosedBy(t, claim[t].agent)
      BY <3>1, <3>3, <2>2 DEF Live, ClosedBy
    <3> QED
      BY <3>1, <3>2, <3>4 DEF Good, Kept, Live, ClosedClaim
  <2> QED
    BY <2>1, <2>2
<1>5. CASE UpdateCommit(h)
  BY <1>5 DEF UpdateCommit, AtOdds, Good, Kept, Live, TypeOK
<1> QED
  BY <1>1, <1>2, <1>3, <1>4, <1>5
     DEF Serve, BeginExpire, BeginClaim, BeginClose, BeginUpdate, Begin, Rollback

LEMMA StepGood ==
  ASSUME TypeOK, TypeOK', [Next]_vars, ~torn',
         \A t \in Tickets : Agree(t), NEW t \in Tickets
  PROVE  Good(t)
<1> USE DEF Agree, Active, Working
<1>1. ASSUME NEW h \in Handlers, Serve(h)
      PROVE  Good(t)
  BY <1>1, ServeGood
<1>2. ASSUME NEW u \in Tickets, LeaseExpires(u)
      PROVE  Good(t)
  BY <1>2 DEF LeaseExpires, Good, Kept, Live, TypeOK
<1>3. ASSUME NEW u \in Tickets, ResolveValidationFailure(u)
      PROVE  Good(t)
  BY <1>3 DEF ResolveValidationFailure, Good, Kept, Live, TypeOK
<1>4. ASSUME NEW u \in Tickets, NEW a \in Agents, HeartbeatClaim(u, a)
      PROVE  Good(t)
  BY <1>4 DEF HeartbeatClaim, Good, Kept, Live, TypeOK
<1>5. ASSUME NEW u \in Tickets, NEW a \in Agents, ReleaseClaim(u, a)
      PROVE  Good(t)
  BY <1>5 DEF ReleaseClaim, Good, Kept, Live, TypeOK
<1>6. CASE UNCHANGED vars
  BY <1>6 DEF vars, Good, Kept, Live
<1> QED
  BY <1>1, <1>2, <1>3, <1>4, <1>5, <1>6 DEF Next

\* torn is history: it stays TRUE.
LEMMA TornStays == ASSUME [Next]_vars, torn PROVE torn'
BY DEF Next, vars, Serve, BeginExpire, BeginClaim, BeginClose, BeginUpdate, Begin, Rollback,
       ExpireCommit, ClaimCommit, CloseCommit, UpdateCommit, LeaseExpires,
       ResolveValidationFailure, HeartbeatClaim, ReleaseClaim

LEMMA StepKeeps ==
  ASSUME TicketInv, [Next]_vars
  PROVE  TicketInv' /\ (~torn' => \A t \in Tickets : Good(t))
<1>1. TypeOK'
  BY StepTyped DEF TicketInv
<1>2. ~torn' => \A t \in Tickets : Good(t)
  BY <1>1, TornStays, StepGood, AgreeUntorn DEF TicketInv
<1>3. ClaimMatchesTicket'
  BY <1>2 DEF ClaimMatchesTicket, Good, Agree
<1> QED
  BY <1>1, <1>2, <1>3 DEF TicketInv

-----------------------------------------------------------------------------
(* Theorems *)

\* The inductive invariant: types, and the agreement of the two rows that every
\* request of claim.go relies on.
THEOREM TicketInvariant == Spec => []TicketInv
<1>1. Init => TicketInv
  <2>1. ASSUME Init, NEW t \in Tickets
        PROVE  ticket[t] = "ready" /\ ~Active(t)
    BY <2>1 DEF Init, Active, NoClaim
  <2>2. Init => ClaimMatchesTicket
    BY <2>1 DEF ClaimMatchesTicket, Working
  <2> QED
    BY <2>2, InitTyped DEF TicketInv
<1>2. TicketInv /\ [Next]_vars => TicketInv'
  BY StepKeeps
<1> QED
  BY <1>1, <1>2, PTL DEF Spec

\* A ticket in work has an active claim and a queued or closed one has none, until
\* a request writes over a claim it has not looked at (claim.go, UpdateTicket).
THEOREM ClaimMatchesTicketCorrect == Spec => []ClaimMatchesTicket
<1>1. TicketInv => ClaimMatchesTicket
  BY DEF TicketInv
<1> QED
  BY <1>1, TicketInvariant, PTL

\* A running lease ends only by its agent's release or close: ClaimTicket,
\* ExpireClaims and CloseTicket leave it alone unless they raced.
THEOREM LeaseHonouredCorrect == Spec => LeaseHonoured
<1>1. TicketInv /\ [Next]_vars => [~torn' => \A t \in Tickets : Kept(t)]_vars
  BY StepKeeps DEF Good
<1> QED
  BY <1>1, TicketInvariant, PTL DEF Spec, LeaseHonoured

\* A closed ticket is not claimed, renewed or reopened, unless a request raced or
\* wrote a ticket's status blindly (CloseTicket, HeartbeatClaim, UpdateTicket).
THEOREM ClosedForGoodCorrect == Spec => ClosedForGood
<1>1. TicketInv /\ [Next]_vars =>
        [~torn' => \A t \in Tickets : ticket[t] = "closed" => ticket'[t] = "closed"]_vars
  BY StepKeeps DEF Good
<1> QED
  BY <1>1, TicketInvariant, PTL DEF Spec, ClosedForGood
=============================================================================
