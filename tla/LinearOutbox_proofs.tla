------------------------ MODULE LinearOutbox_proofs ------------------------
(***************************************************************************)
(* What Linear shows, for any number of tickets, faults and releases.      *)
(*                                                                         *)
(* The argument for OneSubIssue: an issue of Linear is the one its ticket  *)
(* is mapped to, or the one that is about to be (Mapped1), as long as no   *)
(* mapping is overwritten; it is only by a loop that could not read it.    *)
(* For the other two: as long as no message fails, messages are sent in the order they   *)
(* were enqueued (InOrder); those of a ticket were enqueued in the order   *)
(* of its statuses (Ranked), so the last one sent is what is shown         *)
(* (Shown); and the message that closes a ticket is behind one message of  *)
(* every ticket (FirstPass), so that all sub-issues are there by then.     *)
(***************************************************************************)
EXTENDS LinearOutbox, TLAPS

USE OutboxAssumption

Rank(status) == CASE status = "open" -> 0 [] status = "in_progress" -> 1 [] status = "closed" -> 2

Busy == loop.pc \notin {"down", "idle"}
Taken(k) == row[k] # NoMessage /\ row[k] # Fresh
Completed(k) == row[k].status = "completed"

\* order lists the rows there are, each once.
Listed ==
  /\ \A i \in DOMAIN order : row[order[i]] # NoMessage
  /\ \A k \in Keys : row[k] # NoMessage => \E i \in DOMAIN order : order[i] = k
  /\ \A i, j \in DOMAIN order : order[i] = order[j] => i = j
  /\ \A k \in Keys : Taken(k) => row[k].attempts > 0 /\ row[k].status # "none"

\* The message in hand and the mappings it goes by.
InHand ==
  /\ Busy => Taken(loop.key)
  /\ loop.pc \in {"create", "map", "check", "close"} => Subject \in Tickets
  /\ loop.pc \in {"create", "map"} /\ "unread" \notin history => mapping[Subject] = 0
  /\ loop.pc = "map" => issue # <<>> /\ issue[Len(issue)] = [ticket |-> Subject, state |-> Wanted]
  /\ loop.pc \in {"update", "check", "close", "finish"} => Subject = 0 \/ mapping[Subject] # 0
  /\ \A t \in Tickets : mapping[t] # 0 => issue[mapping[t]].ticket = t
  /\ \A k \in Keys : Completed(k) /\ k[1] # 0 => mapping[k[1]] # 0

Mapped1 ==
  history \cap {"lost", "unread"} = {} =>
    \A i \in DOMAIN issue : mapping[issue[i].ticket] = i \/ (loop.pc = "map" /\ i = Len(issue))

InOrder ==
  "failed" \notin history =>
    /\ \A i, j \in DOMAIN order : i < j /\ Taken(order[j]) => Completed(order[i])
    /\ \A k \in Keys : Taken(k) => Completed(k) \/ (Busy /\ loop.key = k)
    /\ Busy => ~Completed(loop.key)

Ranked ==
  "again" \notin history =>
    /\ \A k \in Keys : row[k] # NoMessage /\ k[1] # 0 => Rank(k[2]) <= Rank(ticket[k[1]])
    /\ \A i, j \in DOMAIN order : i < j /\ order[i][1] = order[j][1] => Rank(order[i][2]) < Rank(order[j][2])

\* The last message that was sent of a ticket.
Last(k) == Completed(k) /\ \A l \in Keys : Taken(l) /\ l[1] = k[1] => Rank(l[2]) <= Rank(k[2])

Shown ==
  history \cap {"failed", "again"} = {} =>
    /\ loop.pc \in {"check", "close", "finish"} /\ Subject # 0 => issue[mapping[Subject]].state = Wanted
    /\ \A k \in Keys : k[1] # 0 /\ Last(k) => issue[mapping[k[1]]].state = StateFor(k[2])

\* What is closed in Linear is closed for good.
ClosedStays ==
  /\ \A k \in Keys : row[k] # NoMessage /\ k[2] = "closed" => ticket[k[1]] = "closed"
  /\ \A i \in DOMAIN issue : issue[i].state = "done" => Taken(<<issue[i].ticket, "closed">>)

FirstPass ==
  history \cap {"skipped", "late"} = {} =>
    \/ \A t \in Tickets : Unseen(t)
    \/ \A t \in Tickets : \E i \in DOMAIN order :
         order[i][1] = t /\ \A j \in DOMAIN order : order[j][2] = "closed" => i < j

AllClosed ==
  history \cap {"failed", "skipped", "late"} = {} =>
    (loop.pc = "close" \/ parent = "done" => \A t \in Tickets : ticket[t] = "closed")

OutboxInv ==
  /\ TypeOK /\ Listed /\ InHand /\ Mapped1 /\ InOrder /\ Ranked /\ Shown /\ ClosedStays /\ FirstPass /\ AllClosed

-----------------------------------------------------------------------------
(* Keys, rows and calls *)

Message(t, status) == <<t, status>>

LEMMA KeysAre ==
  /\ 0 \notin Tickets
  /\ EpicInWork \in Keys /\ EpicInWork[1] = 0 /\ EpicInWork[2] = "in_progress"
  /\ \A k \in Keys : k[1] \in Tickets \cup {0} /\ k[2] \in Status /\ (k[1] = 0 => k = EpicInWork)
  /\ \A k \in Keys : k[1] # 0 => k = <<k[1], k[2]>>
  /\ \A t \in Tickets, status \in Status :
       <<t, status>> \in Keys /\ <<t, status>>[1] = t /\ <<t, status>>[2] = status
<1>1. 0 \notin Tickets
  BY DEF Tickets
<1> QED
  BY <1>1 DEF Keys, EpicInWork, Status

LEMMA StatesAre ==
  /\ \A status \in Status : StateFor(status) \in IssueState /\ (StateFor(status) = "done" <=> status = "closed")
  /\ \A status \in Status : Rank(status) \in Nat
  /\ \A s, t \in Status : Rank(s) = Rank(t) => s = t
<1>1. \A status \in Status : StateFor(status) \in IssueState /\ (StateFor(status) = "done" <=> status = "closed")
  BY DEF StateFor, Status, IssueState
<1>2. Rank("open") = 0 /\ Rank("in_progress") = 1 /\ Rank("closed") = 2
  BY DEF Rank
<1> QED
  BY <1>1, <1>2 DEF Status

LEMMA RowsAre ==
  NoMessage \in MessageRow /\ Fresh \in MessageRow /\ NoMessage # Fresh /\ Fresh.status = "pending" /\ Fresh.attempts = 0
    /\ NoMessage.status = "none"
BY DEF NoMessage, Fresh, MessageRow, Waiting

\* What EnqueueOutbox does to a row.
LEMMA UpsertedRow ==
  ASSUME NEW r \in MessageRow, r \notin {NoMessage, Fresh} => r.attempts > 0 /\ r.status # "none"
  PROVE  /\ Upserted(r) \in MessageRow /\ Upserted(r) # NoMessage
         /\ r \in {NoMessage, Fresh} => Upserted(r) = Fresh
         /\ r \notin {NoMessage, Fresh} =>
              /\ Upserted(r) # Fresh /\ Upserted(r).attempts > 0 /\ Upserted(r).status # "none"
              /\ Upserted(r).status = "completed" <=> r.status = "completed"
<1>1. CASE r = NoMessage
  BY <1>1, RowsAre DEF Upserted
<1>2. CASE r = Fresh
  BY <1>2, RowsAre DEF Upserted, Fresh, NoMessage, MessageRow, Waiting
<1>3. CASE r \notin {NoMessage, Fresh} /\ r.status = "completed"
  BY <1>3, RowsAre DEF Upserted
<1>4. CASE r \notin {NoMessage, Fresh} /\ r.status # "completed"
  <2>1. Upserted(r) = [r EXCEPT !.status = "pending"]
    BY <1>4 DEF Upserted
  <2>2. Upserted(r) = [status |-> "pending", attempts |-> r.attempts]
    BY <2>1 DEF MessageRow
  <2> QED
    BY <1>4, <2>2 DEF MessageRow, Waiting, Fresh, NoMessage
<1> QED
  BY <1>1, <1>2, <1>3, <1>4

Issue == [ticket: Tickets, state: IssueState]

LEMMA SeqElement ==
  ASSUME NEW S, NEW q \in Seq(S), NEW i \in 1..Len(q)
  PROVE  q[i] \in S
OBVIOUS

LEMMA SeqConcat ==
  ASSUME NEW S, NEW p \in Seq(S), NEW q \in Seq(S)
  PROVE  /\ p \o q \in Seq(S) /\ Len(p \o q) = Len(p) + Len(q)
         /\ \A i \in 1..Len(p) : (p \o q)[i] = p[i]
         /\ \A i \in 1..Len(q) : (p \o q)[Len(p) + i] = q[i]
OBVIOUS

LEMMA IssueAt ==
  ASSUME TypeOK, NEW i \in DOMAIN issue
  PROVE  /\ issue[i] \in Issue /\ issue[i].ticket \in Tickets /\ issue[i].state \in IssueState
         /\ <<issue[i].ticket, "closed">> \in Keys
<1>1. issue \in Seq(Issue) /\ i \in 1..Len(issue)
  BY DEF TypeOK, Issue
<1>2. issue[i] \in Issue
  BY <1>1, SeqElement
<1> QED
  BY <1>2, KeysAre DEF Issue, Status

LEMMA IssueSet ==
  ASSUME NEW x \in Issue, NEW w
  PROVE  [x EXCEPT !.state = w] = [ticket |-> x.ticket, state |-> w]
BY DEF Issue

LEMMA UpdatesIssue ==
  ASSUME OutboxInv, loop.pc = "update", Updates
  PROVE  /\ issue' \in Seq(Issue) /\ Len(issue') = Len(issue) /\ DOMAIN issue' = DOMAIN issue
         /\ parent' \in IssueState /\ (parent' = parent \/ (Subject = 0 /\ parent' = "wip"))
         /\ \A i \in DOMAIN issue : issue'[i].ticket = issue[i].ticket
         /\ \A i \in DOMAIN issue : issue'[i] = issue[i] \/ (Subject # 0 /\ i = mapping[Subject])
         /\ Subject # 0 => issue'[mapping[Subject]].state = Wanted
<1> USE DEF OutboxInv, TypeOK
<1>1. loop.key \in Keys /\ Wanted \in IssueState /\ Subject \in Tickets \cup {0}
  BY KeysAre, StatesAre DEF Wanted, Subject, Loop
<1>2. CASE Subject = 0
  <2>1. Wanted = "wip"
    BY <1>1, <1>2, KeysAre DEF Wanted, Subject, StateFor
  <2> QED
    BY <1>1, <1>2, <2>1 DEF Updates, Issue
<1>3. CASE Subject # 0
  <2> DEFINE m == mapping[Subject]
  <2>1. m \in 1..Len(issue) /\ DOMAIN issue = 1..Len(issue)
    BY <1>1, <1>3 DEF InHand
  <2>2. issue' = [issue EXCEPT ![m].state = Wanted] /\ parent' = parent
    BY <1>3 DEF Updates
  <2>3. issue \in Seq(Issue)
    BY DEF Issue
  <2> HIDE DEF m
  <2>4. issue[m] \in Issue
    BY <2>1, <2>3, SeqElement
  <2>7. [ticket |-> issue[m].ticket, state |-> Wanted] \in Issue
    BY <1>1, <2>4 DEF Issue
  <2>8. issue' = [issue EXCEPT ![m] = [ticket |-> issue[m].ticket, state |-> Wanted]]
    <3>1. [issue[m] EXCEPT !.state = Wanted] = [ticket |-> issue[m].ticket, state |-> Wanted]
      BY <2>4, IssueSet
    <3>2. issue' = [issue EXCEPT ![m] = [issue[m] EXCEPT !.state = Wanted]]
      BY <2>2
    <3> QED
      BY <3>1, <3>2
  <2>5. issue' \in Seq(Issue) /\ Len(issue') = Len(issue) /\ DOMAIN issue' = DOMAIN issue
    BY <2>1, <2>3, <2>7, <2>8
  <2>6. \A i \in DOMAIN issue : issue'[i] = IF i = m THEN [ticket |-> issue[m].ticket, state |-> Wanted] ELSE issue[i]
    BY <2>1, <2>3, <2>8
  <2> QED
    BY <1>3, <2>1, <2>2, <2>5, <2>6 DEF m
<1> QED
  BY <1>2, <1>3

LEMMA CreatesIssue ==
  ASSUME OutboxInv, loop.pc = "create", Creates
  PROVE  /\ issue' \in Seq(Issue) /\ Len(issue') = Len(issue) + 1 /\ DOMAIN issue' = DOMAIN issue \cup {Len(issue) + 1}
         /\ \A i \in DOMAIN issue : issue'[i] = issue[i]
         /\ issue'[Len(issue) + 1] = [ticket |-> Subject, state |-> Wanted]
         /\ parent' = parent /\ issue' # <<>>
<1> USE DEF OutboxInv, TypeOK
<1>1. Subject \in Tickets /\ Wanted \in IssueState
  BY KeysAre, StatesAre DEF Wanted, Subject, Loop, InHand
<1>2. [ticket |-> Subject, state |-> Wanted] \in Issue /\ issue \in Seq(Issue)
  BY <1>1 DEF Issue
<1> QED
  BY <1>2 DEF Creates

-----------------------------------------------------------------------------
(* The run and the projection *)

LEMMA WorkKeeps ==
  ASSUME OutboxInv, NEW t \in Tickets, Work(t) \/ Release(t)
  PROVE  OutboxInv'
<1> USE DEF OutboxInv
<1>1. /\ UNCHANGED <<order, row, mapping, issue, parent, loop, faults>>
      /\ history' = history \/ (history' = history \cup {"again"} /\ "again" \in history')
      /\ ticket[t] # "closed" /\ \A u \in Tickets : u # t => ticket'[u] = ticket[u]
  BY DEF Work, Release, Note, TypeOK
<1>2. TypeOK'
  <2>1. ticket' \in [Tickets -> Status] /\ released' \in 0..Releases
    <3>1. CASE Work(t)
      BY <3>1 DEF Work, TypeOK, Status
    <3>2. CASE Release(t)
      BY <3>2 DEF Release, TypeOK, Status
    <3> QED
      BY <3>1, <3>2
  <2> QED
    BY <1>1, <2>1 DEF TypeOK
<1>3. Listed' /\ InOrder'
  BY <1>1 DEF Listed, InOrder, Taken, Completed, Busy
<1>4. InHand' /\ Mapped1'
  BY <1>1 DEF InHand, Mapped1, Taken, Completed, Busy, Subject, Wanted
<1>5. Ranked'
  <2> SUFFICES ASSUME "again" \notin history'
               PROVE  \A u \in Tickets : Rank(ticket[u]) <= Rank(ticket'[u])
    BY SMTT(60), <1>1, <1>2, KeysAre, StatesAre DEF Ranked, TypeOK
  <2>1. Work(t)
    BY DEF Release, Note
  <2>2. Rank("open") <= Rank("in_progress") /\ Rank("in_progress") <= Rank("closed")
    BY DEF Rank
  <2>3. Rank(ticket[t]) <= Rank(ticket'[t])
    BY <2>1, <2>2 DEF Work, TypeOK
  <2> QED
    BY <1>1, <2>3, StatesAre DEF TypeOK
<1>6. Shown'
  BY <1>1 DEF Shown, Last, Taken, Completed, Subject, Wanted
<1>7. ClosedStays' /\ AllClosed'
  BY <1>1, KeysAre DEF ClosedStays, AllClosed, Taken
<1>8. FirstPass'
  BY <1>1 DEF FirstPass, Unseen
<1> QED
  BY <1>2, <1>3, <1>4, <1>5, <1>6, <1>7, <1>8

\* What a pass does: rows are renewed, and the fresh ones are listed at the end.
SyncFacts(found, fresh) ==
  /\ found \subseteq Keys /\ \A k \in found : k[1] \in Tickets /\ k = <<k[1], ticket[k[1]]>>
  /\ fresh = {k \in found : row[k] = NoMessage}
  /\ row' \in [Keys -> MessageRow] /\ order' \in Seq(Keys)
  /\ \A k \in Keys : (Taken(k)' <=> Taken(k)) /\ (Completed(k)' <=> Completed(k))
  /\ \A k \in Keys : row'[k] # NoMessage <=> row[k] # NoMessage \/ k \in fresh
  /\ \A k \in Keys : Taken(k)' => row'[k].attempts > 0 /\ row'[k].status # "none"
  /\ Len(order) <= Len(order')
  /\ \A i \in 1..Len(order) : order'[i] = order[i]
  /\ \A i \in (Len(order) + 1)..Len(order') : order'[i] \in fresh
  /\ \A k \in fresh : \E i \in (Len(order) + 1)..Len(order') : order'[i] = k
  /\ \A i, j \in (Len(order) + 1)..Len(order') : i < j => order'[i][1] < order'[j][1]

LEMMA SyncMoves ==
  ASSUME OutboxInv, NEW skipped \in SUBSET Tickets, Sync(skipped)
  PROVE  LET found == {Pass[t] : t \in Tickets \ skipped}
             fresh == {k \in found : row[k] = NoMessage} IN
         SyncFacts(found, fresh)
<1> DEFINE found == {Pass[t] : t \in Tickets \ skipped}
           fresh == {k \in found : row[k] = NoMessage}
<1> USE DEF OutboxInv, TypeOK
<1>1. found \subseteq Keys /\ \A k \in found : k[1] \in Tickets /\ k = <<k[1], ticket[k[1]]>>
  BY KeysAre DEF Pass
<1>2. row' = [k \in Keys |-> IF k \in found THEN Upserted(row[k]) ELSE row[k]]
  BY DEF Sync
<1>3. PICK n \in 0..NumTickets : \E new \in [1..n -> fresh] :
        /\ \A k \in fresh : \E i \in DOMAIN new : new[i] = k
        /\ \A i, j \in DOMAIN new : i < j => new[i][1] < new[j][1]
        /\ order' = order \o new
  BY DEF Sync
<1>13. PICK new \in [1..n -> fresh] :
        /\ \A k \in fresh : \E i \in DOMAIN new : new[i] = k
        /\ \A i, j \in DOMAIN new : i < j => new[i][1] < new[j][1]
        /\ order' = order \o new
  BY <1>3
<1>4. fresh = {k \in found : row[k] = NoMessage}
  OBVIOUS
<1> HIDE DEF found, fresh
<1>5. \A k \in Keys : row[k] \in MessageRow /\ (row[k] \notin {NoMessage, Fresh} => row[k].attempts > 0 /\ row[k].status # "none")
  BY DEF Listed, Taken
<1>6. \A k \in Keys : row'[k] = row[k] \/ (k \in found /\ row'[k] = Upserted(row[k]))
  BY <1>2
<1>7. \A k \in Keys : /\ row'[k] \in MessageRow /\ (Taken(k)' <=> Taken(k)) /\ (Completed(k)' <=> Completed(k))
                      /\ row'[k] # NoMessage <=> row[k] # NoMessage \/ k \in fresh
                      /\ Taken(k)' => row'[k].attempts > 0 /\ row'[k].status # "none"
  <2> TAKE k \in Keys
  <2>1. CASE row'[k] = row[k]
    <3>1. k \notin fresh
      <4>1. ASSUME k \in fresh PROVE FALSE
        <5>1. row[k] = NoMessage /\ row'[k] = Upserted(row[k])
          BY <1>2, <1>4, <4>1
        <5> QED
          BY <1>5, <2>1, <5>1, UpsertedRow
      <4> QED
        BY <4>1
    <3>2. (Taken(k)' <=> Taken(k)) /\ (Completed(k)' <=> Completed(k))
      BY <2>1 DEF Taken, Completed
    <3>3. Taken(k) => row[k].attempts > 0 /\ row[k].status # "none"
      BY <1>5 DEF Taken
    <3> QED
      BY <1>5, <2>1, <3>1, <3>2, <3>3
  <2>2. CASE k \in found /\ row'[k] = Upserted(row[k])
    <3>1. CASE row[k] \in {NoMessage, Fresh}
      BY <1>4, <1>5, <2>2, <3>1, UpsertedRow, RowsAre DEF Taken, Completed
    <3>2. CASE row[k] \notin {NoMessage, Fresh}
      BY <1>4, <1>5, <2>2, <3>2, UpsertedRow DEF Taken, Completed
    <3> QED
      BY <3>1, <3>2
  <2> QED
    BY <1>6, <2>1, <2>2
<1>8. row' \in [Keys -> MessageRow]
  <2>1. row' = [k \in Keys |-> row'[k]]
    BY <1>2
  <2> QED
    BY <1>7, <2>1
<1>9. fresh \subseteq Keys
  BY <1>1, <1>4
<1>10. /\ order' \in Seq(Keys) /\ Len(order) <= Len(order')
       /\ \A i \in 1..Len(order) : order'[i] = order[i]
       /\ \A i \in (Len(order) + 1)..Len(order') : i - Len(order) \in DOMAIN new /\ order'[i] = new[i - Len(order)]
       /\ \A i \in DOMAIN new : i + Len(order) \in (Len(order) + 1)..Len(order') /\ order'[i + Len(order)] = new[i]
  <2>1. n \in Nat
    OBVIOUS
  <2>2. new \in Seq(Keys) /\ Len(new) = n /\ DOMAIN new = 1..n
    BY <1>13, <1>9, <2>1
  <2>3. order' \in Seq(Keys) /\ Len(order') = Len(order) + n
    <3>1. order \in Seq(Keys) /\ order' = order \o new
      BY <1>13
    <3> QED
      BY <2>2, <3>1, SeqConcat
  <2>4. \A i \in 1..Len(order) : order'[i] = order[i]
    BY <1>13, <2>1, <2>2
  <2>5. \A i \in DOMAIN new : i + Len(order) \in (Len(order) + 1)..Len(order') /\ order'[i + Len(order)] = new[i]
    BY <1>13, <2>1, <2>2, <2>3
  <2>6. \A i \in (Len(order) + 1)..Len(order') : i - Len(order) \in DOMAIN new /\ order'[i] = new[i - Len(order)]
    BY <1>13, <2>1, <2>2, <2>3
  <2> QED
    BY SMTT(60), <2>1, <2>3, <2>4, <2>5, <2>6
<1>11. /\ \A i \in (Len(order) + 1)..Len(order') : order'[i] \in fresh
       /\ \A k \in fresh : \E i \in (Len(order) + 1)..Len(order') : order'[i] = k
  BY ZenonT(60), <1>13, <1>10
<1>12. \A i, j \in (Len(order) + 1)..Len(order') : i < j => order'[i][1] < order'[j][1]
  <2> TAKE i, j \in (Len(order) + 1)..Len(order')
  <2> HAVE i < j
  <2>1. i - Len(order) < j - Len(order)
    OBVIOUS
  <2>2. i - Len(order) \in DOMAIN new /\ j - Len(order) \in DOMAIN new
    BY <1>10
  <2>3. new[i - Len(order)][1] < new[j - Len(order)][1]
    BY <1>13, <2>1, <2>2
  <2> QED
    BY <1>10, <2>3
<1> QED
  BY <1>1, <1>4, <1>7, <1>8, <1>10, <1>11, <1>12 DEF SyncFacts, found, fresh

LEMMA SyncKeeps ==
  ASSUME OutboxInv, NEW skipped \in SUBSET Tickets, Sync(skipped)
  PROVE  OutboxInv'
<1> DEFINE found == {Pass[t] : t \in Tickets \ skipped}
           fresh == {k \in found : row[k] = NoMessage}
<1>1. SyncFacts(found, fresh)
  BY SyncMoves
<1>2. /\ UNCHANGED <<ticket, mapping, issue, parent, loop, released>>
      /\ faults' \in 0..Faults /\ history \subseteq history' /\ history' \subseteq history \cup {"skipped", "late"}
      /\ "skipped" \notin history' => skipped = {}
      /\ "late" \notin history' => \A t \in Tickets : Unseen(t) => ticket[t] # "closed"
  BY DEF Sync, Note, When, Fault, OutboxInv, TypeOK
<1>3. \A t \in Tickets : t \notin skipped => <<t, ticket[t]>> \in found
  BY DEF Pass
<1>4. \A k \in fresh : k \in Keys /\ row[k] = NoMessage /\ k[1] \in Tickets /\ k[2] = ticket[k[1]]
  BY <1>1, KeysAre DEF SyncFacts
<1>5. DOMAIN order = 1..Len(order) /\ DOMAIN order' = 1..Len(order') /\ order \in Seq(Keys) /\ order' \in Seq(Keys)
      /\ Len(order) \in Nat /\ Len(order') \in Nat
  BY <1>1 DEF OutboxInv, TypeOK, SyncFacts
<1>6. \A i \in DOMAIN order' :
        \/ i \in DOMAIN order /\ order'[i] = order[i] /\ order[i] \in Keys /\ row[order[i]] # NoMessage
        \/ i > Len(order) /\ i \in (Len(order) + 1)..Len(order') /\ order'[i] \in fresh
  <2> TAKE i \in DOMAIN order'
  <2>1. CASE i <= Len(order)
    <3>1. i \in DOMAIN order /\ order'[i] = order[i]
      BY <1>1, <1>5, <2>1 DEF SyncFacts
    <3>2. order[i] \in Keys
      BY <1>5, <3>1, SeqElement
    <3> QED
      BY <3>1, <3>2 DEF OutboxInv, Listed
  <2>2. CASE ~(i <= Len(order))
    <3>1. i \in (Len(order) + 1)..Len(order')
      BY <1>5, <2>2
    <3> QED
      BY <1>1, <1>5, <3>1 DEF SyncFacts
  <2> QED
    BY <2>1, <2>2
<1>7. \A k \in Keys : (Taken(k)' <=> Taken(k)) /\ (Completed(k)' <=> Completed(k))
                    /\ (row'[k] # NoMessage <=> row[k] # NoMessage \/ k \in fresh)
  BY <1>1 DEF SyncFacts
<1>8. \A i \in DOMAIN order : i \in DOMAIN order'
  BY <1>1, <1>5 DEF SyncFacts
<1> HIDE DEF found, fresh
<1> USE DEF OutboxInv
<1>9. TypeOK'
  BY <1>1, <1>2 DEF TypeOK, SyncFacts
<1>10. Listed'
  <2>1. \A i \in DOMAIN order' : row'[order'[i]] # NoMessage
    BY <1>4, <1>6, <1>7
  <2>2. ASSUME NEW k \in Keys, row'[k] # NoMessage PROVE \E i \in DOMAIN order' : order'[i] = k
    <3>1. CASE row[k] # NoMessage
      <4>1. PICK i \in DOMAIN order : order[i] = k
        BY <3>1 DEF Listed
      <4> QED
        BY <1>1, <1>5, <1>8, <4>1 DEF SyncFacts
    <3>2. CASE k \in fresh
      <4>1. PICK i \in (Len(order) + 1)..Len(order') : order'[i] = k
        BY <1>1, <3>2 DEF SyncFacts
      <4> QED
        BY <1>5, <4>1
    <3> QED
      BY <1>7, <2>2, <3>1, <3>2
  <2>3. ASSUME NEW i \in DOMAIN order', NEW j \in DOMAIN order', order'[i] = order'[j] PROVE i = j
    <3>1. CASE i \in DOMAIN order /\ j \in DOMAIN order /\ order'[i] = order[i] /\ order'[j] = order[j]
      BY <2>3, <3>1 DEF Listed
    <3>2. CASE i \in (Len(order) + 1)..Len(order') /\ j \in (Len(order) + 1)..Len(order')
      <4>1. \A a, b \in (Len(order) + 1)..Len(order') : a < b => order'[a][1] < order'[b][1]
        BY <1>1 DEF SyncFacts
      <4>2. order'[i] \in fresh
        BY <1>1, <3>2 DEF SyncFacts
      <4>3. order'[i][1] \in Nat
        BY <1>4, <4>2 DEF Tickets
      <4>4. ~(i < j) /\ ~(j < i)
        BY <2>3, <3>2, <4>1, <4>3
      <4> QED
        BY <1>5, <3>2, <4>4
    <3> QED
      BY <1>4, <1>6, <2>3, <3>1, <3>2
  <2>4. \A k \in Keys : Taken(k)' => row'[k].attempts > 0 /\ row'[k].status # "none"
    BY <1>1 DEF SyncFacts
  <2> QED
    BY <2>1, <2>2, <2>3, <2>4 DEF Listed
<1>11. loop.key \in Keys
  BY DEF TypeOK, Loop
<1>12. InHand'
  BY <1>2, <1>7, <1>11 DEF InHand, Busy, Subject, Wanted
<1>13. Mapped1'
  BY <1>2 DEF Mapped1, Subject
<1>14. InOrder'
  <2> SUFFICES ASSUME "failed" \notin history'
               PROVE  /\ \A i, j \in DOMAIN order' : i < j /\ Taken(order[j])' => Completed(order[i])'
                      /\ \A k \in Keys : Taken(k) => Completed(k) \/ (Busy /\ loop.key = k)
                      /\ Busy => ~Completed(loop.key)
    BY <1>2, <1>7, <1>11 DEF InOrder, Busy, Taken, Completed
  <2>1. "failed" \notin history
    BY <1>2
  <2>2. ASSUME NEW i \in DOMAIN order', NEW j \in DOMAIN order', i < j, Taken(order[j])'
        PROVE  Completed(order[i])'
    <3>1. j \in DOMAIN order /\ order'[j] = order[j] /\ order[j] \in Keys
      BY <1>4, <1>6, <1>7, <2>2 DEF Taken
    <3>2. Taken(order[j])
      BY <1>7, <2>2, <3>1 DEF Taken
    <3>3. i \in DOMAIN order /\ order'[i] = order[i] /\ order[i] \in Keys
      BY <1>5, <1>6, <2>2, <3>1
    <3>4. Completed(order[i])
      BY <2>1, <2>2, <3>1, <3>2, <3>3 DEF InOrder
    <3> QED
      BY <1>7, <3>3, <3>4 DEF Completed
  <2> QED
    BY <2>1, <2>2 DEF InOrder
<1>15. Ranked'
  <2> SUFFICES ASSUME "again" \notin history'
               PROVE  /\ \A k \in Keys : row'[k] # NoMessage /\ k[1] # 0 => Rank(k[2]) <= Rank(ticket[k[1]])
                      /\ \A i, j \in DOMAIN order' :
                           i < j /\ order'[i][1] = order'[j][1] => Rank(order'[i][2]) < Rank(order'[j][2])
    BY <1>2 DEF Ranked
  <2>1. "again" \notin history
    BY <1>2
  <2>2. ASSUME NEW k \in Keys, row'[k] # NoMessage, k[1] # 0 PROVE Rank(k[2]) <= Rank(ticket[k[1]])
    <3>1. CASE row[k] # NoMessage
      BY <2>1, <2>2, <3>1 DEF Ranked
    <3>2. CASE k \in fresh
      BY <1>4, <3>2, KeysAre, StatesAre
    <3> QED
      BY <1>7, <2>2, <3>1, <3>2
  <2>3. ASSUME NEW i \in DOMAIN order', NEW j \in DOMAIN order', i < j, order'[i][1] = order'[j][1]
        PROVE  Rank(order'[i][2]) < Rank(order'[j][2])
    <3>1. CASE j \in DOMAIN order /\ order'[j] = order[j]
      <4>1. i \in DOMAIN order /\ order'[i] = order[i]
        BY <1>5, <1>6, <2>3, <3>1
      <4> QED
        BY <2>1, <2>3, <3>1, <4>1 DEF Ranked
    <3>2. CASE j \in (Len(order) + 1)..Len(order') /\ order'[j] \in fresh
      <4>1. CASE i \in (Len(order) + 1)..Len(order')
        <5>1. order'[i] \in fresh /\ order'[i][1] < order'[j][1]
          BY <1>1, <2>3, <3>2, <4>1 DEF SyncFacts
        <5>2. order'[i][1] \in Nat
          BY <1>4, <5>1 DEF Tickets
        <5> QED
          BY <2>3, <5>1, <5>2
      <4>2. CASE i \in DOMAIN order /\ order'[i] = order[i] /\ order[i] \in Keys /\ row[order[i]] # NoMessage
        <5> DEFINE t == order'[j][1]
        <5>1. t \in Tickets /\ order'[j] \in Keys /\ order'[j][2] = ticket[t] /\ row[order'[j]] = NoMessage
          BY <1>4, <3>2
        <5>2. order[i][1] = t /\ t # 0
          BY <2>3, <4>2, <5>1, KeysAre
        <5>3. Rank(order[i][2]) <= Rank(ticket[t])
          BY <2>1, <4>2, <5>2 DEF Ranked
        <5>4. order[i][2] # ticket[t]
          <6>1. order[i] = <<order[i][1], order[i][2]>> /\ order'[j] = <<order'[j][1], order'[j][2]>>
            BY <4>2, <5>1, <5>2, KeysAre
          <6> QED
            BY <4>2, <5>1, <5>2, <6>1
        <5>5. order[i][2] \in Status /\ ticket[t] \in Status
          BY <4>2, <5>1, KeysAre
        <5> QED
          BY <4>2, <5>1, <5>3, <5>4, <5>5, StatesAre
      <4> QED
        BY <1>6, <4>1, <4>2
    <3> QED
      BY <1>6, <3>1, <3>2
  <2> QED
    BY <2>2, <2>3
<1>16. Shown'
  <2>1. \A k \in Keys : Last(k)' => Last(k)
    BY <1>7 DEF Last
  <2> QED
    BY <1>2, <2>1 DEF Shown, Subject, Wanted
<1>17. ClosedStays'
  <2>1. \A k \in Keys : row'[k] # NoMessage /\ k[2] = "closed" => ticket[k[1]] = "closed"
    BY <1>4, <1>7 DEF ClosedStays
  <2>2. \A i \in DOMAIN issue : issue[i].state = "done" => Taken(<<issue[i].ticket, "closed">>)'
    <3> TAKE i \in DOMAIN issue
    <3> HAVE issue[i].state = "done"
    <3>2. <<issue[i].ticket, "closed">> \in Keys
      BY IssueAt
    <3>3. Taken(<<issue[i].ticket, "closed">>)
      BY DEF ClosedStays
    <3> QED
      BY <1>2, <1>7, <3>2, <3>3 DEF Taken
  <2> QED
    BY <1>2, <2>1, <2>2 DEF ClosedStays
<1>18. FirstPass'
  <2> SUFFICES ASSUME "skipped" \notin history', "late" \notin history'
               PROVE  \A t \in Tickets : \E i \in DOMAIN order' :
                        order'[i][1] = t /\ \A j \in DOMAIN order' : order'[j][2] = "closed" => i < j
    BY DEF FirstPass
  <2> TAKE t \in Tickets
  <2>1. history \cap {"skipped", "late"} = {}
    BY <1>2
  <2>2. CASE \A u \in Tickets : Unseen(u)
    <3>1. \A u \in Tickets, status \in Status : <<u, status>> \in Keys /\ row[<<u, status>>] = NoMessage
      BY ZenonT(60), <2>2, KeysAre DEF Unseen
    <3>2. ASSUME NEW j \in DOMAIN order' PROVE order'[j][2] # "closed"
      <4>1. CASE order'[j] \in fresh
        BY <1>2, <1>4, <2>2, <4>1
      <4>2. CASE j \in DOMAIN order /\ order'[j] = order[j] /\ order[j] \in Keys /\ row[order[j]] # NoMessage
        <5>1. order[j][1] = 0
          BY <3>1, <4>2, KeysAre
        <5> QED
          BY <4>2, <5>1, KeysAre
      <4> QED
        BY <1>6, <4>1, <4>2
    <3>3. <<t, ticket[t]>> \in fresh
      <4>1. ticket[t] \in Status /\ <<t, ticket[t]>> \in found
        BY <1>2, <1>3 DEF TypeOK
      <4> QED
        BY <1>1, <3>1, <4>1 DEF SyncFacts
    <3>4. PICK i \in (Len(order) + 1)..Len(order') : order'[i] = <<t, ticket[t]>>
      BY <1>1, <3>3 DEF SyncFacts
    <3> QED
      BY <1>5, <3>2, <3>4
  <2>3. CASE ~\A u \in Tickets : Unseen(u)
    <3>1. PICK i \in DOMAIN order : order[i][1] = t /\ \A j \in DOMAIN order : order[j][2] = "closed" => i < j
      BY <2>1, <2>3 DEF FirstPass
    <3>2. i \in DOMAIN order' /\ order'[i] = order[i]
      BY <1>1, <1>5, <1>8 DEF SyncFacts
    <3>3. \A j \in DOMAIN order' : order'[j][2] = "closed" => i < j
      BY <1>5, <1>6, <3>1
    <3> QED
      BY <3>1, <3>2, <3>3
  <2> QED
    BY <2>2, <2>3
<1>19. AllClosed'
  BY <1>2 DEF AllClosed
<1> QED
  BY <1>9, <1>10, <1>12, <1>13, <1>14, <1>15, <1>16, <1>17, <1>18, <1>19

-----------------------------------------------------------------------------
(* The outbox loop *)

LEMMA ClaimKeeps ==
  ASSUME OutboxInv, NEW i \in DOMAIN order, Claim(i)
  PROVE  OutboxInv'
<1> USE DEF OutboxInv
<1> DEFINE k == order[i]
           pc == loop'.pc
           n == row[k].attempts + 1
           r == [status |-> "running", attempts |-> n]
<1>1. k \in Keys /\ row[k] \in MessageRow
  BY SeqElement DEF TypeOK
<1>2. /\ loop.pc = "idle" /\ row[k].status \in Waiting \cup {"running"} /\ OldestFirst(i)
      /\ row' = [row EXCEPT ![k] = r]
      /\ UNCHANGED <<ticket, order, mapping, issue, parent, released>>
      /\ history \subseteq history' /\ history' \subseteq history \cup {"unread"}
  BY DEF Claim, Orphan, Note
<1>3. n \in Nat /\ n > 0 /\ r \in MessageRow
  BY <1>1 DEF MessageRow
<1>22. /\ loop' = [pc |-> pc, key |-> k, attempts |-> n] /\ pc \in {"update", "create"} /\ faults' \in 0..Faults
       /\ pc = "create" => k[1] \in Tickets /\ (mapping[k[1]] = 0 \/ "unread" \in history')
       /\ pc = "update" => k[1] = 0 \/ mapping[k[1]] # 0
  <2>1. CASE Takes(k, IF IsMapped(k[1]) THEN "update" ELSE "create") /\ UNCHANGED <<faults, history>>
    <3>1. CASE IsMapped(k[1])
      BY <2>1, <3>1 DEF Takes, IsMapped, TypeOK
    <3>2. CASE ~IsMapped(k[1])
      BY <1>1, <2>1, <3>2, KeysAre DEF Takes, IsMapped, TypeOK
    <3> QED
      BY <3>1, <3>2
  <2>2. CASE k[1] # 0 /\ Takes(k, "create") /\ Fault /\ Note({"unread"})
    BY <1>1, <2>2, KeysAre DEF Takes, Fault, Note, TypeOK
  <2> QED
    BY <2>1, <2>2 DEF Claim
<1>5. row[k] # NoMessage /\ ~Completed(k)
  BY <1>2, RowsAre DEF Waiting, Completed
<1>6. r # NoMessage /\ r # Fresh /\ r.status = "running" /\ r.attempts > 0
  BY <1>3 DEF NoMessage, Fresh
<1> HIDE DEF k, pc, n, r
<1>7. row' \in [Keys -> MessageRow] /\ row'[k] = r /\ \A l \in Keys : l # k => row'[l] = row[l]
  BY <1>1, <1>2, <1>3 DEF TypeOK
<1>8. /\ \A l \in Keys : Taken(l)' <=> (Taken(l) \/ l = k)
      /\ \A l \in Keys : Completed(l)' <=> Completed(l)
      /\ \A l \in Keys : row'[l] # NoMessage <=> row[l] # NoMessage
  BY <1>1, <1>5, <1>6, <1>7 DEF Taken, Completed
<1>9. loop' \in Loop /\ loop'.pc = pc /\ loop'.key = k
  BY <1>1, <1>3, <1>22 DEF Loop
<1>10. TypeOK'
  BY <1>2, <1>7, <1>9, <1>22 DEF TypeOK
<1>11. \A j \in DOMAIN order : order[j] \in Keys
  BY SeqElement DEF TypeOK
<1>12. Listed'
  <2>1. \A l \in Keys : Taken(l)' => row'[l].attempts > 0 /\ row'[l].status # "none"
    BY <1>6, <1>7, <1>8 DEF Listed
  <2> QED
    BY <1>2, <1>8, <1>11, <2>1 DEF Listed
<1>13. InHand'
  BY <1>1, <1>2, <1>8, <1>9, <1>22 DEF InHand, Subject, Busy
<1>14. Mapped1'
  BY <1>2, <1>9, <1>22 DEF Mapped1
<1>15. ASSUME "failed" \notin history
       PROVE  row[k] = Fresh /\ \A l \in Keys : Taken(l) => Completed(l)
  BY <1>1, <1>2, <1>5, <1>15 DEF InOrder, Busy, Taken
<1>16. InOrder'
  <2> SUFFICES ASSUME "failed" \notin history
               PROVE  /\ \A a, b \in DOMAIN order : a < b /\ (Taken(order[b]) \/ order[b] = k) => Completed(order[a])
                      /\ \A l \in Keys : Taken(l) \/ l = k => Completed(l) \/ l = k
                      /\ ~Completed(k)
    BY <1>1, <1>2, <1>8, <1>9, <1>11, <1>22 DEF InOrder, Busy
  <2>1. ASSUME NEW a \in DOMAIN order, NEW b \in DOMAIN order, a < b, order[b] = k PROVE Completed(order[a])
    <3>1. b = i
      BY <2>1 DEF Listed, k
    <3>2. a \in 1..(i - 1)
      BY <2>1, <3>1 DEF TypeOK
    <3>3. row[order[a]] # Fresh /\ row[order[a]] # NoMessage
      BY <1>2, <2>1, <3>2 DEF OldestFirst, Listed
    <3> QED
      BY <1>11, <1>15, <2>1, <3>3 DEF Taken
  <2> QED
    BY <1>5, <1>15, <2>1 DEF InOrder
<1>17. Ranked'
  BY <1>2, <1>8 DEF Ranked
<1>18. Shown'
  <2>1. ASSUME "failed" \notin history, NEW l \in Keys, Last(l)' PROVE Last(l)
    BY <1>8, <2>1 DEF Last
  <2> QED
    BY <1>2, <1>9, <1>22, <2>1 DEF Shown
<1>19. ClosedStays'
  <2>1. \A j \in DOMAIN issue : issue[j].state = "done" => <<issue[j].ticket, "closed">> \in Keys
    BY IssueAt
  <2>2. \A j \in DOMAIN issue : issue[j].state = "done" => Taken(<<issue[j].ticket, "closed">>)'
    BY <1>2, <1>8, <2>1 DEF ClosedStays, Taken
  <2> QED
    BY <1>2, <1>8, <2>2 DEF ClosedStays
<1>20. FirstPass'
  <2>1. \A t \in Tickets : Unseen(t)' <=> Unseen(t)
    BY <1>2, <1>8, KeysAre DEF Unseen
  <2> QED
    BY <1>2, <2>1 DEF FirstPass
<1>21. AllClosed'
  BY <1>2, <1>9, <1>22 DEF AllClosed
<1> QED
  BY <1>10, <1>12, <1>13, <1>14, <1>16, <1>17, <1>18, <1>19, <1>20, <1>21

LEMMA ProceedsTo ==
  ASSUME TypeOK, NEW pc \in {"down", "idle", "update", "create", "map", "check", "close", "finish"}, Proceeds(pc)
  PROVE  loop' \in Loop /\ loop'.pc = pc /\ loop'.key = loop.key
BY DEF TypeOK, Proceeds, Loop

\* What does not change while the loop only goes on.
LEMMA SameRows ==
  ASSUME OutboxInv, UNCHANGED <<ticket, order, row>>, history \subseteq history'
  PROVE  Listed' /\ Ranked' /\ FirstPass'
<1>1. Listed' /\ Ranked'
  BY DEF OutboxInv, Listed, Ranked, Taken
<1>2. FirstPass'
  BY DEF OutboxInv, FirstPass, Unseen
<1> QED
  BY <1>1, <1>2

\* A message that is in hand is behind all that were sent of its ticket.
LEMMA InHandIsLast ==
  ASSUME OutboxInv, Busy, history \cap {"failed", "again"} = {}, NEW k \in Keys, k[1] = Subject, Last(k)
  PROVE  FALSE
<1> USE DEF OutboxInv
<1>1. loop.key \in Keys /\ Taken(loop.key) /\ ~Completed(loop.key) /\ Completed(k)
  BY DEF TypeOK, Loop, InHand, InOrder, Last
<1>2. Taken(k)
  BY <1>1, RowsAre DEF Completed, Taken
<1>3. PICK a \in DOMAIN order : order[a] = k
  BY <1>2 DEF Listed, Taken
<1>4. PICK b \in DOMAIN order : order[b] = loop.key
  BY <1>1 DEF Listed, Taken
<1>5. a < b
  <2>1. a # b /\ ~(b < a)
    BY <1>1, <1>2, <1>3, <1>4 DEF InOrder
  <2> QED
    BY <2>1 DEF TypeOK
<1>6. Rank(k[2]) < Rank(loop.key[2])
  BY <1>3, <1>4, <1>5 DEF Ranked, Subject
<1>7. Rank(loop.key[2]) <= Rank(k[2])
  BY <1>1 DEF Last, Subject
<1>8. Rank(k[2]) \in Nat /\ Rank(loop.key[2]) \in Nat
  BY <1>1, KeysAre, StatesAre
<1> QED
  BY <1>6, <1>7, <1>8

\* The message in hand that asks for 'done' is the one that closes its ticket.
LEMMA DoneIsClosed ==
  ASSUME OutboxInv, Busy, Subject # 0, Wanted = "done"
  PROVE  Taken(<<Subject, "closed">>)
<1>1. loop.key \in Keys /\ Taken(loop.key)
  BY DEF OutboxInv, TypeOK, Loop, InHand
<1>2. loop.key = <<Subject, "closed">>
  BY <1>1, KeysAre, StatesAre DEF Subject, Wanted
<1> QED
  BY <1>1, <1>2
LEMMA UpdateKeeps ==
  ASSUME OutboxInv, Update
  PROVE  OutboxInv'
<1> USE DEF OutboxInv
<1>1. /\ loop.pc = "update" /\ Busy /\ Updates /\ Proceeds(AfterUpdate)
      /\ AfterUpdate \in {"check", "finish"} /\ (AfterUpdate = "check" <=> Subject # 0)
      /\ UNCHANGED <<ticket, order, row, mapping, released, faults, history>>
  BY DEF Update, AfterUpdate, Busy
<1>2. loop' \in Loop /\ loop'.pc = AfterUpdate /\ loop'.key = loop.key
  BY <1>1, ProceedsTo
<1>3. /\ issue' \in Seq(Issue) /\ Len(issue') = Len(issue) /\ DOMAIN issue' = DOMAIN issue
      /\ parent' \in IssueState /\ (parent' = parent \/ (Subject = 0 /\ parent' = "wip"))
      /\ \A i \in DOMAIN issue : issue'[i].ticket = issue[i].ticket
      /\ \A i \in DOMAIN issue : issue'[i] = issue[i] \/ (Subject # 0 /\ i = mapping[Subject])
      /\ Subject # 0 => issue'[mapping[Subject]].state = Wanted
  BY <1>1, UpdatesIssue
<1>4. Subject' = Subject /\ Wanted' = Wanted /\ Subject \in Tickets \cup {0}
  BY <1>2, KeysAre DEF Subject, Wanted, TypeOK, Loop
<1>5. \A t \in Tickets : mapping[t] # 0 => mapping[t] \in DOMAIN issue /\ issue[mapping[t]].ticket = t
  BY DEF TypeOK, InHand
<1>6. TypeOK'
  BY <1>1, <1>2, <1>3 DEF TypeOK, Issue
<1>7. Listed' /\ Ranked' /\ FirstPass'
  BY <1>1, SameRows
<1>8. InHand'
  <2>1. \A t \in Tickets : mapping'[t] # 0 => issue'[mapping'[t]].ticket = t
    BY <1>1, <1>3, <1>5
  <2> QED
    BY <1>1, <1>2, <1>4, <2>1 DEF InHand, Busy, Taken, Completed
<1>9. Mapped1'
  BY <1>1, <1>2, <1>3 DEF Mapped1
<1>10. InOrder'
  BY <1>1, <1>2 DEF InOrder, Busy, Taken, Completed
<1>11. Shown'
  <2> SUFFICES ASSUME history \cap {"failed", "again"} = {}
               PROVE  \A k \in Keys : k[1] # 0 /\ Last(k) => issue'[mapping[k[1]]].state = StateFor(k[2])
    BY <1>1, <1>3, <1>4 DEF Shown, Last, Taken, Completed
  <2> TAKE k \in Keys
  <2> HAVE k[1] # 0 /\ Last(k)
  <2>1. k[1] # Subject
    BY <1>1, InHandIsLast
  <2>2. k[1] \in Tickets /\ mapping[k[1]] # 0
    BY KeysAre DEF Last, InHand
  <2>3. Subject # 0 => mapping[Subject] # mapping[k[1]]
    BY <1>1, <1>4, <1>5, <2>1, <2>2 DEF InHand
  <2>4. issue'[mapping[k[1]]] = issue[mapping[k[1]]]
    BY <1>3, <1>5, <2>2, <2>3
  <2> QED
    BY <2>4 DEF Shown
<1>12. ClosedStays'
  <2> SUFFICES ASSUME NEW i \in DOMAIN issue, issue'[i].state = "done"
               PROVE  Taken(<<issue[i].ticket, "closed">>)
    BY <1>1, <1>3 DEF ClosedStays, Taken
  <2>1. CASE issue'[i] = issue[i]
    BY <2>1 DEF ClosedStays
  <2>2. CASE Subject # 0 /\ i = mapping[Subject]
    <3>1. Wanted = "done" /\ issue[i].ticket = Subject
      BY <1>3, <1>4, <1>5, <2>2
    <3> QED
      BY <1>1, <2>2, <3>1, DoneIsClosed
  <2> QED
    BY <1>3, <2>1, <2>2
<1>13. AllClosed'
  BY <1>1, <1>2, <1>3 DEF AllClosed
<1> QED
  BY <1>6, <1>7, <1>8, <1>9, <1>10, <1>11, <1>12, <1>13

LEMMA CreateSubIssueKeeps ==
  ASSUME OutboxInv, CreateSubIssue
  PROVE  OutboxInv'
<1> USE DEF OutboxInv
<1>1. /\ loop.pc = "create" /\ Busy /\ Creates /\ Proceeds("map")
      /\ UNCHANGED <<ticket, order, row, mapping, released, faults, history>>
  BY DEF CreateSubIssue, Busy
<1>2. loop' \in Loop /\ loop'.pc = "map" /\ loop'.key = loop.key
  BY <1>1, ProceedsTo
<1>3. /\ issue' \in Seq(Issue) /\ Len(issue') = Len(issue) + 1 /\ DOMAIN issue' = DOMAIN issue \cup {Len(issue) + 1}
      /\ \A i \in DOMAIN issue : issue'[i] = issue[i]
      /\ issue'[Len(issue) + 1] = [ticket |-> Subject, state |-> Wanted]
      /\ parent' = parent /\ issue' # <<>>
  BY <1>1, CreatesIssue
<1>4. /\ Subject' = Subject /\ Wanted' = Wanted /\ Subject \in Tickets
      /\ "unread" \notin history => mapping[Subject] = 0
  BY <1>1, <1>2 DEF Subject, Wanted, InHand
<1>5. \A t \in Tickets : mapping[t] # 0 => mapping[t] \in DOMAIN issue /\ issue[mapping[t]].ticket = t
  BY DEF TypeOK, InHand
<1>6. TypeOK'
  <2>1. mapping' \in [Tickets -> 0..Len(issue')]
    BY <1>1, <1>3 DEF TypeOK
  <2> QED
    BY <1>1, <1>2, <1>3, <2>1 DEF TypeOK, Issue
<1>7. Listed' /\ Ranked' /\ FirstPass'
  BY <1>1, SameRows
<1>8. InHand'
  <2>1. \A t \in Tickets : mapping'[t] # 0 => issue'[mapping'[t]].ticket = t
    BY <1>1, <1>3, <1>5
  <2> QED
    BY <1>1, <1>2, <1>3, <1>4, <2>1 DEF InHand, Busy, Taken, Completed
<1>9. Mapped1'
  BY <1>1, <1>2, <1>3 DEF Mapped1
<1>10. InOrder'
  BY <1>1, <1>2 DEF InOrder, Busy, Taken, Completed
<1>11. Shown'
  <2> SUFFICES ASSUME history \cap {"failed", "again"} = {}
               PROVE  \A k \in Keys : k[1] # 0 /\ Last(k) => issue'[mapping[k[1]]].state = StateFor(k[2])
    BY <1>1, <1>2 DEF Shown, Last, Taken, Completed
  <2> TAKE k \in Keys
  <2> HAVE k[1] # 0 /\ Last(k)
  <2>1. k[1] \in Tickets /\ mapping[k[1]] # 0
    BY KeysAre DEF Last, InHand
  <2>2. issue'[mapping[k[1]]] = issue[mapping[k[1]]]
    BY <1>3, <1>5, <2>1
  <2> QED
    BY <2>2 DEF Shown
<1>12. ClosedStays'
  <2> SUFFICES ASSUME NEW i \in DOMAIN issue', issue'[i].state = "done"
               PROVE  Taken(<<issue'[i].ticket, "closed">>)
    BY <1>1 DEF ClosedStays, Taken
  <2>1. CASE i \in DOMAIN issue
    BY <1>3, <2>1 DEF ClosedStays
  <2>2. CASE i = Len(issue) + 1
    <3>1. Wanted = "done" /\ issue'[i].ticket = Subject /\ Subject # 0
      BY <1>3, <1>4, <2>2, KeysAre
    <3> QED
      BY <1>1, <3>1, DoneIsClosed
  <2> QED
    BY <1>3, <2>1, <2>2
<1>13. AllClosed'
  BY <1>1, <1>2, <1>3 DEF AllClosed
<1> QED
  BY <1>6, <1>7, <1>8, <1>9, <1>10, <1>11, <1>12, <1>13

LEMMA MapKeeps ==
  ASSUME OutboxInv, Map
  PROVE  OutboxInv'
<1> USE DEF OutboxInv
<1>1. /\ loop.pc = "map" /\ Busy /\ mapping' = [mapping EXCEPT ![Subject] = Len(issue)] /\ Proceeds("check")
      /\ UNCHANGED <<ticket, order, row, issue, parent, released, faults, history>>
  BY DEF Map, Mapped, Busy
<1>2. loop' \in Loop /\ loop'.pc = "check" /\ loop'.key = loop.key
  BY <1>1, ProceedsTo
<1>3. /\ Subject \in Tickets /\ ("unread" \notin history => mapping[Subject] = 0)
      /\ issue # <<>> /\ issue[Len(issue)] = [ticket |-> Subject, state |-> Wanted]
      /\ Subject' = Subject /\ Wanted' = Wanted
  BY <1>1, <1>2 DEF Subject, Wanted, InHand
<1>4. Len(issue) \in DOMAIN issue /\ Len(issue) # 0 /\ Len(issue) \in Nat /\ DOMAIN issue = 1..Len(issue)
  BY <1>3 DEF TypeOK
<1>5. /\ mapping'[Subject] = Len(issue) /\ \A t \in Tickets : t # Subject => mapping'[t] = mapping[t]
      /\ mapping' \in [Tickets -> 0..Len(issue)]
  BY <1>1, <1>3, <1>4 DEF TypeOK
<1>6. TypeOK'
  BY <1>1, <1>2, <1>5 DEF TypeOK
<1>7. Listed' /\ Ranked' /\ FirstPass'
  BY <1>1, SameRows
<1>8. InHand'
  <2>1. \A t \in Tickets : mapping'[t] # 0 => issue'[mapping'[t]].ticket = t
    BY <1>1, <1>3, <1>5 DEF InHand
  <2>2. \A k \in Keys : Completed(k)' /\ k[1] # 0 => mapping'[k[1]] # 0
    <3> TAKE k \in Keys
    <3> HAVE Completed(k)' /\ k[1] # 0
    <3>1. k[1] \in Tickets /\ mapping[k[1]] # 0
      BY <1>1, KeysAre DEF InHand, Completed
    <3> QED
      BY <1>4, <1>5, <3>1
  <2> QED
    BY <1>1, <1>2, <1>3, <1>4, <1>5, <2>1, <2>2 DEF InHand, Busy, Taken
<1>9. Mapped1'
  <2> SUFFICES ASSUME history \cap {"lost", "unread"} = {}, NEW i \in DOMAIN issue
               PROVE  mapping'[issue[i].ticket] = i
    BY <1>1 DEF Mapped1
  <2>1. issue[i].ticket \in Tickets
    BY IssueAt
  <2>2. CASE i = Len(issue)
    BY <1>3, <1>5, <2>2
  <2>3. CASE i # Len(issue)
    <3>1. mapping[issue[i].ticket] = i /\ i # 0
      BY <1>4, <2>3 DEF Mapped1
    <3> QED
      BY <1>3, <1>5, <2>1, <3>1
  <2> QED
    BY <2>2, <2>3
<1>10. InOrder'
  BY <1>1, <1>2 DEF InOrder, Busy, Taken, Completed
<1>11. Shown'
  <2> SUFFICES ASSUME history \cap {"failed", "again"} = {}
               PROVE  /\ issue[mapping'[Subject]].state = Wanted
                      /\ \A k \in Keys : k[1] # 0 /\ Last(k) => issue[mapping'[k[1]]].state = StateFor(k[2])
    BY <1>1, <1>3 DEF Shown, Last, Taken, Completed
  <2>1. \A k \in Keys : k[1] # 0 /\ Last(k) => k[1] \in Tickets /\ mapping[k[1]] # 0
    BY KeysAre DEF Last, InHand
  <2>2. \A k \in Keys : k[1] # 0 /\ Last(k) => mapping'[k[1]] = mapping[k[1]]
    BY <1>1, <1>5, <2>1, InHandIsLast
  <2> QED
    BY <1>3, <1>5, <2>2 DEF Shown
<1>12. ClosedStays'
  BY <1>1 DEF ClosedStays, Taken
<1>13. AllClosed'
  BY <1>1, <1>2 DEF AllClosed
<1> QED
  BY <1>6, <1>7, <1>8, <1>9, <1>10, <1>11, <1>12, <1>13

LEMMA CheckKeeps ==
  ASSUME OutboxInv, Check
  PROVE  OutboxInv'
<1> USE DEF OutboxInv
<1> DEFINE pc == IF ChildrenDone /\ parent # "done" THEN "close" ELSE "finish"
<1>1. /\ loop.pc = "check" /\ Busy /\ Proceeds(pc) /\ pc \in {"close", "finish"} /\ (pc = "close" => ChildrenDone)
      /\ UNCHANGED <<ticket, order, row, mapping, issue, parent, released, faults, history>>
  BY DEF Check, Busy
<1> HIDE DEF pc
<1>2. loop' \in Loop /\ loop'.pc = pc /\ loop'.key = loop.key
  BY <1>1, ProceedsTo
<1>3. TypeOK'
  BY <1>1, <1>2 DEF TypeOK
<1>4. Listed' /\ Ranked' /\ FirstPass'
  BY <1>1, SameRows
<1>5. InHand' /\ Mapped1' /\ InOrder'
  BY <1>1, <1>2 DEF InHand, Mapped1, InOrder, Busy, Taken, Completed, Subject, Wanted
<1>6. Shown' /\ ClosedStays'
  BY <1>1, <1>2 DEF Shown, ClosedStays, Last, Taken, Completed, Subject, Wanted
<1>7. AllClosed'
  <2> SUFFICES ASSUME history \cap {"failed", "skipped", "late"} = {}, ChildrenDone, NEW u \in Tickets
               PROVE  ticket[u] = "closed"
    BY <1>1, <1>2 DEF AllClosed
  <2>1. ASSUME NEW t \in Tickets, mapping[t] # 0 PROVE Taken(<<t, "closed">>)
    <3>1. mapping[t] \in DOMAIN issue /\ issue[mapping[t]].ticket = t
      BY <2>1 DEF InHand, TypeOK
    <3> QED
      BY <3>1 DEF ChildrenDone, ClosedStays
  <2>2. \A t \in Tickets : <<t, "closed">> \in Keys /\ <<t, "closed">>[1] = t /\ <<t, "closed">>[2] = "closed"
    BY KeysAre DEF Status
  <2>3. Subject \in Tickets /\ mapping[Subject] # 0 /\ Taken(<<Subject, "closed">>)
    BY <1>1, <2>1, KeysAre DEF InHand
  <2>4. PICK j \in DOMAIN order : order[j] = <<Subject, "closed">>
    BY <2>2, <2>3 DEF Listed, Taken
  <2>5. ~\A t \in Tickets : Unseen(t)
    BY <2>3 DEF Unseen, Taken, Status
  <2>6. PICK i \in DOMAIN order : order[i][1] = u /\ \A l \in DOMAIN order : order[l][2] = "closed" => i < l
    BY <2>5 DEF FirstPass
  <2>7. Completed(order[i])
    BY <2>2, <2>3, <2>4, <2>6 DEF InOrder
  <2>8. order[i] \in Keys
    BY SeqElement DEF TypeOK
  <2>9. Taken(<<u, "closed">>)
    BY <2>1, <2>6, <2>7, <2>8, KeysAre DEF InHand
  <2> QED
    BY <2>2, <2>9 DEF ClosedStays, Taken
<1> QED
  BY <1>3, <1>4, <1>5, <1>6, <1>7

LEMMA CloseParentKeeps ==
  ASSUME OutboxInv, CloseParent
  PROVE  OutboxInv'
<1> USE DEF OutboxInv
<1>1. /\ loop.pc = "close" /\ parent' = "done" /\ Proceeds("finish")
      /\ UNCHANGED <<ticket, order, row, mapping, issue, released, faults, history>>
  BY DEF CloseParent, Closes
<1>2. loop' \in Loop /\ loop'.pc = "finish" /\ loop'.key = loop.key
  BY <1>1, ProceedsTo
<1>3. TypeOK'
  BY <1>1, <1>2 DEF TypeOK, IssueState
<1>4. Listed' /\ Ranked' /\ FirstPass'
  BY <1>1, SameRows
<1>5. InHand' /\ Mapped1' /\ InOrder'
  BY <1>1, <1>2 DEF InHand, Mapped1, InOrder, Busy, Taken, Completed, Subject, Wanted
<1>6. Shown' /\ ClosedStays' /\ AllClosed'
  BY <1>1, <1>2 DEF Shown, ClosedStays, AllClosed, Last, Taken, Completed, Subject, Wanted
<1> QED
  BY <1>3, <1>4, <1>5, <1>6

-----------------------------------------------------------------------------
(* The end of a message, and of the process *)

\* A message that is marked with its outcome.
LEMMA MarkedRow ==
  ASSUME OutboxInv, Busy, NEW outcome \in {"completed", "failed", "retry"},
         row' = [row EXCEPT ![loop.key].status = outcome]
  PROVE  /\ row' \in [Keys -> MessageRow] /\ loop.key \in Keys
         /\ row'[loop.key].status = outcome /\ \A k \in Keys : k # loop.key => row'[k] = row[k]
         /\ \A k \in Keys : /\ Taken(k)' <=> Taken(k)
                            /\ row'[k] # NoMessage <=> row[k] # NoMessage
                            /\ Taken(k)' => row'[k].attempts > 0 /\ row'[k].status # "none"
<1> USE DEF OutboxInv
<1> DEFINE key == loop.key
           n == row[key].attempts
           r == [status |-> outcome, attempts |-> n]
<1>1. key \in Keys /\ Taken(key) /\ row[key] \in MessageRow
  BY DEF TypeOK, Loop, InHand
<1>2. n \in Nat /\ n > 0
  BY <1>1 DEF Listed, MessageRow
<1>3. r \in MessageRow /\ r.status = outcome /\ r.attempts = n
  BY <1>2 DEF MessageRow, Waiting
<1>4. r # NoMessage /\ r # Fresh /\ r.status # "none"
  BY <1>2, <1>3, RowsAre
<1>5. [row[key] EXCEPT !.status = outcome] = r
  BY <1>1 DEF MessageRow
<1>6. row' = [row EXCEPT ![key] = r]
  BY <1>5
<1> HIDE DEF key, n, r
<1>7. row' \in [Keys -> MessageRow] /\ row'[key] = r /\ \A k \in Keys : k # key => row'[k] = row[k]
  BY <1>1, <1>3, <1>6 DEF TypeOK
<1>8. ASSUME NEW k \in Keys
      PROVE  /\ Taken(k)' <=> Taken(k)
             /\ row'[k] # NoMessage <=> row[k] # NoMessage
             /\ Taken(k)' => row'[k].attempts > 0 /\ row'[k].status # "none"
  <2>1. CASE k = key
    BY <1>1, <1>2, <1>3, <1>4, <1>7, <2>1 DEF Taken
  <2>2. CASE k # key
    BY <1>7, <2>2 DEF Taken, Listed
  <2> QED
    BY <2>1, <2>2
<1> QED
  BY <1>1, <1>3, <1>7, <1>8 DEF key

\* What holds of rows that were marked.
LEMMA RowsKept ==
  ASSUME OutboxInv, UNCHANGED <<ticket, order>>, history \subseteq history',
         \A k \in Keys : /\ Taken(k)' <=> Taken(k)
                         /\ row'[k] # NoMessage <=> row[k] # NoMessage
                         /\ Taken(k)' => row'[k].attempts > 0 /\ row'[k].status # "none"
  PROVE  /\ Listed' /\ Ranked' /\ FirstPass'
         /\ \A k \in Keys : row'[k] # NoMessage /\ k[2] = "closed" => ticket'[k[1]] = "closed"
<1> USE DEF OutboxInv
<1>1. \A i \in DOMAIN order : order[i] \in Keys
  BY SeqElement DEF TypeOK
<1>2. Listed' /\ Ranked'
  BY <1>1 DEF Listed, Ranked
<1>3. \A t \in Tickets : Unseen(t)' <=> Unseen(t)
  BY KeysAre DEF Unseen
<1>4. FirstPass'
  BY <1>3 DEF FirstPass
<1>5. \A k \in Keys : row'[k] # NoMessage /\ k[2] = "closed" => ticket'[k[1]] = "closed"
  BY DEF ClosedStays
<1> QED
  BY <1>2, <1>4, <1>5

LEMMA FinishKeeps ==
  ASSUME OutboxInv, Finish
  PROVE  OutboxInv'
<1> USE DEF OutboxInv
<1>1. /\ loop.pc = "finish" /\ Busy /\ loop' = Idle
      /\ UNCHANGED <<ticket, order, mapping, issue, parent, released>>
  BY DEF Finish, Busy
<1>2. loop' \in Loop /\ loop'.pc = "idle" /\ ~Busy'
  BY <1>1, KeysAre DEF Idle, Loop, Busy
<1>3. \A i \in DOMAIN issue : <<issue[i].ticket, "closed">> \in Keys
  BY IssueAt
<1>4. CASE row' = [row EXCEPT ![loop.key].status = "completed"] /\ UNCHANGED <<faults, history>>
  <2>1. /\ row' \in [Keys -> MessageRow] /\ loop.key \in Keys
        /\ row'[loop.key].status = "completed" /\ \A k \in Keys : k # loop.key => row'[k] = row[k]
        /\ \A k \in Keys : /\ Taken(k)' <=> Taken(k)
                           /\ row'[k] # NoMessage <=> row[k] # NoMessage
                           /\ Taken(k)' => row'[k].attempts > 0 /\ row'[k].status # "none"
    BY <1>1, <1>4, MarkedRow
  <2>2. \A k \in Keys : Completed(k)' <=> (Completed(k) \/ k = loop.key)
    BY <2>1 DEF Completed
  <2>3. TypeOK'
    BY <1>1, <1>2, <1>4, <2>1 DEF TypeOK
  <2>4. /\ Listed' /\ Ranked' /\ FirstPass'
        /\ \A k \in Keys : row'[k] # NoMessage /\ k[2] = "closed" => ticket'[k[1]] = "closed"
    BY <1>1, <1>4, <2>1, RowsKept
  <2>5. InHand'
    BY <1>1, <1>2, <2>2 DEF InHand, Subject
  <2>6. Mapped1'
    BY <1>1, <1>2, <1>4 DEF Mapped1
  <2>7. InOrder'
    <3>1. \A i \in DOMAIN order : order[i] \in Keys
      BY SeqElement DEF TypeOK
    <3> QED
      BY <1>1, <1>2, <1>4, <2>1, <2>2, <3>1 DEF InOrder
  <2>8. Shown'
    <3> SUFFICES ASSUME history \cap {"failed", "again"} = {}, NEW k \in Keys, k[1] # 0, Last(k)'
                 PROVE  issue[mapping[k[1]]].state = StateFor(k[2])
      BY <1>1, <1>2, <1>4 DEF Shown
    <3>1. CASE k = loop.key
      BY <1>1, <3>1 DEF Shown, Subject, Wanted
    <3>2. CASE k # loop.key
      <4>1. Last(k)
        BY <2>1, <2>2, <3>2 DEF Last
      <4> QED
        BY <4>1 DEF Shown
    <3> QED
      BY <3>1, <3>2
  <2>9. ClosedStays'
    BY <1>1, <1>3, <2>1, <2>4 DEF ClosedStays
  <2>10. AllClosed'
    BY <1>1, <1>2, <1>4 DEF AllClosed
  <2> QED
    BY <2>3, <2>4, <2>5, <2>6, <2>7, <2>8, <2>9, <2>10
<1>5. CASE UNCHANGED row /\ Fault /\ Note({"failed"})
  <2>1. faults' \in 0..Faults /\ "failed" \in history' /\ history' = history \cup {"failed"}
    BY <1>5 DEF Fault, Note, TypeOK
  <2>2. TypeOK'
    BY <1>1, <1>2, <1>5, <2>1 DEF TypeOK
  <2>3. Listed' /\ Ranked' /\ FirstPass' /\ ClosedStays'
    BY <1>1, <1>5, <2>1 DEF Listed, Ranked, FirstPass, ClosedStays, Unseen, Taken
  <2>4. InHand' /\ Mapped1'
    BY <1>1, <1>2, <1>5, <2>1 DEF InHand, Mapped1, Completed
  <2>5. InOrder' /\ Shown' /\ AllClosed'
    BY <2>1 DEF InOrder, Shown, AllClosed
  <2> QED
    BY <2>2, <2>3, <2>4, <2>5
<1> QED
  BY <1>4, <1>5 DEF Finish

\* What may have come of the call under way.
LEMMA InterruptedMoves ==
  ASSUME OutboxInv, Busy, Interrupted
  PROVE  /\ issue' \in Seq(Issue) /\ Len(issue) <= Len(issue') /\ DOMAIN issue \subseteq DOMAIN issue'
         /\ \A i \in DOMAIN issue : issue'[i].ticket = issue[i].ticket
         /\ \A i \in DOMAIN issue' : issue'[i].state = "done" => Taken(<<issue'[i].ticket, "closed">>)
         /\ parent' \in IssueState
         /\ history' \in {history \cup {"failed"}, history \cup {"failed", "lost"}}
         /\ "lost" \notin history' => UNCHANGED issue /\ loop.pc # "map"
<1> USE DEF OutboxInv
<1>1. CASE UNCHANGED <<issue, parent>> /\ Note({"failed"} \cup When(loop.pc = "map", "lost"))
  BY <1>1 DEF Note, When, TypeOK, ClosedStays, Issue
<1>2. CASE loop.pc = "update" /\ Updates /\ Note({"failed", "lost"})
  <2>1. /\ issue' \in Seq(Issue) /\ Len(issue') = Len(issue) /\ DOMAIN issue' = DOMAIN issue
        /\ parent' \in IssueState
        /\ \A i \in DOMAIN issue : issue'[i].ticket = issue[i].ticket
        /\ \A i \in DOMAIN issue : issue'[i] = issue[i] \/ (Subject # 0 /\ i = mapping[Subject])
        /\ Subject # 0 => issue'[mapping[Subject]].state = Wanted
    BY <1>2, UpdatesIssue
  <2>2. ASSUME NEW i \in DOMAIN issue', issue'[i].state = "done" PROVE Taken(<<issue'[i].ticket, "closed">>)
    <3>1. CASE issue'[i] = issue[i]
      BY <2>1, <2>2, <3>1 DEF ClosedStays
    <3>2. CASE Subject # 0 /\ i = mapping[Subject]
      <4>1. Subject \in Tickets /\ mapping[Subject] # 0
        BY <1>2, <3>2, KeysAre DEF InHand, Subject, TypeOK, Loop
      <4>2. Wanted = "done" /\ issue'[i].ticket = Subject
        BY <2>1, <2>2, <3>2, <4>1 DEF InHand
      <4> QED
        BY <3>2, <4>2, DoneIsClosed
    <3> QED
      BY <2>1, <2>2, <3>1, <3>2
  <2> QED
    BY <1>2, <2>1, <2>2 DEF Note, TypeOK
<1>3. CASE loop.pc = "create" /\ Creates /\ Note({"failed", "lost"})
  <2>1. /\ issue' \in Seq(Issue) /\ Len(issue') = Len(issue) + 1 /\ DOMAIN issue' = DOMAIN issue \cup {Len(issue) + 1}
        /\ \A i \in DOMAIN issue : issue'[i] = issue[i]
        /\ issue'[Len(issue) + 1] = [ticket |-> Subject, state |-> Wanted]
        /\ parent' = parent
    BY <1>3, CreatesIssue
  <2>2. Subject # 0
    BY <1>3, KeysAre DEF InHand
  <2>3. ASSUME NEW i \in DOMAIN issue', issue'[i].state = "done" PROVE Taken(<<issue'[i].ticket, "closed">>)
    <3>1. CASE i \in DOMAIN issue
      BY <2>1, <2>3, <3>1 DEF ClosedStays
    <3>2. CASE i = Len(issue) + 1
      <4>1. Wanted = "done" /\ issue'[i].ticket = Subject
        BY <2>1, <2>3, <3>2
      <4> QED
        BY <2>2, <4>1, DoneIsClosed
    <3> QED
      BY <2>1, <3>1, <3>2
  <2>4. Len(issue) \in Nat
    BY DEF TypeOK
  <2> QED
    BY <1>3, <2>1, <2>3, <2>4 DEF Note, TypeOK
<1>4. CASE loop.pc = "close" /\ Closes /\ Note({"failed", "lost"})
  BY <1>4 DEF Closes, Note, TypeOK, ClosedStays, Issue, IssueState
<1> QED
  BY <1>1, <1>2, <1>3, <1>4 DEF Interrupted

LEMMA BrokenOff ==
  ASSUME OutboxInv, Busy, Interrupted, UNCHANGED <<ticket, order, mapping, released>>,
         loop' \in Loop, loop'.pc \in {"idle", "down"}, faults' \in 0..Faults,
         row' \in [Keys -> MessageRow],
         \A k \in Keys : /\ Taken(k)' <=> Taken(k)
                         /\ row'[k] # NoMessage <=> row[k] # NoMessage
                         /\ Taken(k)' => row'[k].attempts > 0 /\ row'[k].status # "none",
         \A k \in Keys : Completed(k)' => Completed(k)
  PROVE  OutboxInv'
<1> USE DEF OutboxInv
<1>1. /\ issue' \in Seq(Issue) /\ Len(issue) <= Len(issue') /\ DOMAIN issue \subseteq DOMAIN issue'
      /\ \A i \in DOMAIN issue : issue'[i].ticket = issue[i].ticket
      /\ \A i \in DOMAIN issue' : issue'[i].state = "done" => Taken(<<issue'[i].ticket, "closed">>)
      /\ parent' \in IssueState
      /\ history' \in {history \cup {"failed"}, history \cup {"failed", "lost"}}
      /\ "lost" \notin history' => UNCHANGED issue /\ loop.pc # "map"
  BY InterruptedMoves
<1>2. ~Busy'
  BY DEF Busy
<1>3. TypeOK'
  <2>1. mapping' \in [Tickets -> 0..Len(issue')]
    BY <1>1 DEF TypeOK
  <2>2. history' \subseteq {"failed", "skipped", "lost", "again", "late", "unread"}
    BY <1>1 DEF TypeOK
  <2> QED
    BY <1>1, <2>1, <2>2 DEF TypeOK, Issue
<1>4. /\ Listed' /\ Ranked' /\ FirstPass'
      /\ \A k \in Keys : row'[k] # NoMessage /\ k[2] = "closed" => ticket'[k[1]] = "closed"
  BY <1>1, RowsKept
<1>5. InHand'
  <2>1. \A t \in Tickets : mapping[t] # 0 => mapping[t] \in DOMAIN issue /\ issue[mapping[t]].ticket = t
    BY DEF TypeOK, InHand
  <2>2. \A t \in Tickets : mapping'[t] # 0 => issue'[mapping'[t]].ticket = t
    BY <1>1, <2>1
  <2> QED
    BY <1>2, <2>2 DEF InHand
<1>6. Mapped1'
  BY <1>1 DEF Mapped1
<1>7. InOrder' /\ Shown' /\ AllClosed'
  BY <1>1 DEF InOrder, Shown, AllClosed
<1>8. ClosedStays'
  <2>1. issue' \in Seq(Issue) /\ \A i \in DOMAIN issue' : i \in 1..Len(issue')
    BY <1>1
  <2>2. \A i \in DOMAIN issue' : <<issue'[i].ticket, "closed">> \in Keys
    <3> TAKE i \in DOMAIN issue'
    <3>1. issue'[i] \in Issue
      BY <2>1, SeqElement
    <3> QED
      BY <3>1, KeysAre DEF Issue, Status
  <2> QED
    BY <1>1, <1>4, <2>2 DEF ClosedStays
<1> QED
  BY <1>3, <1>4, <1>5, <1>6, <1>7, <1>8

LEMMA CallFailsKeeps ==
  ASSUME OutboxInv, CallFails
  PROVE  OutboxInv'
<1> DEFINE outcome == IF GivesUp THEN "failed" ELSE "retry"
<1>1. /\ Busy /\ Interrupted /\ Fault /\ loop' = Idle
      /\ row' = [row EXCEPT ![loop.key].status = outcome] /\ outcome \in {"completed", "failed", "retry"}
      /\ outcome # "completed"
      /\ UNCHANGED <<ticket, order, mapping, released>>
  BY DEF CallFails, Busy
<1> HIDE DEF outcome
<1>2. loop' \in Loop /\ loop'.pc = "idle"
  BY <1>1, KeysAre DEF Idle, Loop
<1>3. faults' \in 0..Faults
  BY <1>1 DEF Fault, OutboxInv, TypeOK
<1>4. /\ row' \in [Keys -> MessageRow] /\ loop.key \in Keys
      /\ row'[loop.key].status = outcome /\ \A k \in Keys : k # loop.key => row'[k] = row[k]
      /\ \A k \in Keys : /\ Taken(k)' <=> Taken(k)
                         /\ row'[k] # NoMessage <=> row[k] # NoMessage
                         /\ Taken(k)' => row'[k].attempts > 0 /\ row'[k].status # "none"
  BY <1>1, MarkedRow
<1>5. \A k \in Keys : Completed(k)' => Completed(k)
  BY <1>1, <1>4 DEF Completed
<1> QED
  BY <1>1, <1>2, <1>3, <1>4, <1>5, BrokenOff

LEMMA StopKeeps ==
  ASSUME OutboxInv, Stop
  PROVE  OutboxInv'
<1>1. /\ loop.pc # "down" /\ Fault /\ loop' = [Idle EXCEPT !.pc = "down"]
      /\ UNCHANGED <<ticket, order, row, mapping, released>>
  BY DEF Stop
<1>2. loop' \in Loop /\ loop'.pc = "down"
  BY <1>1, KeysAre DEF Idle, Loop
<1>3. faults' \in 0..Faults
  BY <1>1 DEF Fault, OutboxInv, TypeOK
<1>4. CASE loop.pc = "idle"
  <2> USE DEF OutboxInv
  <2>1. UNCHANGED <<issue, parent, history>>
    BY <1>4 DEF Stop
  <2>2. TypeOK'
    BY <1>1, <1>2, <1>3, <2>1 DEF TypeOK
  <2>3. Listed' /\ Ranked' /\ FirstPass'
    BY <1>1, <2>1, SameRows
  <2>4. InHand' /\ Mapped1' /\ InOrder'
    BY <1>1, <1>2, <1>4, <2>1 DEF InHand, Mapped1, InOrder, Busy, Taken, Completed
  <2>5. Shown' /\ ClosedStays' /\ AllClosed'
    BY <1>1, <1>2, <1>4, <2>1 DEF Shown, ClosedStays, AllClosed, Last, Taken, Completed
  <2> QED
    BY <2>2, <2>3, <2>4, <2>5
<1>5. CASE loop.pc # "idle"
  <2>1. Busy /\ Interrupted
    BY <1>1, <1>5 DEF Stop, Busy
  <2>2. /\ row' \in [Keys -> MessageRow]
        /\ \A k \in Keys : /\ Taken(k)' <=> Taken(k)
                           /\ row'[k] # NoMessage <=> row[k] # NoMessage
                           /\ Taken(k)' => row'[k].attempts > 0 /\ row'[k].status # "none"
        /\ \A k \in Keys : Completed(k)' => Completed(k)
    BY <1>1 DEF OutboxInv, TypeOK, Listed, Taken, Completed
  <2> QED
    BY <1>1, <1>2, <1>3, <2>1, <2>2, BrokenOff
<1> QED
  BY <1>4, <1>5

LEMMA StartKeeps ==
  ASSUME OutboxInv, Start
  PROVE  OutboxInv'
<1> USE DEF OutboxInv
<1>1. /\ loop.pc = "down" /\ loop' = Idle
      /\ UNCHANGED <<ticket, order, row, mapping, issue, parent, released, faults, history>>
  BY DEF Start
<1>2. loop' \in Loop /\ loop'.pc = "idle"
  BY <1>1, KeysAre DEF Idle, Loop
<1>3. TypeOK'
  BY <1>1, <1>2 DEF TypeOK
<1>4. Listed' /\ Ranked' /\ FirstPass'
  BY <1>1, SameRows
<1>5. InHand' /\ Mapped1' /\ InOrder'
  BY <1>1, <1>2 DEF InHand, Mapped1, InOrder, Busy, Taken, Completed
<1>6. Shown' /\ ClosedStays' /\ AllClosed'
  BY <1>1, <1>2 DEF Shown, ClosedStays, AllClosed, Last, Taken, Completed
<1> QED
  BY <1>3, <1>4, <1>5, <1>6

-----------------------------------------------------------------------------
(* The theorems *)

LEMMA OutboxInit ==
  ASSUME Init
  PROVE  OutboxInv
<1>1. /\ ticket = [t \in Tickets |-> "open"] /\ order = <<EpicInWork>> /\ mapping = [t \in Tickets |-> 0]
      /\ row = [k \in Keys |-> IF k = EpicInWork THEN Fresh ELSE NoMessage]
      /\ issue = <<>> /\ parent = "todo" /\ loop = Idle /\ released = 0 /\ faults = 0 /\ history = {}
  BY DEF Init
<1>2. order \in Seq(Keys) /\ DOMAIN order = {1} /\ order[1] = EpicInWork
  BY <1>1, KeysAre
<1>3. issue \in Seq(Issue) /\ Len(issue) = 0 /\ DOMAIN issue = {}
  BY <1>1
<1>4. loop \in Loop /\ loop.pc = "idle" /\ loop.key = EpicInWork /\ ~Busy
  BY <1>1, KeysAre DEF Idle, Loop, Busy
<1>5. /\ row \in [Keys -> MessageRow] /\ row[EpicInWork] = Fresh
      /\ \A k \in Keys : k # EpicInWork => row[k] = NoMessage
  BY <1>1, KeysAre, RowsAre
<1>6. \A k \in Keys : ~Taken(k) /\ ~Completed(k)
  BY <1>5, RowsAre DEF Taken, Completed
<1>7. TypeOK
  BY <1>1, <1>2, <1>3, <1>4, <1>5 DEF TypeOK, Status, IssueState, Issue
<1>8. Listed
  BY <1>2, <1>5, <1>6, RowsAre DEF Listed
<1>9. InHand /\ Mapped1 /\ InOrder /\ Shown /\ AllClosed
  BY <1>1, <1>2, <1>3, <1>4, <1>6, KeysAre DEF InHand, Mapped1, InOrder, Shown, AllClosed, Last
<1>10. Ranked /\ ClosedStays
  BY <1>2, <1>3, <1>5, KeysAre DEF Ranked, ClosedStays
<1>11. FirstPass
  BY <1>5, KeysAre DEF FirstPass, Unseen
<1> QED
  BY <1>7, <1>8, <1>9, <1>10, <1>11 DEF OutboxInv

LEMMA OutboxNext ==
  ASSUME OutboxInv, [Next]_vars
  PROVE  OutboxInv'
<1>1. CASE \E t \in Tickets : Work(t) \/ Release(t)
  BY <1>1, WorkKeeps
<1>2. CASE \E skipped \in SUBSET Tickets : Sync(skipped)
  BY <1>2, SyncKeeps
<1>3. CASE \E i \in DOMAIN order : Claim(i)
  BY <1>3, ClaimKeeps
<1>4. CASE Send
  BY <1>4, UpdateKeeps, CreateSubIssueKeeps, MapKeeps, CheckKeeps, CloseParentKeeps, FinishKeeps DEF Send
<1>5. CASE CallFails
  BY <1>5, CallFailsKeeps
<1>6. CASE Stop
  BY <1>6, StopKeeps
<1>7. CASE Start
  BY <1>7, StartKeeps
<1>8. CASE UNCHANGED vars
  <2> USE <1>8 DEF OutboxInv, vars
  <2>1. TypeOK' /\ Listed' /\ Ranked' /\ FirstPass'
    BY SameRows DEF TypeOK
  <2>2. InHand' /\ Mapped1' /\ InOrder'
    BY DEF InHand, Mapped1, InOrder, Busy, Taken, Completed, Subject, Wanted
  <2>3. Shown' /\ ClosedStays' /\ AllClosed'
    BY DEF Shown, ClosedStays, AllClosed, Last, Taken, Completed, Subject, Wanted
  <2> QED
    BY <2>1, <2>2, <2>3
<1> QED
  BY <1>1, <1>2, <1>3, <1>4, <1>5, <1>6, <1>7, <1>8 DEF Next

\* The inductive invariant of the projection and the outbox loop.
THEOREM OutboxInvariant == Spec => []OutboxInv
BY OutboxInit, OutboxNext, PTL DEF Spec

\* Every variable has its type: no crash, failed call or repeated pass leaves a row, a mapping
\* or a sub-issue of a shape that the loops cannot read.
THEOREM TypeCorrect == Spec => []TypeOK
<1>1. OutboxInv => TypeOK
  BY DEF OutboxInv
<1> QED
  BY <1>1, OutboxInvariant, PTL

\* processOutbox creates a second sub-issue for a ticket only after a creation whose answer or
\* whose mapping was lost, or after a look-up of the mapping that failed, however often messages
\* are tried.
THEOREM OneSubIssueCorrect == Spec => []OneSubIssue
<1>1. OutboxInv => OneSubIssue
  <2> SUFFICES ASSUME OutboxInv, history \cap {"lost", "unread"} = {}, NEW i \in DOMAIN issue, NEW j \in DOMAIN issue,
                      issue[i].ticket = issue[j].ticket
               PROVE  i = j
    BY DEF OneSubIssue
  <2>1. i \in Nat \ {0} /\ j \in Nat \ {0} /\ Len(issue) \in Nat
    BY DEF OutboxInv, TypeOK
  <2>2. loop.pc = "map" => issue[Len(issue)].ticket = Subject /\ mapping[Subject] = 0
    BY DEF OutboxInv, InHand
  <2> QED
    BY <2>1, <2>2 DEF OutboxInv, Mapped1
<1> QED
  BY <1>1, OutboxInvariant, PTL

\* Once the message for the status of a ticket is completed, Linear shows that status, as long as
\* no message had to be sent twice and no status came back.
THEOREM SentMeansShownCorrect == Spec => []SentMeansShown
<1>1. OutboxInv => SentMeansShown
  <2> SUFFICES ASSUME OutboxInv, history \cap {"failed", "again"} = {}, NEW t \in Tickets, Sent(t)
               PROVE  mapping[t] # 0 /\ issue[mapping[t]].state = StateFor(ticket[t])
    BY DEF SentMeansShown
  <2> DEFINE k == <<t, ticket[t]>>
  <2>1. k \in Keys /\ k[1] = t /\ k[2] = ticket[t] /\ t # 0
    BY KeysAre DEF OutboxInv, TypeOK
  <2>2. Completed(k)
    BY DEF Sent, Completed
  <2> HIDE DEF k
  <2>3. \A l \in Keys : Taken(l) /\ l[1] = k[1] => Rank(l[2]) <= Rank(k[2])
    BY <2>1 DEF OutboxInv, Ranked, Taken
  <2>4. Last(k)
    BY <2>2, <2>3 DEF Last
  <2> QED
    BY <2>1, <2>2, <2>4 DEF OutboxInv, InHand, Shown
<1> QED
  BY <1>1, OutboxInvariant, PTL

\* completeLinearParentIfAllChildrenDone does not close the epic's issue while a ticket is open,
\* as long as the first pass saw every ticket before it was closed.
THEOREM DoneLastCorrect == Spec => []DoneLast
<1>1. OutboxInv => DoneLast
  BY DEF OutboxInv, AllClosed, DoneLast
<1> QED
  BY <1>1, OutboxInvariant, PTL

=============================================================================
