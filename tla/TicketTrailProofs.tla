--------------------------- MODULE TicketTrailProofs ---------------------------
(***************************************************************************)
(* The history of a ticket, its dates and the authority of its moves: the  *)
(* properties of TicketLifecycle that relate several steps of several      *)
(* requests, for any number of each; and that the handlers implement       *)
(* TicketWorkflow.                                                         *)
(***************************************************************************)
EXTENDS TicketLifecycleProofs

\* A row's number is at most the number of rows ever inserted for its field, so the
\* next row is the only one with the next number.
TrailNumbered ==
  \A t \in Tickets : \A x \in trail[t] : x.seq <= count[t][x.field]

\* A ticket that is not there has no history.
NoTrailWithoutTicket ==
  \A t \in Tickets : ~Live(t) => trail[t] = {}

\* The facts about the tables that are inductive together.
HistorySound ==
  /\ Typed
  /\ TrailNumbered
  /\ NoTrailWithoutTicket
  /\ DatesMatchStatus
  /\ StatusTrailLinked
  /\ AssignmentTrailLinked

LEMMA HistoryInit == Init => HistorySound
  BY TypedInit
  DEF Init, HistorySound, TrailNumbered, NoTrailWithoutTicket, DatesMatchStatus,
      StatusTrailLinked, AssignmentTrailLinked, RowsOf, OfField, Chained, Live

-------------------------------------------------------------------------------
(* Chains.                                                                  *)

\* A row that starts from the current value, with the next number, extends the chain.
LEMMA ChainAppend ==
  ASSUME NEW rows, NEW n \in Nat, NEW current, NEW gone, NEW row,
         \A x \in rows : x.seq \in Nat /\ x.seq <= n,
         Chained(rows, n, current, gone),
         row.seq = n + 1, row.from = current
  PROVE  Chained(rows \cup {row}, n + 1, row.to, gone)
<1> SUFFICES ASSUME NEW a \in rows \cup {row}
             PROVE  /\ a.seq = n + 1 => Follows(a.to, row.to, gone)
                    /\ \A b \in rows \cup {row} :
                         b.seq = a.seq + 1 => Follows(a.to, b.from, gone)
  BY DEF Chained
<1>1. CASE a = row
  <2>1. \A b \in rows \cup {row} : b.seq # a.seq + 1
    BY <1>1
  <2>2. QED
    BY <1>1, <2>1 DEF Follows
<1>2. CASE a # row
  <2>1. a \in rows /\ a.seq # n + 1
    BY <1>2
  <2>2. row.seq = a.seq + 1 => a.seq = n
    BY <2>1
  <2>3. row.seq = a.seq + 1 => Follows(a.to, row.from, gone)
    BY <2>1, <2>2 DEF Chained
  <2>4. \A b \in rows : b.seq = a.seq + 1 => Follows(a.to, b.from, gone)
    BY <2>1 DEF Chained
  <2>5. QED
    BY <2>1, <2>3, <2>4
<1>3. QED
  BY <1>1, <1>2

\* Rows may be lost, and a current value whose account is gone may become nobody.
LEMMA ChainErase ==
  ASSUME NEW rows, NEW n, NEW current, NEW gone, Chained(rows, n, current, gone),
         NEW rows1 \in SUBSET rows, NEW gone1, gone \subseteq gone1,
         NEW current1, current1 = current \/ (current1 = None /\ current \in gone1)
  PROVE  Chained(rows1, n, current1, gone1)
  BY DEF Chained, Follows

-------------------------------------------------------------------------------
(* Steps.                                                                   *)

\* What inserting one history row changes.
LEMMA RecordEffect ==
  ASSUME Typed, TrailNumbered, NEW t \in Tickets, NEW f \in Fields,
         NEW from, NEW to, NEW by, Record(t, f, from, to, by)
  PROVE  /\ TrailNumbered'
         /\ count'[t][f] = count[t][f] + 1
         /\ OfField(trail'[t], f) = OfField(trail[t], f) \cup {HistoryRow(t, f, from, to, by)}
         /\ \A g \in Fields : g # f => /\ count'[t][g] = count[t][g]
                                       /\ OfField(trail'[t], g) = OfField(trail[t], g)
         /\ \A x \in Tickets : x # t => count'[x] = count[x] /\ trail'[x] = trail[x]
         /\ \A x \in OfField(trail[t], f) : x.seq \in Nat /\ x.seq <= count[t][f]
         /\ count[t][f] \in Nat
<1> DEFINE row == HistoryRow(t, f, from, to, by)
<1>1. /\ trail \in [Tickets -> SUBSET HistoryRows]
      /\ count \in [Tickets -> [Fields -> Nat]]
  BY DEF Typed, TypeOK
<1>2. row.field = f /\ row.seq = count[t][f] + 1
  BY DEF HistoryRow
<1>3. trail' = [trail EXCEPT ![t] = @ \cup {row}]
  BY DEF Record
<1>4. count' = [count EXCEPT ![t][f] = @ + 1]
  BY DEF Record
<1> HIDE DEF row
<1>5. TrailNumbered'
  <2> SUFFICES ASSUME NEW x \in Tickets, NEW y \in trail'[x]
               PROVE  y.seq <= count'[x][y.field]
    BY DEF TrailNumbered
  <2>1. CASE y = row /\ x = t
    BY <1>1, <1>2, <1>4, <2>1
  <2>2. CASE ~(y = row /\ x = t)
    <3>1. y \in trail[x] /\ y \in HistoryRows
      BY <1>1, <1>3, <2>2
    <3>2. y.seq <= count[x][y.field] /\ y.field \in Fields /\ y.seq \in Nat
      BY <3>1 DEF TrailNumbered, HistoryRows
    <3>3. count[x][y.field] <= count'[x][y.field]
      BY <1>1, <1>4, <3>2
    <3>4. count[x][y.field] \in Nat /\ count'[x][y.field] \in Nat
      BY <1>1, <1>4, <3>2
    <3>5. QED
      BY <3>2, <3>3, <3>4
  <2>3. QED
    BY <2>1, <2>2
<1>6. count'[t][f] = count[t][f] + 1
  BY <1>1, <1>4
<1>7. OfField(trail'[t], f) = OfField(trail[t], f) \cup {row}
  BY <1>1, <1>2, <1>3 DEF OfField
<1>8. \A g \in Fields : g # f => /\ count'[t][g] = count[t][g]
                                 /\ OfField(trail'[t], g) = OfField(trail[t], g)
  BY <1>1, <1>2, <1>3, <1>4 DEF OfField
<1>9. \A x \in Tickets : x # t => count'[x] = count[x] /\ trail'[x] = trail[x]
  BY <1>1, <1>3, <1>4
<1>10. \A x \in OfField(trail[t], f) : x.seq \in Nat /\ x.seq <= count[t][f]
  BY <1>1 DEF OfField, TrailNumbered, HistoryRows
<1>11. QED
  BY <1>1, <1>5, <1>6, <1>7, <1>8, <1>9, <1>10 DEF row

\* A step that leaves the tables alone.
LEMMA TablesUnchanged ==
  ASSUME HistorySound, Typed', UNCHANGED <<ticketVars, user>>
  PROVE  HistorySound'
  BY DEF HistorySound, ticketVars, TrailNumbered, NoTrailWithoutTicket, DatesMatchStatus,
         StatusTrailLinked, AssignmentTrailLinked, RowsOf, Live, Gone

LEMMA CreateHistory ==
  ASSUME HistorySound, Typed', NEW r \in Requests, CreateCommit(r)
  PROVE  HistorySound'
<1> DEFINE q == req[r]
           t == req[r].ticket
           row == HistoryRow(t, "status", None, "Open", q.by)
           new == NewTicket(q)
<1>1. /\ t \in Tickets /\ ~Live(t) /\ trail[t] = {}
      /\ ticket' = [ticket EXCEPT ![t] = new]
      /\ phase'  = [phase EXCEPT ![t] = "live"]
      /\ user'   = user
      /\ Record(t, "status", None, "Open", q.by)
  BY DEF CreateCommit, HistorySound, NoTrailWithoutTicket, Live, Typed, RequestsSound,
         RequestSound
<1>2. /\ ticket \in [Tickets -> TicketRow]
      /\ phase \in [Tickets -> {"never", "live", "deleted"}]
  BY DEF HistorySound, Typed, TypeOK
<1>3. new.status = "Open" /\ new.resolvedAt = FALSE /\ new.closedAt = FALSE
  BY DEF NewTicket, Blank
<1> HIDE DEF q, new
<1>4. /\ TrailNumbered'
      /\ OfField(trail'[t], "status") = OfField(trail[t], "status") \cup {row}
      /\ OfField(trail'[t], "assignedTo") = OfField(trail[t], "assignedTo")
      /\ \A x \in Tickets : x # t => count'[x] = count[x] /\ trail'[x] = trail[x]
  <2>1. Typed /\ TrailNumbered /\ {"status", "assignedTo"} \subseteq Fields
    BY DEF HistorySound, Fields
  <2>2. QED
    BY <1>1, <2>1, RecordEffect DEF OfField
<1>5. /\ OfField(trail'[t], "status") = {row}
      /\ OfField(trail'[t], "assignedTo") = {}
  BY <1>1, <1>4 DEF OfField
<1>6. row.to = "Open" /\ row.seq = count[t]["status"] + 1 /\ count[t]["status"] \in Nat
  BY <1>1 DEF HistoryRow, HistorySound, Typed, TypeOK, Fields
<1> HIDE DEF row
<1>7. NoTrailWithoutTicket'
  BY <1>1, <1>2, <1>4 DEF HistorySound, NoTrailWithoutTicket, Live
<1>8. DatesMatchStatus'
  BY <1>1, <1>2, <1>3 DEF HistorySound, DatesMatchStatus, Live
<1>9. StatusTrailLinked'
  <2> SUFFICES ASSUME NEW x \in Tickets
               PROVE  Chained(OfField(trail'[x], "status"), count'[x]["status"],
                              ticket'[x].status, {})
    BY DEF StatusTrailLinked, RowsOf
  <2>1. CASE x = t
    <3>1. ticket'[x].status = "Open"
      BY <1>1, <1>2, <1>3, <2>1
    <3>2. QED
      BY <1>5, <1>6, <2>1, <3>1 DEF Chained, Follows
  <2>2. CASE x # t
    BY <1>1, <1>2, <1>4, <2>2 DEF HistorySound, StatusTrailLinked, RowsOf
  <2>3. QED
    BY <2>1, <2>2
<1>10. AssignmentTrailLinked'
  <2> SUFFICES ASSUME NEW x \in Tickets
               PROVE  Chained(OfField(trail'[x], "assignedTo"), count'[x]["assignedTo"],
                              ticket'[x].assignee, Gone')
    BY DEF AssignmentTrailLinked, RowsOf
  <2>1. CASE x = t
    BY <1>5, <2>1 DEF Chained
  <2>2. CASE x # t
    BY <1>1, <1>2, <1>4, <2>2 DEF HistorySound, AssignmentTrailLinked, RowsOf, Gone
  <2>3. QED
    BY <2>1, <2>2
<1>11. QED
  BY <1>4, <1>7, <1>8, <1>9, <1>10 DEF HistorySound

\* The dates after a permitted move.
LEMMA MoveDates ==
  ASSUME NEW row \in TicketRow, NEW to, <<row.status, to>> \in Transitions,
         row.resolvedAt <=> row.status \in {"Resolved", "Closed"},
         row.closedAt <=> row.status = "Closed"
  PROVE  LET new == Moved(row, row.status, to)
         IN  /\ new.status = to
             /\ new.assignee = row.assignee
             /\ new.requester = row.requester
             /\ new.resolvedAt <=> to \in {"Resolved", "Closed"}
             /\ new.closedAt <=> to = "Closed"
<1> DEFINE from == row.status
           new == Moved(row, from, to)
<1>1. /\ new.status = to /\ new.assignee = row.assignee /\ new.requester = row.requester
      /\ new.resolvedAt = IF from = "Closed" /\ to # "Closed" THEN FALSE
                          ELSE row.resolvedAt \/ to = "Resolved"
      /\ new.closedAt = IF from = "Closed" /\ to # "Closed" THEN FALSE
                        ELSE row.closedAt \/ to = "Closed"
  BY DEF Moved, TicketRow
<1>2. \/ from = "Open" /\ to = "InProgress"
      \/ from = "InProgress" /\ to \in {"OnHold", "Resolved"}
      \/ from = "OnHold" /\ to = "InProgress"
      \/ from = "Resolved" /\ to = "Closed"
      \/ from = "Closed" /\ to = "Open"
  BY DEF Transitions
<1> HIDE DEF new
<1>3. QED
  BY <1>1, <1>2 DEF new

LEMMA StatusHistory ==
  ASSUME HistorySound, Typed', NEW r \in Requests, StatusCommit(r)
  PROVE  HistorySound'
<1> DEFINE q == req[r]
           t == req[r].ticket
           row == HistoryRow(t, "status", q.seen, q.to, q.by)
           new == Moved(ticket[t], q.seen, q.to)
<1>1. /\ t \in Tickets /\ Live(t) /\ ticket[t].status = q.seen
      /\ <<q.seen, q.to>> \in Transitions
      /\ ticket' = [ticket EXCEPT ![t] = new]
      /\ phase'  = phase
      /\ user'   = user
      /\ Record(t, "status", q.seen, q.to, q.by)
  BY DEF StatusCommit, StatusCanCommit, HistorySound, Typed, TypeOK, RequestsSound,
         RequestSound
<1>2. ticket \in [Tickets -> TicketRow]
  BY DEF HistorySound, Typed, TypeOK
<1>3. /\ new.status = q.to /\ new.assignee = ticket[t].assignee
      /\ new.resolvedAt <=> q.to \in {"Resolved", "Closed"}
      /\ new.closedAt <=> q.to = "Closed"
  BY <1>1, <1>2, MoveDates DEF HistorySound, DatesMatchStatus
<1>4. /\ TrailNumbered'
      /\ count'[t]["status"] = count[t]["status"] + 1
      /\ count'[t]["assignedTo"] = count[t]["assignedTo"]
      /\ OfField(trail'[t], "status") = OfField(trail[t], "status") \cup {row}
      /\ OfField(trail'[t], "assignedTo") = OfField(trail[t], "assignedTo")
      /\ \A x \in Tickets : x # t => count'[x] = count[x] /\ trail'[x] = trail[x]
      /\ \A x \in OfField(trail[t], "status") : x.seq \in Nat /\ x.seq <= count[t]["status"]
      /\ count[t]["status"] \in Nat
  <2>1. Typed /\ TrailNumbered /\ {"status", "assignedTo"} \subseteq Fields
    BY DEF HistorySound, Fields
  <2>2. QED
    BY <1>1, <2>1, RecordEffect DEF OfField
<1>5. row.seq = count[t]["status"] + 1 /\ row.from = q.seen /\ row.to = q.to
  BY DEF HistoryRow
<1> HIDE DEF row, new
<1>6. NoTrailWithoutTicket'
  BY <1>1, <1>4 DEF HistorySound, NoTrailWithoutTicket, Live
<1>7. DatesMatchStatus'
  BY <1>1, <1>2, <1>3 DEF HistorySound, DatesMatchStatus, Live
<1>8. StatusTrailLinked'
  <2> SUFFICES ASSUME NEW x \in Tickets
               PROVE  Chained(OfField(trail'[x], "status"), count'[x]["status"],
                              ticket'[x].status, {})
    BY DEF StatusTrailLinked, RowsOf
  <2>1. CASE x = t
    <3>1. Chained(OfField(trail[t], "status"), count[t]["status"], q.seen, {})
      BY <1>1 DEF HistorySound, StatusTrailLinked, RowsOf
    <3>2. Chained(OfField(trail[t], "status") \cup {row}, count[t]["status"] + 1, row.to, {})
      BY <1>4, <1>5, <3>1, ChainAppend
    <3>3. ticket'[t].status = q.to
      BY <1>1, <1>2, <1>3
    <3>4. QED
      BY <1>4, <1>5, <2>1, <3>2, <3>3
  <2>2. CASE x # t
    BY <1>1, <1>2, <1>4, <2>2 DEF HistorySound, StatusTrailLinked, RowsOf
  <2>3. QED
    BY <2>1, <2>2
<1>9. AssignmentTrailLinked'
  <2> SUFFICES ASSUME NEW x \in Tickets
               PROVE  Chained(OfField(trail'[x], "assignedTo"), count'[x]["assignedTo"],
                              ticket'[x].assignee, Gone')
    BY DEF AssignmentTrailLinked, RowsOf
  <2>1. ticket'[x].assignee = ticket[x].assignee /\ Gone' = Gone
    BY <1>1, <1>2, <1>3 DEF Gone
  <2>2. /\ count'[x]["assignedTo"] = count[x]["assignedTo"]
        /\ OfField(trail'[x], "assignedTo") = OfField(trail[x], "assignedTo")
    BY <1>4
  <2>3. QED
    BY <2>1, <2>2 DEF HistorySound, AssignmentTrailLinked, RowsOf
<1>10. QED
  BY <1>4, <1>6, <1>7, <1>8, <1>9 DEF HistorySound

LEMMA AssignHistory ==
  ASSUME HistorySound, Typed', NEW r \in Requests, AssignCommit(r)
  PROVE  HistorySound'
<1> DEFINE q == req[r]
           t == req[r].ticket
           row == HistoryRow(t, "assignedTo", q.seen, q.to, q.by)
           new == [ticket[t] EXCEPT !.assignee = q.to]
<1>1. /\ ticket \in [Tickets -> TicketRow] /\ t \in Tickets
  BY DEF AssignCommit, HistorySound, Typed, TypeOK, RequestsSound, RequestSound
<1>2. /\ Live(t) /\ ticket[t].assignee = q.seen
      /\ ticket' = [ticket EXCEPT ![t] = new]
      /\ phase'  = phase
      /\ user'   = user
      /\ Record(t, "assignedTo", q.seen, q.to, q.by)
  BY <1>1 DEF AssignCommit, AssignCanCommit
<1>3. /\ new.assignee = q.to /\ new.status = ticket[t].status
      /\ new.resolvedAt = ticket[t].resolvedAt /\ new.closedAt = ticket[t].closedAt
  BY <1>1 DEF TicketRow
<1>4. /\ TrailNumbered'
      /\ count'[t]["assignedTo"] = count[t]["assignedTo"] + 1
      /\ count'[t]["status"] = count[t]["status"]
      /\ OfField(trail'[t], "assignedTo") = OfField(trail[t], "assignedTo") \cup {row}
      /\ OfField(trail'[t], "status") = OfField(trail[t], "status")
      /\ \A x \in Tickets : x # t => count'[x] = count[x] /\ trail'[x] = trail[x]
      /\ \A x \in OfField(trail[t], "assignedTo") :
           x.seq \in Nat /\ x.seq <= count[t]["assignedTo"]
      /\ count[t]["assignedTo"] \in Nat
  <2>1. Typed /\ TrailNumbered /\ {"status", "assignedTo"} \subseteq Fields
    BY DEF HistorySound, Fields
  <2>2. QED
    BY <1>1, <1>2, <2>1, RecordEffect DEF OfField
<1>5. row.seq = count[t]["assignedTo"] + 1 /\ row.from = q.seen /\ row.to = q.to
  BY DEF HistoryRow
<1> HIDE DEF row, new
<1>6. NoTrailWithoutTicket'
  BY <1>2, <1>4 DEF HistorySound, NoTrailWithoutTicket, Live
<1>7. DatesMatchStatus'
  BY <1>1, <1>2, <1>3 DEF HistorySound, DatesMatchStatus, Live
<1>8. StatusTrailLinked'
  <2> SUFFICES ASSUME NEW x \in Tickets
               PROVE  Chained(OfField(trail'[x], "status"), count'[x]["status"],
                              ticket'[x].status, {})
    BY DEF StatusTrailLinked, RowsOf
  <2>1. ticket'[x].status = ticket[x].status
    BY <1>1, <1>2, <1>3
  <2>2. /\ count'[x]["status"] = count[x]["status"]
        /\ OfField(trail'[x], "status") = OfField(trail[x], "status")
    BY <1>4
  <2>3. QED
    BY <2>1, <2>2 DEF HistorySound, StatusTrailLinked, RowsOf
<1>9. AssignmentTrailLinked'
  <2> SUFFICES ASSUME NEW x \in Tickets
               PROVE  Chained(OfField(trail'[x], "assignedTo"), count'[x]["assignedTo"],
                              ticket'[x].assignee, Gone)
    BY <1>2 DEF AssignmentTrailLinked, RowsOf, Gone
  <2>1. CASE x = t
    <3>1. Chained(OfField(trail[t], "assignedTo"), count[t]["assignedTo"], q.seen, Gone)
      BY <1>1, <1>2 DEF HistorySound, AssignmentTrailLinked, RowsOf
    <3>2. Chained(OfField(trail[t], "assignedTo") \cup {row}, count[t]["assignedTo"] + 1,
                  row.to, Gone)
      BY <1>4, <1>5, <3>1, ChainAppend
    <3>3. ticket'[t].assignee = q.to
      BY <1>1, <1>2, <1>3
    <3>4. QED
      BY <1>4, <1>5, <2>1, <3>2, <3>3
  <2>2. CASE x # t
    BY <1>1, <1>2, <1>4, <2>2 DEF HistorySound, AssignmentTrailLinked, RowsOf
  <2>3. QED
    BY <2>1, <2>2
<1>10. QED
  BY <1>4, <1>6, <1>7, <1>8, <1>9 DEF HistorySound

\* A change of the other columns of one ticket, with or without a history row of its own.
LEMMA OtherColumns ==
  ASSUME HistorySound, Typed', TrailNumbered', UNCHANGED <<phase, user>>,
         \A x \in Tickets :
           /\ ticket'[x].status = ticket[x].status
           /\ ticket'[x].assignee = ticket[x].assignee
           /\ ticket'[x].resolvedAt = ticket[x].resolvedAt
           /\ ticket'[x].closedAt = ticket[x].closedAt
           /\ ~Live(x) => trail'[x] = {}
           /\ \A g \in {"status", "assignedTo"} :
                /\ count'[x][g] = count[x][g]
                /\ OfField(trail'[x], g) = OfField(trail[x], g)
  PROVE  HistorySound'
<1>1. NoTrailWithoutTicket'
  BY DEF NoTrailWithoutTicket, Live
<1>2. DatesMatchStatus'
  BY DEF HistorySound, DatesMatchStatus, Live
<1>3. StatusTrailLinked'
  <2>1. \A x \in Tickets :
          Chained(OfField(trail[x], "status"), count[x]["status"], ticket[x].status, {})
    BY DEF HistorySound, StatusTrailLinked, RowsOf
  <2>2. QED
    BY <2>1 DEF StatusTrailLinked, RowsOf
<1>4. AssignmentTrailLinked'
  <2>1. \A x \in Tickets :
          Chained(OfField(trail[x], "assignedTo"), count[x]["assignedTo"],
                  ticket[x].assignee, Gone)
    BY DEF HistorySound, AssignmentTrailLinked, RowsOf
  <2>2. Gone' = Gone
    BY DEF Gone
  <2>3. QED
    BY <2>1, <2>2 DEF AssignmentTrailLinked, RowsOf
<1>5. QED
  BY <1>1, <1>2, <1>3, <1>4 DEF HistorySound

LEMMA ReopenHistory ==
  ASSUME HistorySound, Typed', NEW r \in Requests, ReopenWriteSla(r)
  PROVE  HistorySound'
<1> DEFINE q == req[r]
           t == req[r].ticket
           new == WithSla(ticket[t], now + q.due, "OnTrack")
<1>1. ticket \in [Tickets -> TicketRow] /\ t \in Tickets
  BY DEF ReopenWriteSla, HistorySound, Typed, TypeOK, RequestsSound, RequestSound
<1>2. UNCHANGED <<phase, user, trail, count>>
  BY DEF ReopenWriteSla
<1>3. ticket' = [ticket EXCEPT ![t] = new] \/ ticket' = ticket
  BY <1>1 DEF ReopenWriteSla
<1>4. /\ new.status = ticket[t].status /\ new.assignee = ticket[t].assignee
      /\ new.resolvedAt = ticket[t].resolvedAt /\ new.closedAt = ticket[t].closedAt
  BY <1>1 DEF WithSla, TicketRow
<1> HIDE DEF new
<1>5. TrailNumbered' /\ \A x \in Tickets : ~Live(x) => trail'[x] = {}
  BY <1>2 DEF HistorySound, TrailNumbered, NoTrailWithoutTicket
<1>6. QED
  BY <1>1, <1>2, <1>3, <1>4, <1>5, OtherColumns

LEMMA PriorityHistory ==
  ASSUME HistorySound, Typed', NEW r \in Requests, PriorityCommit(r)
  PROVE  HistorySound'
<1> DEFINE q == req[r]
           t == req[r].ticket
           new == [WithSla(ticket[t], q.due, q.sla) EXCEPT !.priority = q.to]
<1>1. ticket \in [Tickets -> TicketRow] /\ t \in Tickets
  BY DEF PriorityCommit, HistorySound, Typed, TypeOK, RequestsSound, RequestSound
<1>2. /\ UNCHANGED <<phase, user>> /\ Live(t)
      /\ ticket' = [ticket EXCEPT ![t] = new]
      /\ Record(t, "priority", q.seen, q.to, q.by)
  BY <1>1 DEF PriorityCommit
<1>3. /\ new.status = ticket[t].status /\ new.assignee = ticket[t].assignee
      /\ new.resolvedAt = ticket[t].resolvedAt /\ new.closedAt = ticket[t].closedAt
  BY <1>1 DEF WithSla, TicketRow
<1> HIDE DEF new
<1>4. /\ TrailNumbered'
      /\ \A g \in {"status", "assignedTo"} :
           /\ count'[t][g] = count[t][g]
           /\ OfField(trail'[t], g) = OfField(trail[t], g)
      /\ \A x \in Tickets : x # t => count'[x] = count[x] /\ trail'[x] = trail[x]
  <2>1. Typed /\ TrailNumbered /\ {"status", "assignedTo", "priority"} = Fields
    BY DEF HistorySound, Fields
  <2>2. QED
    BY <1>1, <1>2, <2>1, RecordEffect DEF OfField
<1>5. \A x \in Tickets : ~Live(x) => trail'[x] = {}
  BY <1>2, <1>4 DEF HistorySound, NoTrailWithoutTicket
<1>6. QED
  BY <1>1, <1>2, <1>3, <1>4, <1>5, OtherColumns

LEMMA DeleteHistory ==
  ASSUME HistorySound, Typed', NEW r \in Requests, DeleteCommit(r)
  PROVE  HistorySound'
<1> DEFINE t == req[r].ticket
<1>1. /\ t \in Tickets
      /\ ticket \in [Tickets -> TicketRow]
      /\ phase \in [Tickets -> {"never", "live", "deleted"}]
      /\ trail \in [Tickets -> SUBSET HistoryRows]
      /\ count \in [Tickets -> [Fields -> Nat]]
  BY DEF DeleteCommit, HistorySound, Typed, TypeOK, RequestsSound, RequestSound
<1>2. /\ trail'[t] = {} /\ phase'[t] = "deleted" /\ UNCHANGED user
      /\ \A x \in Tickets : x # t =>
           /\ trail'[x] = trail[x] /\ count'[x] = count[x]
           /\ ticket'[x] = ticket[x] /\ phase'[x] = phase[x]
  <2> DEFINE none == [f \in Fields |-> 0]
  <2>1. /\ trail' = [trail EXCEPT ![t] = {}] /\ phase' = [phase EXCEPT ![t] = "deleted"]
        /\ ticket' = [ticket EXCEPT ![t] = Blank] /\ count' = [count EXCEPT ![t] = none]
        /\ user' = user
    BY DEF DeleteCommit
  <2> HIDE DEF none
  <2>2. QED
    BY <1>1, <2>1
<1>3. TrailNumbered' /\ NoTrailWithoutTicket'
  BY <1>2 DEF HistorySound, TrailNumbered, NoTrailWithoutTicket, Live
<1>4. DatesMatchStatus'
  <2> SUFFICES ASSUME NEW x \in Tickets, Live(x)'
               PROVE  /\ ticket'[x].resolvedAt <=> ticket'[x].status \in {"Resolved", "Closed"}
                      /\ ticket'[x].closedAt <=> ticket'[x].status = "Closed"
    BY DEF DatesMatchStatus
  <2>1. x # t /\ Live(x)
    BY <1>2 DEF Live
  <2>2. QED
    BY <1>2, <2>1 DEF HistorySound, DatesMatchStatus
<1>5. StatusTrailLinked' /\ AssignmentTrailLinked'
  <2>1. \A g \in Fields : OfField(trail'[t], g) = {}
    BY <1>2 DEF OfField
  <2>2. \A n, c, gone : Chained({}, n, c, gone)
    BY DEF Chained
  <2>3. Gone' = Gone
    BY <1>2 DEF Gone
  <2>4. StatusTrailLinked'
    BY <1>2, <2>1, <2>2 DEF HistorySound, StatusTrailLinked, RowsOf, Fields
  <2>5. AssignmentTrailLinked'
    BY <1>2, <2>1, <2>2, <2>3 DEF HistorySound, AssignmentTrailLinked, RowsOf, Fields
  <2>6. QED
    BY <2>4, <2>5
<1>6. QED
  BY <1>3, <1>4, <1>5 DEF HistorySound

LEMMA UserHistory ==
  ASSUME HistorySound, Typed', Administration
  PROVE  HistorySound'
<1>1. PICK u \in EditedUsers : UpdateUser(u) \/ DeleteUser(u)
  BY DEF Administration
<1>2. /\ u \in Users
      /\ user \in [Users -> UserRow]
      /\ ticket \in [Tickets -> TicketRow]
      /\ trail \in [Tickets -> SUBSET HistoryRows]
  BY TableAssumption DEF HistorySound, Typed, TypeOK
<1>3. CASE UpdateUser(u)
  <2>1. UNCHANGED ticketVars
    BY <1>3 DEF UpdateUser
  <2>2. \A v \in Users : user'[v].exists = user[v].exists
    BY <1>2, <1>3 DEF UpdateUser, UserRow
  <2>3. Gone' = Gone
    BY <2>2 DEF Gone
  <2>4. QED
    BY <2>1, <2>3
    DEF HistorySound, ticketVars, TrailNumbered, NoTrailWithoutTicket, DatesMatchStatus,
        StatusTrailLinked, AssignmentTrailLinked, RowsOf, Live
<1>4. CASE DeleteUser(u)
  <2>1. UNCHANGED <<phase, count>> /\ \A t \in Tickets : trail'[t] \subseteq trail[t]
    BY <1>4 DEF DeleteUser, Purged
  <2>2. Gone \subseteq Gone' /\ u \in Gone'
    BY <1>2, <1>4 DEF DeleteUser, Gone, NoUser, UserRow
  <2>3. \A t \in Tickets :
          /\ ticket'[t].status = ticket[t].status
          /\ ticket'[t].resolvedAt = ticket[t].resolvedAt
          /\ ticket'[t].closedAt = ticket[t].closedAt
          /\ \/ ticket'[t].assignee = ticket[t].assignee
             \/ ticket'[t].assignee = None /\ ticket[t].assignee = u
    BY <1>2, <1>4 DEF DeleteUser, TicketRow
  <2>4. TrailNumbered' /\ NoTrailWithoutTicket' /\ DatesMatchStatus'
    BY <2>1, <2>3 DEF HistorySound, TrailNumbered, NoTrailWithoutTicket, DatesMatchStatus, Live
  <2>5. \A t \in Tickets, f \in Fields : OfField(trail'[t], f) \in SUBSET OfField(trail[t], f)
    BY <2>1 DEF OfField
  <2>6. StatusTrailLinked'
    <3> SUFFICES ASSUME NEW t \in Tickets
                 PROVE  Chained(OfField(trail'[t], "status"), count[t]["status"],
                                ticket[t].status, {})
      BY <2>1, <2>3 DEF StatusTrailLinked, RowsOf
    <3>1. Chained(OfField(trail[t], "status"), count[t]["status"], ticket[t].status, {})
      BY DEF HistorySound, StatusTrailLinked, RowsOf
    <3>2. OfField(trail'[t], "status") \in SUBSET OfField(trail[t], "status")
      BY <2>5 DEF Fields
    <3>3. QED
      BY <3>1, <3>2, ChainErase
  <2>7. AssignmentTrailLinked'
    <3> SUFFICES ASSUME NEW t \in Tickets
                 PROVE  Chained(OfField(trail'[t], "assignedTo"), count[t]["assignedTo"],
                                ticket'[t].assignee, Gone')
      BY <2>1 DEF AssignmentTrailLinked, RowsOf
    <3>1. Chained(OfField(trail[t], "assignedTo"), count[t]["assignedTo"],
                  ticket[t].assignee, Gone)
      BY DEF HistorySound, AssignmentTrailLinked, RowsOf
    <3>2. OfField(trail'[t], "assignedTo") \in SUBSET OfField(trail[t], "assignedTo")
      BY <2>5 DEF Fields
    <3>3. \/ ticket'[t].assignee = ticket[t].assignee
          \/ ticket'[t].assignee = None /\ ticket[t].assignee \in Gone'
      BY <2>2, <2>3
    <3>4. QED
      BY <2>2, <3>1, <3>2, <3>3, ChainErase
  <2>8. QED
    BY <2>4, <2>6, <2>7 DEF HistorySound
<1>5. QED
  BY <1>1, <1>3, <1>4

LEMMA HistoryStep == HistorySound /\ [Next]_vars => HistorySound'
<1> SUFFICES ASSUME HistorySound, [Next]_vars PROVE HistorySound'
  OBVIOUS
<1>1. Typed'
  BY TypedStep DEF HistorySound
<1>2. ASSUME NEW r \in Requests, Handler(r) PROVE HistorySound'
  <2>1. CASE \/ CreateCommit(r) \/ StatusCommit(r) \/ ReopenWriteSla(r)
             \/ AssignCommit(r) \/ PriorityCommit(r) \/ DeleteCommit(r)
    BY <1>1, <2>1, CreateHistory, StatusHistory, ReopenHistory, AssignHistory,
       PriorityHistory, DeleteHistory
  <2>2. CASE \/ CreateRead(r) \/ StatusRead(r) \/ AssignRead(r) \/ PriorityRead(r)
             \/ DeleteRead(r)
    <3>1. UNCHANGED <<ticketVars, user>>
      BY <2>2 DEF CreateRead, StatusRead, AssignRead, PriorityRead, DeleteRead, Begin
    <3>2. QED
      BY <1>1, <3>1, TablesUnchanged
  <2>3. CASE ReopenReadConfig(r) \/ AssignCheck(r) \/ PriorityReadConfig(r)
    <3>1. UNCHANGED <<ticketVars, user>>
      BY <2>3 DEF ReopenReadConfig, AssignCheck, PriorityReadConfig
    <3>2. QED
      BY <1>1, <3>1, TablesUnchanged
  <2>4. CASE \/ CreateAbort(r) \/ StatusAbort(r) \/ AssignAbort(r) \/ PriorityAbort(r)
             \/ DeleteAbort(r)
    <3>1. UNCHANGED <<ticketVars, user>>
      BY <2>4 DEF CreateAbort, StatusAbort, AssignAbort, PriorityAbort, DeleteAbort, Abort
    <3>2. QED
      BY <1>1, <3>1, TablesUnchanged
  <2>5. QED
    BY <1>2, <2>1, <2>2, <2>3, <2>4 DEF Handler
<1>3. CASE Administration
  BY <1>1, <1>3, UserHistory
<1>4. CASE UNCHANGED vars
  BY <1>1, <1>4, TablesUnchanged DEF vars, ticketVars
<1>5. QED
  BY <1>2, <1>3, <1>4 DEF Next

LEMMA HistoryAlways == Spec => []HistorySound
  BY HistoryInit, HistoryStep, PTL DEF Spec

\* The dates tell the status of every ticket, in every interleaving.
THEOREM DatesCorrect == Spec => []DatesMatchStatus
<1>1. HistorySound => DatesMatchStatus
  BY DEF HistorySound
<1>2. QED
  BY <1>1, HistoryAlways, PTL

\* No status move is lost or recorded against a status the ticket did not have.
THEOREM StatusTrailCorrect == Spec => []StatusTrailLinked
<1>1. HistorySound => StatusTrailLinked
  BY DEF HistorySound
<1>2. QED
  BY <1>1, HistoryAlways, PTL

\* No assignment silently overwrites another.
THEOREM AssignmentTrailCorrect == Spec => []AssignmentTrailLinked
<1>1. HistorySound => AssignmentTrailLinked
  BY DEF HistorySound
<1>2. QED
  BY <1>1, HistoryAlways, PTL

-------------------------------------------------------------------------------
(* Authority: what updateStatus checked on a row it read still holds of the *)
(* row it writes, because the row's status is tested again and its          *)
(* requester never changes.                                                 *)

RequestAuthorised(q) ==
  /\ q.pc \notin {"idle", "create.write"} => phase[q.ticket] # "never"
  /\ (q.pc = "status.write" /\ q.role = "EndUser") =>
       /\ q.seen = "Resolved" /\ q.to = "Closed"
       /\ Live(q.ticket) => ticket[q.ticket].requester = q.by

RequestsAuthorised == \A r \in Requests : RequestAuthorised(req[r])

Authority == Typed /\ RequestsAuthorised

\* A ticket that exists or has existed keeps its requester, and its id is not used again.
TicketPersists(t) ==
  phase[t] # "never" =>
    /\ phase'[t] # "never"
    /\ Live(t)' => Live(t) /\ ticket'[t].requester = ticket[t].requester

LEMMA TicketsPersist ==
  ASSUME Typed, [Next]_vars, NEW t \in Tickets
  PROVE  TicketPersists(t)
<1>1. /\ ticket \in [Tickets -> TicketRow]
      /\ phase \in [Tickets -> {"never", "live", "deleted"}]
  BY DEF Typed, TypeOK
<1>2. ASSUME UNCHANGED <<phase, ticket>> PROVE TicketPersists(t)
  BY <1>2 DEF TicketPersists, Live
<1>3. ASSUME UNCHANGED phase, ticket'[t].requester = ticket[t].requester
      PROVE  TicketPersists(t)
  BY <1>3 DEF TicketPersists, Live
<1>4. ASSUME NEW r \in Requests, Handler(r) PROVE TicketPersists(t)
  <2>1. CASE CreateCommit(r)
    BY <1>1, <2>1 DEF CreateCommit, TicketPersists, Live
  <2>2. CASE StatusCommit(r)
    <3>1. \A row \in TicketRow : \A a, b : Moved(row, a, b).requester = row.requester
      BY DEF Moved, TicketRow
    <3>2. QED
      BY <1>1, <1>3, <2>2, <3>1 DEF StatusCommit
  <2>3. CASE ReopenWriteSla(r)
    <3>1. \A row \in TicketRow : \A a, b : WithSla(row, a, b).requester = row.requester
      BY DEF WithSla, TicketRow
    <3>2. QED
      BY <1>1, <1>3, <2>3, <3>1 DEF ReopenWriteSla
  <2>4. CASE AssignCommit(r)
    BY <1>1, <1>3, <2>4 DEF AssignCommit, TicketRow
  <2>5. CASE PriorityCommit(r)
    <3>1. \A row \in TicketRow : \A a, b, p :
            [WithSla(row, a, b) EXCEPT !.priority = p].requester = row.requester
      BY DEF WithSla, TicketRow
    <3>2. QED
      BY <1>1, <1>3, <2>5, <3>1 DEF PriorityCommit
  <2>6. CASE DeleteCommit(r)
    BY <1>1, <2>6 DEF DeleteCommit, TicketPersists, Live
  <2>7. CASE \/ CreateRead(r) \/ StatusRead(r) \/ AssignRead(r) \/ PriorityRead(r)
             \/ DeleteRead(r)
    BY <1>2, <2>7 DEF CreateRead, StatusRead, AssignRead, PriorityRead, DeleteRead, Begin,
                      ticketVars
  <2>8. CASE ReopenReadConfig(r) \/ AssignCheck(r) \/ PriorityReadConfig(r)
    BY <1>2, <2>8 DEF ReopenReadConfig, AssignCheck, PriorityReadConfig, ticketVars
  <2>9. CASE \/ CreateAbort(r) \/ StatusAbort(r) \/ AssignAbort(r) \/ PriorityAbort(r)
             \/ DeleteAbort(r)
    BY <1>2, <2>9 DEF CreateAbort, StatusAbort, AssignAbort, PriorityAbort, DeleteAbort, Abort,
                      ticketVars
  <2>10. QED
    BY <1>4, <2>1, <2>2, <2>3, <2>4, <2>5, <2>6, <2>7, <2>8, <2>9 DEF Handler
<1>5. CASE Administration
  BY <1>1, <1>2, <1>3, <1>5 DEF Administration, UpdateUser, DeleteUser, ticketVars, TicketRow
<1>6. CASE UNCHANGED vars
  BY <1>2, <1>6 DEF vars
<1>7. QED
  BY <1>4, <1>5, <1>6 DEF Next

\* Wherever a request goes, it goes authorised.
LEMMA RequestMoves ==
  ASSUME Authority, NEW r \in Requests, Handler(r), \A t \in Tickets : TicketPersists(t)
  PROVE  /\ \A x \in Requests : x # r => req'[x] = req[x]
         /\ RequestAuthorised(req[r])'
<1>1. req \in [Requests -> RequestRow] /\ RequestsSound /\ RequestsAuthorised
  BY DEF Authority, Typed, TypeOK
<1>2. ASSUME Finish(r)
      PROVE  (\A x \in Requests : x # r => req'[x] = req[x]) /\ RequestAuthorised(req[r])'
  BY <1>1, <1>2 DEF Finish, RequestAuthorised, Idle
<1>3. ASSUME NEW pc, NEW u \in Users, NEW role, NEW t \in Tickets, NEW to, NEW seen,
             Begin(r, pc, u, role, t, to, seen), Live(t),
             (pc = "status.write" /\ role = "EndUser") =>
                seen = "Resolved" /\ to = "Closed" /\ ticket[t].requester = u
      PROVE  (\A x \in Requests : x # r => req'[x] = req[x]) /\ RequestAuthorised(req[r])'
  BY <1>1, <1>3 DEF Begin, RequestAuthorised, Idle, Live, ticketVars
<1>4. ASSUME NEW q, req' = [req EXCEPT ![r] = q],
             q = Idle \/ (q.pc \notin {"idle", "status.write"} /\ q.ticket = req[r].ticket),
             req[r].pc \notin {"idle", "create.write"}
      PROVE  (\A x \in Requests : x # r => req'[x] = req[x]) /\ RequestAuthorised(req[r])'
  <2>1. req[r].ticket \in Tickets /\ phase[req[r].ticket] # "never"
    BY <1>1, <1>4 DEF RequestsSound, RequestSound, RequestsAuthorised, RequestAuthorised
  <2>2. phase'[req[r].ticket] # "never"
    BY <2>1 DEF TicketPersists
  <2>3. QED
    BY <1>1, <1>4, <2>2 DEF RequestAuthorised, Idle
<1>5. CASE CreateRead(r)
  BY <1>1, <1>5 DEF CreateRead, RequestAuthorised, Idle
<1>6. CASE StatusRead(r)
  <2>1. PICK u \in Users, t \in Tickets, to \in Statuses :
          /\ Live(t) /\ MayMove(u, t, to)
          /\ Begin(r, "status.write", u, user[u].role, t, to, ticket[t].status)
    BY <1>6 DEF StatusRead
  <2>2. QED
    BY <1>3, <2>1 DEF MayMove
<1>7. CASE AssignRead(r)
  <2>1. PICK u \in Users, t \in Tickets, to \in Users \cup {None} :
          /\ Live(t)
          /\ Begin(r, IF to = None THEN "assign.write" ELSE "assign.check",
                   u, None, t, to, ticket[t].assignee)
    BY <1>7 DEF AssignRead
  <2>2. (IF to = None THEN "assign.write" ELSE "assign.check") # "status.write"
    OBVIOUS
  <2>3. QED
    BY <1>3, <2>1, <2>2
<1>8. CASE PriorityRead(r)
  <2>1. PICK u \in Users, t \in Tickets, to \in Priorities :
          Live(t) /\ Begin(r, "priority.config", u, None, t, to, ticket[t].priority)
    BY <1>8 DEF PriorityRead
  <2>2. QED
    BY <1>3, <2>1
<1>9. CASE DeleteRead(r)
  <2>1. PICK u \in Users, t \in Tickets :
          Live(t) /\ Begin(r, "delete.write", u, None, t, None, None)
    BY <1>9 DEF DeleteRead
  <2>2. QED
    BY <1>3, <2>1
<1>10. CASE StatusCommit(r)
  <2> DEFINE q2 == [req[r] EXCEPT !.pc = "reopen.config",
                                  !.to = ticket[req[r].ticket].priority]
  <2>1. q2.pc = "reopen.config" /\ q2.ticket = req[r].ticket
    BY <1>1 DEF RequestRow
  <2>2. req' = [req EXCEPT ![r] = q2] \/ req' = [req EXCEPT ![r] = Idle]
    BY <1>10 DEF StatusCommit
  <2>3. req[r].pc = "status.write"
    BY <1>10 DEF StatusCommit
  <2> HIDE DEF q2
  <2>4. QED
    BY <1>4, <2>1, <2>2, <2>3
<1>11. CASE ReopenReadConfig(r)
  <2> DEFINE q2 == [req[r] EXCEPT !.pc = "reopen.write", !.due = GetSLAConfig(req[r].to)]
  <2>1. q2.pc = "reopen.write" /\ q2.ticket = req[r].ticket
    BY <1>1 DEF RequestRow
  <2>2. req' = [req EXCEPT ![r] = q2] \/ req' = [req EXCEPT ![r] = Idle]
    BY <1>11 DEF ReopenReadConfig
  <2>3. req[r].pc = "reopen.config"
    BY <1>11 DEF ReopenReadConfig
  <2> HIDE DEF q2
  <2>4. QED
    BY <1>4, <2>1, <2>2, <2>3
<1>12. CASE AssignCheck(r)
  <2> DEFINE q2 == [req[r] EXCEPT !.pc = "assign.write"]
  <2>1. q2.pc = "assign.write" /\ q2.ticket = req[r].ticket
    BY <1>1 DEF RequestRow
  <2>2. req' = [req EXCEPT ![r] = q2] \/ req' = [req EXCEPT ![r] = Idle]
    BY <1>12 DEF AssignCheck
  <2>3. req[r].pc = "assign.check"
    BY <1>12 DEF AssignCheck
  <2> HIDE DEF q2
  <2>4. QED
    BY <1>4, <2>1, <2>2, <2>3
<1>13. CASE PriorityReadConfig(r)
  <2>1. PICK due, sla :
          req' = [req EXCEPT ![r] = [req[r] EXCEPT !.pc = "priority.write", !.due = due,
                                                   !.sla = sla]]
    BY <1>13 DEF PriorityReadConfig
  <2> DEFINE q2 == [req[r] EXCEPT !.pc = "priority.write", !.due = due, !.sla = sla]
  <2>2. q2.pc = "priority.write" /\ q2.ticket = req[r].ticket
    BY <1>1 DEF RequestRow
  <2>3. req[r].pc = "priority.config"
    BY <1>13 DEF PriorityReadConfig
  <2> HIDE DEF q2
  <2>4. QED
    BY <1>4, <2>1, <2>2, <2>3 DEF q2
<1>14. CASE \/ CreateCommit(r) \/ ReopenWriteSla(r) \/ AssignCommit(r) \/ PriorityCommit(r)
            \/ DeleteCommit(r)
  BY <1>2, <1>14 DEF CreateCommit, ReopenWriteSla, AssignCommit, PriorityCommit, DeleteCommit
<1>15. CASE \/ CreateAbort(r) \/ StatusAbort(r) \/ AssignAbort(r) \/ PriorityAbort(r)
            \/ DeleteAbort(r)
  BY <1>2, <1>15 DEF CreateAbort, StatusAbort, AssignAbort, PriorityAbort, DeleteAbort, Abort
<1>16. QED
  BY <1>5, <1>6, <1>7, <1>8, <1>9, <1>10, <1>11, <1>12, <1>13, <1>14, <1>15 DEF Handler

LEMMA AuthorityStep == Authority /\ [Next]_vars => Authority'
<1> SUFFICES ASSUME Authority, [Next]_vars PROVE Authority'
  OBVIOUS
<1>1. Typed' /\ \A t \in Tickets : TicketPersists(t)
  BY TypedStep, TicketsPersist DEF Authority
<1>2. ASSUME NEW x \in Requests, req'[x] = req[x]
      PROVE  RequestAuthorised(req[x])'
  <2>1. req[x].pc # "idle" => req[x].ticket \in Tickets
    BY DEF Authority, Typed, RequestsSound, RequestSound
  <2>2. RequestAuthorised(req[x])
    BY DEF Authority, RequestsAuthorised
  <2>3. QED
    BY <1>1, <1>2, <2>1, <2>2 DEF RequestAuthorised, TicketPersists
<1>3. ASSUME NEW r \in Requests, Handler(r) PROVE RequestsAuthorised'
  BY <1>1, <1>2, <1>3, RequestMoves DEF RequestsAuthorised
<1>4. ASSUME UNCHANGED req PROVE RequestsAuthorised'
  BY <1>2, <1>4 DEF RequestsAuthorised
<1>5. RequestsAuthorised'
  BY <1>3, <1>4 DEF Next, Administration, UpdateUser, DeleteUser, vars
<1>6. QED
  BY <1>1, <1>5 DEF Authority

\* One step changes the status of a live ticket only as an authorised request's commit.
LEMMA MoveStep ==
  ASSUME Authority, [Next]_vars, NEW t \in Tickets, Live(t), Live(t)',
         ticket'[t].status # ticket[t].status
  PROVE  MoveAuthorised(t)
<1>1. /\ ticket \in [Tickets -> TicketRow] /\ req \in [Requests -> RequestRow]
      /\ phase \in [Tickets -> {"never", "live", "deleted"}]
      /\ RequestsSound /\ RequestsAuthorised
  BY DEF Authority, Typed, TypeOK
<1>2. PICK r \in Requests : StatusCommit(r)
  <2>1. ASSUME NEW r \in Requests, Handler(r), ~StatusCommit(r) PROVE FALSE
    <3>1. ~CreateCommit(r) /\ ~DeleteCommit(r)
      BY <1>1 DEF CreateCommit, DeleteCommit, Live
    <3>2. ~ReopenWriteSla(r)
      <4>1. \A row \in TicketRow : \A a, b : WithSla(row, a, b).status = row.status
        BY DEF WithSla, TicketRow
      <4>2. QED
        BY <1>1, <4>1 DEF ReopenWriteSla
    <3>3. ~AssignCommit(r)
      BY <1>1 DEF AssignCommit, TicketRow
    <3>4. ~PriorityCommit(r)
      <4>1. \A row \in TicketRow : \A a, b, p :
              [WithSla(row, a, b) EXCEPT !.priority = p].status = row.status
        BY DEF WithSla, TicketRow
      <4> SUFFICES ASSUME PriorityCommit(r) PROVE FALSE
        OBVIOUS
      <4> DEFINE q == req[r]
                 new == [WithSla(ticket[t], q.due, q.sla) EXCEPT !.priority = q.to]
      <4>2. new.status = ticket[t].status
        BY <1>1, <4>1
      <4>3. q.ticket = t => ticket'[t] = new
        BY <1>1 DEF PriorityCommit
      <4>4. q.ticket # t => ticket'[t] = ticket[t]
        BY <1>1 DEF PriorityCommit
      <4>5. QED
        BY <4>2, <4>3, <4>4
    <3>5. ticket' # ticket
      OBVIOUS
    <3>6. ~(CreateRead(r) \/ StatusRead(r) \/ AssignRead(r) \/ PriorityRead(r) \/ DeleteRead(r))
      BY <3>5 DEF CreateRead, StatusRead, AssignRead, PriorityRead, DeleteRead, Begin,
                  ticketVars
    <3>7. ~(ReopenReadConfig(r) \/ AssignCheck(r) \/ PriorityReadConfig(r))
      BY <3>5 DEF ReopenReadConfig, AssignCheck, PriorityReadConfig, ticketVars
    <3>8. ~(CreateAbort(r) \/ StatusAbort(r) \/ AssignAbort(r) \/ PriorityAbort(r)
              \/ DeleteAbort(r))
      BY <3>5 DEF CreateAbort, StatusAbort, AssignAbort, PriorityAbort, DeleteAbort, Abort,
                  ticketVars
    <3>9. QED
      BY <2>1, <3>1, <3>2, <3>3, <3>4, <3>6, <3>7, <3>8 DEF Handler
  <2>2. ~Administration
    BY <1>1 DEF Administration, UpdateUser, DeleteUser, ticketVars, TicketRow
  <2>3. ~UNCHANGED vars
    BY DEF vars
  <2>4. QED
    BY <2>1, <2>2, <2>3 DEF Next
<1> DEFINE q == req[r]
<1>3. /\ q.pc = "status.write" /\ q.ticket \in Tickets
      /\ Live(q.ticket) /\ ticket[q.ticket].status = q.seen
      /\ ticket' = [ticket EXCEPT ![q.ticket] = Moved(@, q.seen, q.to)]
      /\ <<q.seen, q.to>> \in Transitions
  BY <1>1, <1>2 DEF StatusCommit, StatusCanCommit, RequestsSound, RequestSound
<1>4. q.ticket = t
  BY <1>1, <1>3
<1>5. ticket'[t].status = q.to
  BY <1>1, <1>3, <1>4 DEF Moved, TicketRow
<1>6. req'[r] # q
  <2>1. req'[r].pc # "status.write"
    BY <1>1, <1>2 DEF StatusCommit, RequestRow, Idle
  <2>2. QED
    BY <1>3, <2>1
<1>7. q.role = "EndUser" => /\ ticket[t].requester = q.by
                            /\ ticket[t].status = "Resolved" /\ q.to = "Closed"
  BY <1>1, <1>3, <1>4 DEF RequestsAuthorised, RequestAuthorised
<1>8. QED
  BY <1>3, <1>4, <1>5, <1>6, <1>7 DEF MoveAuthorised

\* The checks that updateStatus makes on the row it has read hold of the row it writes:
\* every status move, of any ticket, by any of any number of concurrent requests, is a
\* permitted one made by somebody allowed to make it.
THEOREM StatusMovesCorrect == Spec => StatusMovesAuthorised
<1>1. Init => Authority
  BY TypedInit DEF Init, Authority, RequestsAuthorised, RequestAuthorised, Idle
<1>2. Authority /\ [Next]_vars =>
        [\A t \in Tickets : (Live(t) /\ Live(t)' /\ ticket'[t].status # ticket[t].status)
                               => MoveAuthorised(t)]_vars
  BY MoveStep
<1>3. QED
  BY <1>1, <1>2, AuthorityStep, PTL DEF Spec, StatusMovesAuthorised

-------------------------------------------------------------------------------
(* Seen from the status column and the status rows of the history, every  *)
(* step of every request is one atomic step of TicketWorkflow, or none.    *)

\* The abstract state, by name.
StatusBar  == [t \in Tickets |-> IF Live(t) THEN ticket[t].status ELSE None]
MovesBar   == [t \in Tickets |-> count[t]["status"]]
Entry(x)   == [seq |-> x.seq, from |-> x.from, to |-> x.to]
JournalBar == [t \in Tickets |-> {Entry(x) : x \in RowsOf(t, "status")}]

LEMMA WorkflowInitial == Init => Workflow!WorkflowInit
  BY DEF Init, Workflow!WorkflowInit, Live, RowsOf, OfField, Fields

\* A step that changes no status and inserts no status row, and may delete some.
LEMMA StutterOrStrike ==
  ASSUME \A t \in Tickets :
           /\ Live(t)' = Live(t)
           /\ Live(t) => ticket'[t].status = ticket[t].status
           /\ count'[t]["status"] = count[t]["status"]
           /\ OfField(trail'[t], "status") \subseteq OfField(trail[t], "status")
  PROVE  Workflow!WorkflowNext
<1>1. Workflow!StrikeOut
  BY DEF Workflow!StrikeOut, RowsOf, Live
<1>2. QED
  BY <1>1 DEF Workflow!WorkflowNext

\* A status row is inserted and the status column follows it.
LEMMA MoveOrOpen ==
  ASSUME Typed, NEW t \in Tickets, NEW from, NEW to \in Statuses, NEW by,
         Record(t, "status", from, to, by),
         StatusBar[t] = from, phase'[t] = "live", ticket'[t].status = to,
         \A x \in Tickets : x # t => /\ phase'[x] = phase[x]
                                     /\ ticket'[x].status = ticket[x].status,
         \/ ~Live(t) /\ from = None /\ to = "Open"
         \/ Live(t) /\ <<from, to>> \in Transitions
  PROVE  Workflow!WorkflowNext
<1>1. /\ trail \in [Tickets -> SUBSET HistoryRows] /\ count \in [Tickets -> [Fields -> Nat]]
      /\ ticket \in [Tickets -> TicketRow]
  BY DEF Typed, TypeOK
<1> DEFINE row == HistoryRow(t, "status", from, to, by)
           line == [seq |-> MovesBar[t] + 1, from |-> from, to |-> to]
<1>2. Entry(row) = line /\ row.field = "status"
  BY DEF HistoryRow, Entry, MovesBar
<1> HIDE DEF row, line
<1>3. OfField(trail'[t], "status") = OfField(trail[t], "status") \cup {row}
  BY <1>1, <1>2 DEF Record, OfField, row
<1>4. \A x \in Tickets : x # t => trail'[x] = trail[x]
  BY <1>1 DEF Record
<1>5. \A x \in Tickets : {Entry(y) : y \in OfField(trail'[x], "status")}
                           = IF x = t THEN JournalBar[x] \cup {line} ELSE JournalBar[x]
  BY <1>2, <1>3, <1>4 DEF JournalBar, RowsOf
<1>6. JournalBar' = [JournalBar EXCEPT ![t] = @ \cup {line}]
  BY <1>5 DEF JournalBar, RowsOf, Entry
<1>7. MovesBar' = [MovesBar EXCEPT ![t] = @ + 1]
  BY <1>1 DEF MovesBar, Record, Fields
<1>8. StatusBar' = [StatusBar EXCEPT ![t] = to]
  BY DEF StatusBar, Live
<1>9. QED
  <2>1. Workflow!Enter(t, from, to)
    BY <1>6, <1>7
    DEF Workflow!Enter, Workflow!Line, JournalBar, MovesBar, Entry, line
  <2>2. CASE ~Live(t)
    <3>1. Workflow!Open(t)
      BY <1>8, <2>1, <2>2 DEF Workflow!Open, StatusBar
    <3>2. QED
      BY <3>1 DEF Workflow!WorkflowNext
  <2>3. CASE Live(t)
    <3>1. from # None
      BY <1>1, <2>3, NoneAssumption DEF StatusBar, TicketRow
    <3>2. Workflow!Move(t)
      BY <1>8, <2>1, <2>3, <3>1 DEF Workflow!Move, StatusBar
    <3>3. QED
      BY <3>2 DEF Workflow!WorkflowNext
  <2>4. QED
    BY <2>2, <2>3

LEMMA CreateRefines ==
  ASSUME Typed, NEW r \in Requests, CreateCommit(r)
  PROVE  Workflow!WorkflowNext
<1> DEFINE q == req[r]
           t == req[r].ticket
<1>1. /\ t \in Tickets /\ ~Live(t)
      /\ ticket' = [ticket EXCEPT ![t] = NewTicket(q)]
      /\ phase' = [phase EXCEPT ![t] = "live"]
      /\ Record(t, "status", None, "Open", q.by)
  BY DEF CreateCommit, Live, Typed, RequestsSound, RequestSound
<1>2. /\ ticket \in [Tickets -> TicketRow]
      /\ phase \in [Tickets -> {"never", "live", "deleted"}]
  BY DEF Typed, TypeOK
<1>3. NewTicket(q).status = "Open"
  BY DEF NewTicket, Blank
<1>4. /\ phase'[t] = "live" /\ ticket'[t].status = "Open" /\ StatusBar[t] = None
      /\ \A x \in Tickets : x # t => /\ phase'[x] = phase[x]
                                     /\ ticket'[x].status = ticket[x].status
  BY <1>1, <1>2, <1>3 DEF Live, StatusBar
<1>5. QED
  BY <1>1, <1>4, MoveOrOpen DEF Statuses

LEMMA StatusRefines ==
  ASSUME Typed, NEW r \in Requests, StatusCommit(r)
  PROVE  Workflow!WorkflowNext
<1> DEFINE q == req[r]
           t == req[r].ticket
<1>1. /\ t \in Tickets /\ Live(t) /\ ticket[t].status = q.seen
      /\ <<q.seen, q.to>> \in Transitions
      /\ ticket' = [ticket EXCEPT ![t] = Moved(ticket[t], q.seen, q.to)]
      /\ phase' = phase
      /\ Record(t, "status", q.seen, q.to, q.by)
  BY DEF StatusCommit, StatusCanCommit, Typed, TypeOK, RequestsSound, RequestSound
<1>2. ticket \in [Tickets -> TicketRow]
  BY DEF Typed, TypeOK
<1>3. q.to \in Statuses /\ StatusBar[t] = q.seen
  BY <1>1 DEF Transitions, Statuses, StatusBar
<1>4. Moved(ticket[t], q.seen, q.to).status = q.to
  BY <1>1, <1>2 DEF Moved, TicketRow
<1>5. /\ phase'[t] = "live" /\ ticket'[t].status = q.to
      /\ \A x \in Tickets : x # t => /\ phase'[x] = phase[x]
                                     /\ ticket'[x].status = ticket[x].status
  BY <1>1, <1>2, <1>4 DEF Live
<1>6. QED
  BY <1>1, <1>3, <1>5, MoveOrOpen

LEMMA RemoveTicket ==
  ASSUME Typed, NEW t \in Tickets, Live(t),
         trail'[t] = {}, phase'[t] = "deleted", count'[t]["status"] = 0,
         \A x \in Tickets : x # t => /\ trail'[x] = trail[x] /\ count'[x] = count[x]
                                     /\ ticket'[x] = ticket[x] /\ phase'[x] = phase[x]
  PROVE  Workflow!WorkflowNext
<1>1. StatusBar' = [StatusBar EXCEPT ![t] = None]
  BY DEF StatusBar, Live
<1>2. MovesBar' = [MovesBar EXCEPT ![t] = 0]
  BY DEF MovesBar
<1>3. JournalBar' = [JournalBar EXCEPT ![t] = {}]
  BY DEF JournalBar, RowsOf, OfField
<1>4. StatusBar[t] # None
  BY NoneAssumption DEF StatusBar, TicketRow, Typed, TypeOK
<1>5. Workflow!Remove(t)
  BY <1>1, <1>2, <1>3, <1>4 DEF Workflow!Remove, StatusBar, MovesBar, JournalBar, Entry
<1>6. QED
  BY <1>5 DEF Workflow!WorkflowNext

LEMMA DeleteRefines ==
  ASSUME Typed, NEW r \in Requests, DeleteCommit(r)
  PROVE  Workflow!WorkflowNext
<1> DEFINE none == [f \in Fields |-> 0]
<1>1. PICK t \in Tickets : t = req[r].ticket
  BY DEF DeleteCommit, Typed, TypeOK, RequestsSound, RequestSound
<1>2. /\ ticket \in [Tickets -> TicketRow]
      /\ phase \in [Tickets -> {"never", "live", "deleted"}]
      /\ trail \in [Tickets -> SUBSET HistoryRows]
      /\ count \in [Tickets -> [Fields -> Nat]]
  BY DEF Typed, TypeOK
<1>3. /\ Live(t)
      /\ trail' = [trail EXCEPT ![t] = {}] /\ phase' = [phase EXCEPT ![t] = "deleted"]
      /\ ticket' = [ticket EXCEPT ![t] = Blank] /\ count' = [count EXCEPT ![t] = none]
  BY <1>1 DEF DeleteCommit
<1>4. none["status"] = 0
  BY DEF Fields
<1> HIDE DEF none
<1>5. /\ trail'[t] = {} /\ phase'[t] = "deleted" /\ count'[t]["status"] = 0
      /\ \A x \in Tickets : x # t => /\ trail'[x] = trail[x] /\ count'[x] = count[x]
                                     /\ ticket'[x] = ticket[x] /\ phase'[x] = phase[x]
  BY <1>2, <1>3, <1>4
<1>6. QED
  BY <1>3, <1>5, RemoveTicket

\* The steps that do not touch the status.
LEMMA SilentRefines ==
  ASSUME Typed, NEW r \in Requests, ReopenWriteSla(r) \/ AssignCommit(r) \/ PriorityCommit(r)
  PROVE  Workflow!WorkflowNext
<1> DEFINE q == req[r]
           t == req[r].ticket
<1>1. /\ t \in Tickets
      /\ ticket \in [Tickets -> TicketRow]
      /\ trail \in [Tickets -> SUBSET HistoryRows]
      /\ count \in [Tickets -> [Fields -> Nat]]
  BY DEF ReopenWriteSla, AssignCommit, PriorityCommit, Typed, TypeOK, RequestsSound,
         RequestSound
<1>2. ASSUME NEW f \in {"assignedTo", "priority"}, NEW from, NEW to, NEW by,
             Record(t, f, from, to, by)
      PROVE  \A x \in Tickets : /\ count'[x]["status"] = count[x]["status"]
                                /\ OfField(trail'[x], "status") = OfField(trail[x], "status")
  <2> DEFINE row == HistoryRow(t, f, from, to, by)
  <2>1. row.field = f /\ f # "status"
    BY DEF HistoryRow
  <2>2. trail' = [trail EXCEPT ![t] = @ \cup {row}] /\ count' = [count EXCEPT ![t][f] = @ + 1]
    BY <1>2 DEF Record
  <2> HIDE DEF row
  <2>3. QED
    BY <1>1, <2>1, <2>2 DEF OfField, Fields
<1>3. UNCHANGED phase /\ \A x \in Tickets :
        /\ count'[x]["status"] = count[x]["status"]
        /\ OfField(trail'[x], "status") = OfField(trail[x], "status")
  BY <1>2 DEF ReopenWriteSla, AssignCommit, PriorityCommit
<1>4. \A x \in Tickets : ticket'[x].status = ticket[x].status
  <2>1. CASE ReopenWriteSla(r)
    <3>1. \A row \in TicketRow : \A a, b : WithSla(row, a, b).status = row.status
      BY DEF WithSla, TicketRow
    <3>2. QED
      BY <1>1, <2>1, <3>1 DEF ReopenWriteSla
  <2>2. CASE AssignCommit(r)
    BY <1>1, <2>2 DEF AssignCommit, TicketRow
  <2>3. CASE PriorityCommit(r)
    <3> DEFINE new == [WithSla(ticket[t], q.due, q.sla) EXCEPT !.priority = q.to]
    <3>1. new.status = ticket[t].status
      BY <1>1 DEF WithSla, TicketRow
    <3>2. ticket' = [ticket EXCEPT ![t] = new]
      BY <1>1, <2>3 DEF PriorityCommit
    <3> HIDE DEF new
    <3>3. QED
      BY <1>1, <3>1, <3>2
  <2>4. QED
    BY <2>1, <2>2, <2>3
<1>5. QED
  BY <1>3, <1>4, StutterOrStrike DEF Live

LEMMA AdministrationRefines ==
  ASSUME Typed, Administration
  PROVE  Workflow!WorkflowNext
<1>1. PICK u \in EditedUsers : UpdateUser(u) \/ DeleteUser(u)
  BY DEF Administration
<1>2. ticket \in [Tickets -> TicketRow]
  BY DEF Typed, TypeOK
<1>3. UNCHANGED <<phase, count>> /\ \A t \in Tickets : trail'[t] \subseteq trail[t]
  BY <1>1 DEF UpdateUser, DeleteUser, Purged, ticketVars
<1>4. \A t \in Tickets : ticket'[t].status = ticket[t].status
  BY <1>1, <1>2 DEF UpdateUser, DeleteUser, ticketVars, TicketRow
<1>5. QED
  BY <1>3, <1>4, StutterOrStrike DEF Live, OfField

LEMMA UnchangedRefines ==
  ASSUME UNCHANGED ticketVars
  PROVE  Workflow!WorkflowNext
  BY StutterOrStrike DEF ticketVars, Live, OfField

LEMMA StepRefines == Typed /\ [Next]_vars => [Workflow!WorkflowNext]_Workflow!workflowVars
<1> SUFFICES ASSUME Typed, [Next]_vars PROVE Workflow!WorkflowNext
  OBVIOUS
<1>1. ASSUME NEW r \in Requests, Handler(r) PROVE Workflow!WorkflowNext
  <2>1. CASE CreateCommit(r) \/ StatusCommit(r) \/ DeleteCommit(r)
    BY <2>1, CreateRefines, StatusRefines, DeleteRefines
  <2>2. CASE ReopenWriteSla(r) \/ AssignCommit(r) \/ PriorityCommit(r)
    BY <2>2, SilentRefines
  <2>3. CASE \/ CreateRead(r) \/ StatusRead(r) \/ AssignRead(r) \/ PriorityRead(r)
             \/ DeleteRead(r)
    BY <2>3, UnchangedRefines
    DEF CreateRead, StatusRead, AssignRead, PriorityRead, DeleteRead, Begin
  <2>4. CASE ReopenReadConfig(r) \/ AssignCheck(r) \/ PriorityReadConfig(r)
    BY <2>4, UnchangedRefines DEF ReopenReadConfig, AssignCheck, PriorityReadConfig
  <2>5. CASE \/ CreateAbort(r) \/ StatusAbort(r) \/ AssignAbort(r) \/ PriorityAbort(r)
             \/ DeleteAbort(r)
    BY <2>5, UnchangedRefines
    DEF CreateAbort, StatusAbort, AssignAbort, PriorityAbort, DeleteAbort, Abort
  <2>6. QED
    BY <1>1, <2>1, <2>2, <2>3, <2>4, <2>5 DEF Handler
<1>2. CASE Administration
  BY <1>2, AdministrationRefines
<1>3. CASE UNCHANGED vars
  BY <1>3, UnchangedRefines DEF vars, ticketVars
<1>4. QED
  BY <1>1, <1>2, <1>3 DEF Next

\* However their steps interleave, the handlers look like atomic moves of one ticket at a
\* time, each with its line in the journal: for every number of tickets and requests.
THEOREM Refinement == Spec => ImplementsWorkflow
<1>1. Init => Workflow!WorkflowInit
  BY WorkflowInitial
<1>2. QED
  BY <1>1, TypedInit, TypedStep, StepRefines, PTL
  DEF Spec, ImplementsWorkflow, Workflow!WorkflowSpec
===============================================================================
