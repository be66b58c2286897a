------------------------- MODULE TicketLifecycleProofs -------------------------
(***************************************************************************)
(* The safety properties of TicketLifecycle, for any number of tickets,    *)
(* users, priorities and concurrent requests, and without its bounds.      *)
(***************************************************************************)
EXTENDS TicketLifecycle, TLAPS

\* What the row of a live ticket holds beyond its types.
RowsSound ==
  \A t \in Tickets : Live(t) => ticket[t].priority \in Priorities

\* What a request remembers, by the step it is at.
RequestSound(q) ==
  /\ q.pc # "idle" => q.by \in Users /\ q.ticket \in Tickets
  /\ q.pc \in {"create.write", "reopen.config", "priority.config", "priority.write"}
       => q.to \in Priorities
  /\ q.pc = "reopen.write" => q.due \in Nat
  /\ q.pc = "status.write" => q.seen \in Statuses /\ <<q.seen, q.to>> \in Transitions
  /\ q.pc = "assign.check" => q.to \in Users
  /\ q.pc \in {"assign.check", "assign.write"}
       => q.to \in Users \cup {None} /\ q.seen \in Users \cup {None}
  /\ q.pc \in {"priority.config", "priority.write"} => q.seen \in Priorities

RequestsSound == \A r \in Requests : RequestSound(req[r])

Typed == TypeOK /\ RowsSound /\ RequestsSound

LEMMA IdleSound == Idle \in RequestRow /\ RequestSound(Idle)
  BY DEF Idle, RequestRow, RequestSound, Steps, Values

LEMMA TypedInit == Init => Typed
  BY TableAssumption, IdleSound
  DEF Init, Typed, TypeOK, RowsSound, RequestsSound, TicketRow, Blank, Live, Statuses, Fields

LEMMA ConfigType ==
  ASSUME TypeOK, NEW p \in Priorities
  PROVE  GetSLAConfig(p) \in Nat \cup {None}
  BY DEF TypeOK, GetSLAConfig, ConfigRow

LEMMA StatusAtType ==
  ASSUME NEW due \in Nat, NEW resolution \in Nat, NEW t \in Nat
  PROVE  StatusAt(due, resolution, t) \in SlaStatuses
  BY DEF StatusAt, SlaStatuses

\* One request takes a step; the others remember what they did.
LEMMA RequestStep ==
  ASSUME Typed, NEW r \in Requests, NEW q \in RequestRow, RequestSound(q),
         req' = [req EXCEPT ![r] = q]
  PROVE  req' \in [Requests -> RequestRow] /\ RequestsSound'
  BY DEF Typed, TypeOK, RequestsSound

LEMMA NewTicketType ==
  ASSUME NEW q \in RequestRow, q.by \in Users, q.to \in Priorities, now \in Nat
  PROVE  NewTicket(q) \in TicketRow /\ NewTicket(q).priority = q.to
<1>1. q.due \in Nat \cup {None}
  BY DEF RequestRow
<1>2. CASE q.due = None
  BY <1>2 DEF NewTicket, Blank, TicketRow, Statuses, SlaStatuses
<1>3. CASE q.due # None
  <2>1. now + q.due \in Nat
    BY <1>1, <1>3
  <2>2. QED
    BY <1>3, <2>1 DEF NewTicket, Blank, TicketRow, Statuses, SlaStatuses
<1>4. QED
  BY <1>2, <1>3

LEMMA WithSlaType ==
  ASSUME NEW row \in TicketRow, NEW due \in Nat \cup {None},
         NEW sla \in SlaStatuses \cup {None}
  PROVE  /\ WithSla(row, due, sla) \in TicketRow
         /\ WithSla(row, due, sla).priority = row.priority
  BY DEF WithSla, TicketRow

\* An audit row is added; the rest of the history stays.
LEMMA RecordStep ==
  ASSUME Typed, NEW t \in Tickets, NEW f \in Fields,
         NEW from \in Values, NEW to \in Values, NEW by \in Users,
         Record(t, f, from, to, by)
  PROVE  /\ trail' \in [Tickets -> SUBSET HistoryRows]
         /\ count' \in [Tickets -> [Fields -> Nat]]
<1>1. trail \in [Tickets -> SUBSET HistoryRows] /\ count \in [Tickets -> [Fields -> Nat]]
  BY DEF Typed, TypeOK
<1>2. HistoryRow(t, f, from, to, by) \in HistoryRows
  BY <1>1 DEF HistoryRow, HistoryRows
<1>3. QED
  BY <1>1, <1>2 DEF Record
LEMMA BeginStep ==
  ASSUME Typed, NEW r \in Requests, NEW pc \in Steps, NEW u \in Users,
         NEW role \in Roles \cup {None}, NEW t \in Tickets, NEW to \in Values,
         NEW seen \in Values, Begin(r, pc, u, role, t, to, seen),
         RequestSound([Idle EXCEPT !.pc = pc, !.by = u, !.role = role, !.ticket = t,
                                   !.to = to, !.seen = seen])
  PROVE  Typed'
<1> DEFINE q == [Idle EXCEPT !.pc = pc, !.by = u, !.role = role, !.ticket = t,
                             !.to = to, !.seen = seen]
<1>1. q \in RequestRow
  BY DEF RequestRow, Idle
<1>2. req' \in [Requests -> RequestRow] /\ RequestsSound'
  BY <1>1, RequestStep DEF Begin
<1>3. QED
  BY <1>2 DEF Begin, Typed, TypeOK, RowsSound, Live, ticketVars

LEMMA FinishStep ==
  ASSUME Typed, NEW r \in Requests, Finish(r)
  PROVE  req' \in [Requests -> RequestRow] /\ RequestsSound'
  BY IdleSound, RequestStep DEF Finish

LEMMA AbortStep ==
  ASSUME Typed, NEW r \in Requests, Abort(r)
  PROVE  Typed'
  BY FinishStep DEF Abort, Typed, TypeOK, RowsSound, Live, ticketVars

LEMMA CreateTyped ==
  ASSUME Typed, NEW r \in Requests, CreateRead(r) \/ CreateCommit(r) \/ CreateAbort(r)
  PROVE  Typed'
<1>1. CASE CreateRead(r)
  <2>1. PICK u \in Users, t \in Tickets, p \in Priorities :
          req' = [req EXCEPT ![r] = [Idle EXCEPT !.pc = "create.write", !.by = u,
                                                 !.ticket = t, !.to = p,
                                                 !.due = GetSLAConfig(p)]]
    BY <1>1 DEF CreateRead
  <2> DEFINE q == [Idle EXCEPT !.pc = "create.write", !.by = u, !.ticket = t, !.to = p,
                               !.due = GetSLAConfig(p)]
  <2>2. q \in RequestRow /\ RequestSound(q)
    BY ConfigType DEF Typed, RequestRow, RequestSound, Idle, Steps, Values
  <2>3. req' \in [Requests -> RequestRow] /\ RequestsSound'
    BY <2>1, <2>2, RequestStep
  <2>4. QED
    BY <1>1, <2>3 DEF CreateRead, Typed, TypeOK, RowsSound, Live, ticketVars
<1>2. CASE CreateCommit(r)
  <2> DEFINE q == req[r]
             t == req[r].ticket
  <2>1. /\ q \in RequestRow /\ q.by \in Users /\ t \in Tickets /\ q.to \in Priorities
    BY <1>2 DEF CreateCommit, Typed, TypeOK, RequestsSound, RequestSound
  <2>2. NewTicket(q) \in TicketRow /\ NewTicket(q).priority = q.to
    BY <2>1, NewTicketType DEF Typed, TypeOK
  <2>3. trail' \in [Tickets -> SUBSET HistoryRows] /\ count' \in [Tickets -> [Fields -> Nat]]
    BY <1>2, <2>1, RecordStep DEF CreateCommit, Fields, Values, Statuses
  <2>4. req' \in [Requests -> RequestRow] /\ RequestsSound'
    BY <1>2, FinishStep DEF CreateCommit
  <2>5. QED
    BY <1>2, <2>1, <2>2, <2>3, <2>4 DEF CreateCommit, Typed, TypeOK, RowsSound, Live
<1>3. CASE CreateAbort(r)
  BY <1>3, AbortStep DEF CreateAbort
<1>4. QED
  BY <1>1, <1>2, <1>3

LEMMA StatusTyped ==
  ASSUME Typed, NEW r \in Requests, StatusRead(r) \/ StatusCommit(r) \/ StatusAbort(r)
  PROVE  Typed'
<1>1. CASE StatusRead(r)
  <2>1. PICK u \in Users, t \in Tickets, to \in Statuses :
          /\ MayMove(u, t, to)
          /\ Begin(r, "status.write", u, user[u].role, t, to, ticket[t].status)
    BY <1>1 DEF StatusRead
  <2>2. ticket[t].status \in Statuses /\ user[u].role \in Roles
    BY DEF Typed, TypeOK, TicketRow, UserRow
  <2>3. RequestSound([Idle EXCEPT !.pc = "status.write", !.by = u, !.role = user[u].role,
                                  !.ticket = t, !.to = to, !.seen = ticket[t].status])
    BY <2>1, <2>2 DEF RequestSound, Idle, MayMove
  <2>4. QED
    BY <2>1, <2>2, <2>3, BeginStep DEF Steps, Values
<1>2. CASE StatusCommit(r)
  <2> DEFINE q == req[r]
             t == req[r].ticket
             q1 == IF Reopens(q.seen, q.to)
                     THEN [q EXCEPT !.pc = "reopen.config", !.to = ticket[t].priority]
                     ELSE Idle
  <2>1. /\ q \in RequestRow /\ q.by \in Users /\ t \in Tickets
        /\ q.seen \in Statuses /\ <<q.seen, q.to>> \in Transitions
    BY <1>2 DEF StatusCommit, Typed, TypeOK, RequestsSound, RequestSound
  <2>2. q.to \in Statuses
    BY <2>1 DEF Transitions, Statuses
  <2>3. /\ ticket[t] \in TicketRow /\ ticket[t].priority \in Priorities
    BY <1>2, <2>1 DEF StatusCommit, StatusCanCommit, Typed, TypeOK, RowsSound
  <2>4. /\ Moved(ticket[t], q.seen, q.to) \in TicketRow
        /\ Moved(ticket[t], q.seen, q.to).priority = ticket[t].priority
    BY <2>2, <2>3 DEF Moved, TicketRow
  <2>5. trail' \in [Tickets -> SUBSET HistoryRows] /\ count' \in [Tickets -> [Fields -> Nat]]
    BY <1>2, <2>1, <2>2, RecordStep DEF StatusCommit, Fields, Values
  <2>6. q1 \in RequestRow /\ RequestSound(q1)
    <3>1. CASE Reopens(q.seen, q.to)
      <4> DEFINE q2 == [q EXCEPT !.pc = "reopen.config", !.to = ticket[t].priority]
      <4>1. q2 \in RequestRow
        BY <2>1, <2>3 DEF RequestRow, Steps, Values
      <4>2. /\ q2.pc = "reopen.config" /\ q2.by = q.by
            /\ q2.ticket = q.ticket /\ q2.to = ticket[t].priority
        BY <2>1 DEF RequestRow
      <4>3. RequestSound(q2)
        BY <2>1, <2>3, <4>2 DEF RequestSound
      <4>4. QED
        BY <3>1, <4>1, <4>3
    <3>2. CASE ~Reopens(q.seen, q.to)
      BY <3>2, IdleSound
    <3>3. QED
      BY <3>1, <3>2
  <2>7. req' \in [Requests -> RequestRow] /\ RequestsSound'
    BY <1>2, <2>6, RequestStep DEF StatusCommit
  <2>8. QED
    BY <1>2, <2>1, <2>3, <2>4, <2>5, <2>7 DEF StatusCommit, Typed, TypeOK, RowsSound, Live
<1>3. CASE StatusAbort(r)
  BY <1>3, AbortStep DEF StatusAbort
<1>4. QED
  BY <1>1, <1>2, <1>3

LEMMA ReopenTyped ==
  ASSUME Typed, NEW r \in Requests, ReopenReadConfig(r) \/ ReopenWriteSla(r)
  PROVE  Typed'
<1> DEFINE q == req[r]
           t == req[r].ticket
<1>1. CASE ReopenReadConfig(r)
  <2> DEFINE due == GetSLAConfig(q.to)
             q1 == IF due = None THEN Idle ELSE [q EXCEPT !.pc = "reopen.write", !.due = due]
  <2>1. /\ q \in RequestRow /\ q.by \in Users /\ t \in Tickets /\ q.to \in Priorities
    BY <1>1 DEF ReopenReadConfig, Typed, TypeOK, RequestsSound, RequestSound
  <2>2. due \in Nat \cup {None}
    BY <2>1, ConfigType DEF Typed
  <2>3. q1 \in RequestRow /\ RequestSound(q1)
    <3>1. CASE due = None
      BY <3>1, IdleSound
    <3>2. CASE due # None
      <4> DEFINE q2 == [q EXCEPT !.pc = "reopen.write", !.due = due]
      <4>1. q2 \in RequestRow
        BY <2>1, <2>2 DEF RequestRow, Steps
      <4>2. q2.pc = "reopen.write" /\ q2.by = q.by /\ q2.ticket = q.ticket /\ q2.due = due
        BY <2>1 DEF RequestRow
      <4> HIDE DEF q2, due
      <4>3. RequestSound(q2)
        BY <2>1, <2>2, <3>2, <4>2 DEF RequestSound
      <4>4. QED
        BY <3>2, <4>1, <4>3 DEF q2
    <3>3. QED
      BY <3>1, <3>2
  <2>4. req' = [req EXCEPT ![r] = q1]
    BY <1>1 DEF ReopenReadConfig
  <2>5. req' \in [Requests -> RequestRow] /\ RequestsSound'
    BY <2>3, <2>4, RequestStep
  <2>6. QED
    BY <1>1, <2>5 DEF ReopenReadConfig, Typed, TypeOK, RowsSound, Live, ticketVars
<1>2. CASE ReopenWriteSla(r)
  <2>1. q.due \in Nat /\ t \in Tickets
    BY <1>2 DEF ReopenWriteSla, Typed, TypeOK, RequestsSound, RequestSound
  <2>2. /\ ticket' \in [Tickets -> TicketRow]
        /\ \A x \in Tickets : ticket'[x].priority = ticket[x].priority
    <3>1. now + q.due \in Nat /\ ticket \in [Tickets -> TicketRow]
      BY <2>1 DEF Typed, TypeOK
    <3>2. /\ WithSla(ticket[t], now + q.due, "OnTrack") \in TicketRow
          /\ WithSla(ticket[t], now + q.due, "OnTrack").priority = ticket[t].priority
      BY <2>1, <3>1, WithSlaType DEF SlaStatuses
    <3>3. QED
      BY <1>2, <2>1, <3>1, <3>2 DEF ReopenWriteSla
  <2>3. req' \in [Requests -> RequestRow] /\ RequestsSound'
    BY <1>2, FinishStep DEF ReopenWriteSla
  <2>4. QED
    BY <1>2, <2>2, <2>3 DEF ReopenWriteSla, Typed, TypeOK, RowsSound, Live
<1>3. QED
  BY <1>1, <1>2

LEMMA AssignTyped ==
  ASSUME Typed, NEW r \in Requests,
         AssignRead(r) \/ AssignCheck(r) \/ AssignCommit(r) \/ AssignAbort(r)
  PROVE  Typed'
<1> DEFINE q == req[r]
           t == req[r].ticket
<1>1. CASE AssignRead(r)
  <2>1. PICK u \in Users, x \in Tickets, to \in Users \cup {None} :
          Begin(r, IF to = None THEN "assign.write" ELSE "assign.check",
                u, None, x, to, ticket[x].assignee)
    BY <1>1 DEF AssignRead
  <2> DEFINE pc == IF to = None THEN "assign.write" ELSE "assign.check"
  <2>2. ticket[x].assignee \in Users \cup {None}
    BY DEF Typed, TypeOK, TicketRow
  <2>3. RequestSound([Idle EXCEPT !.pc = pc, !.by = u, !.role = None, !.ticket = x,
                                  !.to = to, !.seen = ticket[x].assignee])
    BY <2>2 DEF RequestSound, Idle
  <2>4. QED
    BY <2>1, <2>2, <2>3, BeginStep DEF Steps, Values
<1>2. CASE AssignCheck(r)
  <2> DEFINE q2 == [q EXCEPT !.pc = "assign.write"]
  <2>1. q \in RequestRow /\ RequestSound(q) /\ q.pc = "assign.check"
    BY <1>2 DEF AssignCheck, Typed, TypeOK, RequestsSound
  <2>2. q2 \in RequestRow
    BY <2>1 DEF RequestRow, Steps
  <2>3. /\ q2.pc = "assign.write" /\ q2.by = q.by /\ q2.ticket = q.ticket
        /\ q2.to = q.to /\ q2.seen = q.seen
    BY <2>1 DEF RequestRow
  <2>4. RequestSound(q2)
    BY <2>1, <2>3 DEF RequestSound
  <2>5. req' = [req EXCEPT ![r] = q2] \/ req' = [req EXCEPT ![r] = Idle]
    BY <1>2 DEF AssignCheck
  <2>6. req' \in [Requests -> RequestRow] /\ RequestsSound'
    BY <2>2, <2>4, <2>5, IdleSound, RequestStep
  <2>7. QED
    BY <1>2, <2>6 DEF AssignCheck, Typed, TypeOK, RowsSound, Live, ticketVars
<1>3. CASE AssignCommit(r)
  <2>1. /\ q.by \in Users /\ t \in Tickets
        /\ q.to \in Users \cup {None} /\ q.seen \in Users \cup {None}
    BY <1>3 DEF AssignCommit, Typed, TypeOK, RequestsSound, RequestSound
  <2>2. ticket \in [Tickets -> TicketRow]
    BY DEF Typed, TypeOK
  <2>3. /\ [ticket[t] EXCEPT !.assignee = q.to] \in TicketRow
        /\ [ticket[t] EXCEPT !.assignee = q.to].priority = ticket[t].priority
    BY <2>1, <2>2 DEF TicketRow
  <2>4. trail' \in [Tickets -> SUBSET HistoryRows] /\ count' \in [Tickets -> [Fields -> Nat]]
    BY <1>3, <2>1, RecordStep DEF AssignCommit, Fields, Values
  <2>5. req' \in [Requests -> RequestRow] /\ RequestsSound'
    BY <1>3, FinishStep DEF AssignCommit
  <2>6. ticket' = [ticket EXCEPT ![t] = [ticket[t] EXCEPT !.assignee = q.to]]
    BY <1>3, <2>1, <2>2 DEF AssignCommit
  <2>7. QED
    BY <1>3, <2>1, <2>3, <2>4, <2>5, <2>6 DEF AssignCommit, Typed, TypeOK, RowsSound, Live
<1>4. CASE AssignAbort(r)
  BY <1>4, AbortStep DEF AssignAbort
<1>5. QED
  BY <1>1, <1>2, <1>3, <1>4

LEMMA PriorityTyped ==
  ASSUME Typed, NEW r \in Requests,
         PriorityRead(r) \/ PriorityReadConfig(r) \/ PriorityCommit(r) \/ PriorityAbort(r)
  PROVE  Typed'
<1> DEFINE q == req[r]
           t == req[r].ticket
<1>1. CASE PriorityRead(r)
  <2>1. PICK u \in Users, x \in Tickets, to \in Priorities :
          /\ Live(x)
          /\ Begin(r, "priority.config", u, None, x, to, ticket[x].priority)
    BY <1>1 DEF PriorityRead
  <2>2. ticket[x].priority \in Priorities
    BY <2>1 DEF Typed, RowsSound
  <2>3. RequestSound([Idle EXCEPT !.pc = "priority.config", !.by = u, !.role = None,
                                  !.ticket = x, !.to = to, !.seen = ticket[x].priority])
    BY <2>2 DEF RequestSound, Idle
  <2>4. QED
    BY <2>1, <2>2, <2>3, BeginStep DEF Steps, Values
<1>2. CASE PriorityReadConfig(r)
  <2> DEFINE resolution == GetSLAConfig(q.to)
             due == ticket[t].createdAt + resolution
             due1 == IF resolution = None THEN None ELSE due
             sla1 == IF resolution = None THEN None ELSE StatusAt(due, resolution, now)
             q2 == [q EXCEPT !.pc = "priority.write", !.due = due1, !.sla = sla1]
  <2>1. /\ q \in RequestRow /\ RequestSound(q) /\ q.pc = "priority.config"
        /\ t \in Tickets /\ q.to \in Priorities
    BY <1>2 DEF PriorityReadConfig, Typed, TypeOK, RequestsSound, RequestSound
  <2>2. resolution \in Nat \cup {None}
    BY <2>1, ConfigType DEF Typed
  <2>3. now \in Nat /\ ticket[t].createdAt \in Nat
    BY <2>1 DEF Typed, TypeOK, TicketRow
  <2>4. due1 \in Nat \cup {None} /\ sla1 \in SlaStatuses \cup {None}
    <3>1. CASE resolution = None
      BY <3>1
    <3>2. CASE resolution # None
      <4> HIDE DEF resolution
      <4>1. due \in Nat
        BY <2>2, <2>3, <3>2
      <4>2. QED
        BY <2>2, <2>3, <3>2, <4>1, StatusAtType
    <3>3. QED
      BY <3>1, <3>2
  <2>5. req' = [req EXCEPT ![r] = q2]
    BY <1>2 DEF PriorityReadConfig
  <2> HIDE DEF due1, sla1
  <2>6. q2 \in RequestRow
    BY <2>1, <2>4 DEF RequestRow, Steps
  <2>7. /\ q2.pc = "priority.write" /\ q2.by = q.by /\ q2.ticket = q.ticket
        /\ q2.to = q.to /\ q2.seen = q.seen
    BY <2>1 DEF RequestRow
  <2>8. RequestSound(q2)
    BY <2>1, <2>7 DEF RequestSound
  <2>9. req' \in [Requests -> RequestRow] /\ RequestsSound'
    BY <2>5, <2>6, <2>8, RequestStep
  <2>10. QED
    BY <1>2, <2>9 DEF PriorityReadConfig, Typed, TypeOK, RowsSound, Live, ticketVars
<1>3. CASE PriorityCommit(r)
  <2> DEFINE row == [WithSla(ticket[t], q.due, q.sla) EXCEPT !.priority = q.to]
  <2>1. /\ q \in RequestRow /\ q.by \in Users /\ t \in Tickets
        /\ q.to \in Priorities /\ q.seen \in Priorities
    BY <1>3 DEF PriorityCommit, Typed, TypeOK, RequestsSound, RequestSound
  <2>2. ticket \in [Tickets -> TicketRow]
    BY DEF Typed, TypeOK
  <2>3. WithSla(ticket[t], q.due, q.sla) \in TicketRow
    BY <2>1, <2>2, WithSlaType DEF RequestRow
  <2>4. row \in TicketRow /\ row.priority = q.to
    BY <2>1, <2>3 DEF TicketRow
  <2>5. trail' \in [Tickets -> SUBSET HistoryRows] /\ count' \in [Tickets -> [Fields -> Nat]]
    BY <1>3, <2>1, RecordStep DEF PriorityCommit, Fields, Values
  <2>6. req' \in [Requests -> RequestRow] /\ RequestsSound'
    BY <1>3, FinishStep DEF PriorityCommit
  <2>7. ticket' = [ticket EXCEPT ![t] = row]
    BY <1>3, <2>1, <2>2 DEF PriorityCommit
  <2> HIDE DEF row
  <2>8. QED
    BY <1>3, <2>1, <2>4, <2>5, <2>6, <2>7 DEF PriorityCommit, Typed, TypeOK, RowsSound, Live
<1>4. CASE PriorityAbort(r)
  BY <1>4, AbortStep DEF PriorityAbort
<1>5. QED
  BY <1>1, <1>2, <1>3, <1>4

LEMMA DeleteTyped ==
  ASSUME Typed, NEW r \in Requests, DeleteRead(r) \/ DeleteCommit(r) \/ DeleteAbort(r)
  PROVE  Typed'
<1>1. CASE DeleteRead(r)
  <2>1. PICK u \in Users, t \in Tickets : Begin(r, "delete.write", u, None, t, None, None)
    BY <1>1 DEF DeleteRead
  <2>2. RequestSound([Idle EXCEPT !.pc = "delete.write", !.by = u, !.role = None,
                                  !.ticket = t, !.to = None, !.seen = None])
    BY DEF RequestSound, Idle
  <2>3. QED
    BY <2>1, <2>2, BeginStep DEF Steps, Values
<1>2. CASE DeleteCommit(r)
  <2>1. Blank \in TicketRow
    BY DEF Blank, TicketRow, Statuses
  <2>2. req' \in [Requests -> RequestRow] /\ RequestsSound'
    BY <1>2, FinishStep DEF DeleteCommit
  <2>3. QED
    BY <1>2, <2>1, <2>2 DEF DeleteCommit, Typed, TypeOK, RowsSound, Live
<1>3. CASE DeleteAbort(r)
  BY <1>3, AbortStep DEF DeleteAbort
<1>4. QED
  BY <1>1, <1>2, <1>3

LEMMA UserTyped ==
  ASSUME Typed, Administration
  PROVE  Typed'
<1>1. PICK u \in EditedUsers : UpdateUser(u) \/ DeleteUser(u)
  BY DEF Administration
<1>2. u \in Users /\ EditedRoles \subseteq Roles
  BY TableAssumption
<1>3. user \in [Users -> UserRow] /\ ticket \in [Tickets -> TicketRow]
  BY DEF Typed, TypeOK
<1>4. CASE UpdateUser(u)
  <2>1. PICK role \in EditedRoles, active \in BOOLEAN :
          user' = [user EXCEPT ![u].role = role, ![u].active = active]
    BY <1>4 DEF UpdateUser
  <2>2. user' \in [Users -> UserRow]
    BY <1>2, <1>3, <2>1 DEF UserRow
  <2>3. QED
    BY <1>4, <2>2 DEF UpdateUser, Typed, TypeOK, RowsSound, RequestsSound, Live, ticketVars
<1>5. CASE DeleteUser(u)
  <2>1. user' \in [Users -> UserRow]
    BY <1>2, <1>3, <1>5 DEF DeleteUser, NoUser, UserRow, Roles
  <2>2. trail' \in [Tickets -> SUBSET HistoryRows]
    BY <1>5 DEF DeleteUser, Purged, Typed, TypeOK
  <2>3. ticket' \in [Tickets -> TicketRow] /\ RowsSound'
    <3>1. \A t \in Tickets : /\ [ticket[t] EXCEPT !.assignee = None] \in TicketRow
                             /\ [ticket[t] EXCEPT !.assignee = None].priority
                                  = ticket[t].priority
      BY <1>3 DEF TicketRow
    <3>2. QED
      BY <1>3, <1>5, <3>1 DEF DeleteUser, Typed, RowsSound, Live
  <2>4. QED
    BY <1>5, <2>1, <2>2, <2>3 DEF DeleteUser, Typed, TypeOK, RequestsSound
<1>6. QED
  BY <1>1, <1>4, <1>5

LEMMA TypedStep == Typed /\ [Next]_vars => Typed'
<1> SUFFICES ASSUME Typed, [Next]_vars PROVE Typed'
  OBVIOUS
<1>1. ASSUME NEW r \in Requests, Handler(r) PROVE Typed'
  BY <1>1, CreateTyped, StatusTyped, ReopenTyped, AssignTyped, PriorityTyped, DeleteTyped
  DEF Handler
<1>2. CASE Administration
  BY <1>2, UserTyped
<1>3. CASE UNCHANGED vars
  BY <1>3 DEF vars, Typed, TypeOK, RowsSound, RequestsSound, Live
<1>4. QED
  BY <1>1, <1>2, <1>3 DEF Next

\* Whatever requests interleave, the tables and the requests keep their types.
THEOREM TypeCorrect == Spec => []TypeOK
<1>1. Typed => TypeOK
  BY DEF Typed
<1>2. QED
  BY TypedInit, TypedStep, <1>1, PTL DEF Spec
===============================================================================
