---------------------------- MODULE TicketLifecycle ----------------------------
(***************************************************************************)
(* The ticket handlers of TicketsService, run by concurrent HTTP requests  *)
(* over one PostgreSQL database (READ COMMITTED).  A handler is a sequence *)
(* of steps: every read that a later write relies on is a step of its own, *)
(* and a transaction's writes are one step, taken at its commit.  A row    *)
(* lock makes the WHERE clause of an updateMany see the last committed     *)
(* row, so that step tests the row as it is then.                          *)
(*                                                                         *)
(* SLA configurations and the clock are part of the state because the      *)
(* handlers read them; only module SlaEngine changes them.                 *)
(***************************************************************************)
EXTENDS SlaRules, FiniteSets

CONSTANTS
  Tickets,       \* ticket ids (uuids: an id is never used twice)
  Users,         \* user ids
  Requests,      \* HTTP requests in flight at the same time
  Priorities,    \* the Priority enum
  None,          \* SQL NULL
  EditedUsers,   \* bound: the users an administrator edits or deletes
  EditedRoles,   \* bound: the roles an administrator gives them
  MaxRows,       \* bound: audit rows of one ticket
  MaxFieldRows,  \* bound: of them, for each field
  UserTable0,    \* the users table at the start
  SlaTable0      \* the sla_configs table at the start

Statuses == {"Open", "InProgress", "OnHold", "Resolved", "Closed"}
Roles    == {"EndUser", "ITSupport", "Admin"}
Support  == {"ITSupport", "Admin"}
Fields   == {"status", "assignedTo", "priority"}

\* The columns of users and sla_configs that the handlers read.
UserRow   == [exists : BOOLEAN, active : BOOLEAN, role : Roles]
ConfigRow == [response : Nat, resolution : Nat, active : BOOLEAN]

ASSUME NoneAssumption ==
  None \notin Users \cup Priorities \cup Statuses \cup SlaStatuses \cup Nat

ASSUME TableAssumption ==
  /\ UserTable0 \in [Users -> UserRow]
  /\ SlaTable0 \in [Priorities -> ConfigRow \cup {None}]
  /\ EditedUsers \subseteq Users
  /\ EditedRoles \subseteq Roles

\* VALID_TRANSITIONS.
Transitions ==
  {<<"Open", "InProgress">>,
   <<"InProgress", "OnHold">>, <<"InProgress", "Resolved">>,
   <<"OnHold", "InProgress">>,
   <<"Resolved", "Closed">>,
   <<"Closed", "Open">>}

VARIABLES
  phase,    \* phase[t]: the row has not been inserted, is there, was deleted
  ticket,   \* ticket[t]: the row of table tickets
  trail,    \* trail[t]: the rows of table ticket_history for t
  count,    \* count[t][f]: how many rows were inserted in it for field f
  user,     \* user[u]: the row of table users
  config,   \* config[p]: the row of table sla_configs for priority p, or None
  now,      \* the clock, in minutes
  req       \* req[r]: where request r stands and what it has read

ticketVars == <<phase, ticket, trail, count>>
vars       == <<phase, ticket, trail, count, user, config, now, req>>

\* resolvedAt and closedAt are TRUE when the column holds a date.
Blank ==
  [status |-> "Open", priority |-> None, requester |-> None, assignee |-> None,
   resolvedAt |-> FALSE, closedAt |-> FALSE,
   createdAt |-> 0, slaDueAt |-> None, slaStatus |-> None]

Idle ==
  [pc |-> "idle", by |-> None, role |-> None, ticket |-> None,
   to |-> None, seen |-> None, due |-> None, sla |-> None]

Init ==
  /\ phase  = [t \in Tickets |-> "never"]
  /\ ticket = [t \in Tickets |-> Blank]
  /\ trail  = [t \in Tickets |-> {}]
  /\ count  = [t \in Tickets |-> [f \in Fields |-> 0]]
  /\ user   = UserTable0
  /\ config = SlaTable0
  /\ now    = 0
  /\ req    = [r \in Requests |-> Idle]

-------------------------------------------------------------------------------
Live(t) == phase[t] = "live"

\* JwtStrategy.validate: the token's user is there and active.
Authenticated(u) == user[u].exists /\ user[u].active

\* SLAService.getSLAConfig: the resolution time of an active configuration.
GetSLAConfig(p) ==
  IF config[p] # None /\ config[p].active THEN config[p].resolution ELSE None

RowsWritten(t) == count[t]["status"] + count[t]["assignedTo"] + count[t]["priority"]
HasRoom(t, f) == RowsWritten(t) < MaxRows /\ count[t][f] < MaxFieldRows[f]

\* Faulty variant: the row is labelled with the column's name, not the field's.
HistoryRowByColumn(t, f, from, to, by) ==
  [field |-> IF f = "assignedTo" THEN "assignedToId" ELSE f,
   seq |-> count[t][f] + 1, from |-> from, to |-> to, by |-> by]

\* tx.ticketHistory.create: the row that records one change of one field.
HistoryRow(t, f, from, to, by) ==
  [field |-> f, seq |-> count[t][f] + 1, from |-> from, to |-> to, by |-> by]

Record(t, f, from, to, by) ==
  /\ trail' = [trail EXCEPT ![t] = @ \cup {HistoryRow(t, f, from, to, by)}]
  /\ count' = [count EXCEPT ![t][f] = @ + 1]

\* A handler that throws, or whose transaction is rolled back, just ends.
Finish(r) == req' = [req EXCEPT ![r] = Idle]
Abort(r)  == Finish(r) /\ UNCHANGED <<ticketVars, user, config, now>>

\* A request of user u on ticket t reaches its next step, `pc`.  Only updateStatus
\* takes the role the guard read along.
Begin(r, pc, u, role, t, to, seen) ==
  /\ req[r].pc = "idle"
  /\ Authenticated(u)
  /\ req' = [req EXCEPT ![r] = [Idle EXCEPT !.pc = pc, !.by = u, !.role = role, !.ticket = t,
                                            !.to = to, !.seen = seen]]
  /\ UNCHANGED <<ticketVars, user, config, now>>

-------------------------------------------------------------------------------
(* POST /tickets: the SLA configuration is read before the transaction.     *)

CreateRead(r) ==
  \E u \in Users, t \in Tickets, p \in Priorities :
    /\ phase[t] = "never"
    /\ \A q \in Requests : req[q].ticket # t
    /\ Authenticated(u)
    /\ req[r].pc = "idle"
    /\ req' = [req EXCEPT ![r] = [Idle EXCEPT !.pc = "create.write", !.by = u, !.ticket = t,
                                              !.to = p, !.due = GetSLAConfig(p)]]
    /\ UNCHANGED <<ticketVars, user, config, now>>

\* The row that createTicketWithNumber inserts.
NewTicket(q) ==
  [Blank EXCEPT !.priority  = q.to,
                !.requester = q.by,
                !.createdAt = now,
                !.slaDueAt  = IF q.due = None THEN None ELSE now + q.due,
                !.slaStatus = IF q.due = None THEN None ELSE "OnTrack"]

CreateCommit(r) ==
  LET q == req[r]
      t == req[r].ticket
  IN  /\ q.pc = "create.write"
      /\ phase[t] = "never"
      /\ user[q.by].exists
      /\ phase'  = [phase EXCEPT ![t] = "live"]
      /\ ticket' = [ticket EXCEPT ![t] = NewTicket(q)]
      /\ Record(t, "status", None, "Open", q.by)
      /\ Finish(r)
      /\ UNCHANGED <<user, config, now>>

\* The requester was deleted meanwhile: a foreign key fails.
CreateAbort(r) ==
  /\ req[r].pc = "create.write"
  /\ ~user[req[r].by].exists
  /\ Abort(r)

-------------------------------------------------------------------------------
(* PATCH /tickets/:id/status.                                               *)

\* Faulty variant: end users are not held to closing their own resolved tickets.
MayMoveAnyRole(u, t, to) == <<ticket[t].status, to>> \in Transitions

\* The checks of updateStatus on the row it has read.
MayMove(u, t, to) ==
  /\ user[u].role = "EndUser" =>
       /\ ticket[t].requester = u
       /\ to = "Closed"
       /\ ticket[t].status = "Resolved"
  /\ <<ticket[t].status, to>> \in Transitions

StatusRead(r) ==
  \E u \in Users, t \in Tickets, to \in Statuses :
    /\ Live(t) /\ HasRoom(t, "status")
    /\ MayMove(u, t, to)
    /\ Begin(r, "status.write", u, user[u].role, t, to, ticket[t].status)

\* Faulty variant: a reopening clears closedAt only.
MovedKeepsResolvedAt(row, from, to) ==
  [row EXCEPT
     !.status     = to,
     !.resolvedAt = @ \/ to = "Resolved",
     !.closedAt   = IF from = "Closed" /\ to # "Closed" THEN FALSE
                    ELSE @ \/ to = "Closed"]

\* updateData: the status and the two dates that go with it.
Moved(row, from, to) ==
  [row EXCEPT
     !.status     = to,
     !.resolvedAt = IF from = "Closed" /\ to # "Closed" THEN FALSE
                    ELSE @ \/ to = "Resolved",
     !.closedAt   = IF from = "Closed" /\ to # "Closed" THEN FALSE
                    ELSE @ \/ to = "Closed"]

\* Faulty variant: the update has no condition but the id.
StatusCanCommitById(q) == Live(q.ticket) /\ user[q.by].exists

\* updateMany WHERE id AND status = oldStatus, and the history row's key to users.
StatusCanCommit(q) ==
  /\ Live(q.ticket)
  /\ ticket[q.ticket].status = q.seen
  /\ user[q.by].exists

Reopens(from, to) == from \in {"Closed", "Resolved"} /\ to \notin {"Closed", "Resolved"}

StatusCommit(r) ==
  LET q == req[r]
      t == req[r].ticket
  IN  /\ q.pc = "status.write"
      /\ StatusCanCommit(q)
      /\ ticket' = [ticket EXCEPT ![t] = Moved(@, q.seen, q.to)]
      /\ Record(t, "status", q.seen, q.to, q.by)
      /\ req' = [req EXCEPT ![r] =
                   IF Reopens(q.seen, q.to)
                     THEN [q EXCEPT !.pc = "reopen.config", !.to = ticket[t].priority]
                     ELSE Idle]
      /\ UNCHANGED <<phase, user, config, now>>

StatusAbort(r) ==
  /\ req[r].pc = "status.write"
  /\ ~StatusCanCommit(req[r])
  /\ Abort(r)

\* After the commit of a reopening: read the configuration of the priority the
\* transaction saw ...
ReopenReadConfig(r) ==
  /\ req[r].pc = "reopen.config"
  /\ LET due == GetSLAConfig(req[r].to)
     IN  req' = [req EXCEPT ![r] = IF due = None THEN Idle
                                   ELSE [@ EXCEPT !.pc = "reopen.write", !.due = due]]
  /\ UNCHANGED <<ticketVars, user, config, now>>

WithSla(row, due, sla) == [row EXCEPT !.slaDueAt = due, !.slaStatus = sla]

\* ... and write a fresh deadline, whatever the row looks like by now.  If the row
\* is gone the error is swallowed.
ReopenWriteSla(r) ==
  LET q == req[r]
      t == req[r].ticket
  IN  /\ q.pc = "reopen.write"
      /\ ticket' = IF Live(t)
                     THEN [ticket EXCEPT ![t] = WithSla(@, now + q.due, "OnTrack")]
                     ELSE ticket
      /\ Finish(r)
      /\ UNCHANGED <<phase, trail, count, user, config, now>>

-------------------------------------------------------------------------------
(* PATCH /tickets/:id/assign.                                               *)

AssignRead(r) ==
  \E u \in Users, t \in Tickets, to \in Users \cup {None} :
    /\ Live(t) /\ HasRoom(t, "assignedTo")
    /\ user[u].role \in Support
    /\ Begin(r, IF to = None THEN "assign.write" ELSE "assign.check",
             u, None, t, to, ticket[t].assignee)

\* Inside the transaction: the assignee exists, is active and works in support.
AssignCheck(r) ==
  /\ req[r].pc = "assign.check"
  /\ req' = [req EXCEPT ![r] =
               IF Authenticated(@.to) /\ user[@.to].role # "EndUser"
                 THEN [@ EXCEPT !.pc = "assign.write"] ELSE Idle]
  /\ UNCHANGED <<ticketVars, user, config, now>>

\* Faulty variant: the update has no condition but the id.
AssignCanCommitById(q) ==
  /\ Live(q.ticket)
  /\ user[q.by].exists
  /\ q.to # None => user[q.to].exists

\* updateMany WHERE id AND assignedToId = oldAssigneeId, and two foreign keys.
AssignCanCommit(q) ==
  /\ Live(q.ticket)
  /\ ticket[q.ticket].assignee = q.seen
  /\ user[q.by].exists
  /\ q.to # None => user[q.to].exists

AssignCommit(r) ==
  LET q == req[r]
      t == req[r].ticket
  IN  /\ q.pc = "assign.write"
      /\ AssignCanCommit(q)
      /\ ticket' = [ticket EXCEPT ![t].assignee = q.to]
      /\ Record(t, "assignedTo", q.seen, q.to, q.by)
      /\ Finish(r)
      /\ UNCHANGED <<phase, user, config, now>>

AssignAbort(r) ==
  /\ req[r].pc = "assign.write"
  /\ ~AssignCanCommit(req[r])
  /\ Abort(r)

-------------------------------------------------------------------------------
(* PATCH /tickets/:id/priority: the ticket and the configuration are read   *)
(* outside the transaction, and the update has no condition but the id.     *)

PriorityRead(r) ==
  \E u \in Users, t \in Tickets, to \in Priorities :
    /\ Live(t) /\ HasRoom(t, "priority")
    /\ user[u].role \in Support
    /\ Begin(r, "priority.config", u, None, t, to, ticket[t].priority)

\* createdAt never changes, so reading it here is reading the row read before.
PriorityReadConfig(r) ==
  LET q == req[r]
      resolution == GetSLAConfig(req[r].to)
      due == ticket[req[r].ticket].createdAt + resolution
  IN  /\ q.pc = "priority.config"
      /\ req' = [req EXCEPT ![r] =
                   [q EXCEPT !.pc  = "priority.write",
                             !.due = IF resolution = None THEN None ELSE due,
                             !.sla = IF resolution = None THEN None
                                     ELSE StatusAt(due, resolution, now)]]
      /\ UNCHANGED <<ticketVars, user, config, now>>

PriorityCommit(r) ==
  LET q == req[r]
      t == req[r].ticket
  IN  /\ q.pc = "priority.write"
      /\ Live(t) /\ user[q.by].exists
      /\ ticket' = [ticket EXCEPT ![t] = [WithSla(@, q.due, q.sla) EXCEPT !.priority = q.to]]
      /\ Record(t, "priority", q.seen, q.to, q.by)
      /\ Finish(r)
      /\ UNCHANGED <<phase, user, config, now>>

PriorityAbort(r) ==
  /\ req[r].pc = "priority.write"
  /\ ~(Live(req[r].ticket) /\ user[req[r].by].exists)
  /\ Abort(r)

-------------------------------------------------------------------------------
(* DELETE /tickets/:id: the history goes with the row (ON DELETE CASCADE).  *)

DeleteRead(r) ==
  \E u \in Users, t \in Tickets :
    /\ Live(t)
    /\ user[u].role = "Admin"
    /\ Begin(r, "delete.write", u, None, t, None, None)

DeleteCommit(r) ==
  LET t == req[r].ticket
  IN  /\ req[r].pc = "delete.write"
      /\ Live(t)
      /\ phase'  = [phase EXCEPT ![t] = "deleted"]
      /\ ticket' = [ticket EXCEPT ![t] = Blank]
      /\ trail'  = [trail EXCEPT ![t] = {}]
      /\ count'  = [count EXCEPT ![t] = [f \in Fields |-> 0]]
      /\ Finish(r)
      /\ UNCHANGED <<user, config, now>>

DeleteAbort(r) ==
  /\ req[r].pc = "delete.write"
  /\ ~Live(req[r].ticket)
  /\ Abort(r)

-------------------------------------------------------------------------------
(* Administration of users, as far as tickets see it.                       *)

AdminActs == \E a \in Users : Authenticated(a) /\ user[a].role = "Admin"

\* PATCH /users/:id, and POST /users of a deactivated e-mail address.
UpdateUser(u) ==
  /\ AdminActs
  /\ user[u].exists
  /\ \E role \in EditedRoles, active \in BOOLEAN :
       user' = [user EXCEPT ![u].role = role, ![u].active = active]
  /\ UNCHANGED <<ticketVars, config, now, req>>

NoUser == [exists |-> FALSE, active |-> FALSE, role |-> "EndUser"]

\* The rows of the history table that deleting user u leaves.
Purged(u) == [t \in Tickets |-> {x \in trail[t] : x.by # u}]

\* DELETE /users/:id, transactionDelete: the user's history rows go, its tickets
\* lose their assignee, and the requester of a ticket cannot be deleted at all.
DeleteUser(u) ==
  /\ \E a \in Users \ {u} : Authenticated(a) /\ user[a].role = "Admin"
  /\ user[u].exists
  /\ \A t \in Tickets : Live(t) => ticket[t].requester # u
  /\ trail'  = Purged(u)
  /\ ticket' = [t \in Tickets |->
                  IF ticket[t].assignee = u THEN [ticket[t] EXCEPT !.assignee = None]
                                            ELSE ticket[t]]
  /\ user'   = [user EXCEPT ![u] = NoUser]
  /\ UNCHANGED <<phase, count, config, now, req>>

-------------------------------------------------------------------------------
Handler(r) ==
  \/ CreateRead(r)   \/ CreateCommit(r)       \/ CreateAbort(r)
  \/ StatusRead(r)   \/ StatusCommit(r)       \/ StatusAbort(r)
  \/ ReopenReadConfig(r) \/ ReopenWriteSla(r)
  \/ AssignRead(r)   \/ AssignCheck(r)        \/ AssignCommit(r)  \/ AssignAbort(r)
  \/ PriorityRead(r) \/ PriorityReadConfig(r) \/ PriorityCommit(r) \/ PriorityAbort(r)
  \/ DeleteRead(r)   \/ DeleteCommit(r)       \/ DeleteAbort(r)

Administration == \E u \in EditedUsers : UpdateUser(u) \/ DeleteUser(u)

Next == (\E r \in Requests : Handler(r)) \/ Administration

Spec == Init /\ [][Next]_vars
-------------------------------------------------------------------------------
(* Properties.                                                              *)

TicketRow ==
  [status : Statuses, priority : Priorities \cup {None},
   requester : Users \cup {None}, assignee : Users \cup {None},
   resolvedAt : BOOLEAN, closedAt : BOOLEAN,
   createdAt : Nat, slaDueAt : Nat \cup {None}, slaStatus : SlaStatuses \cup {None}]

Values == Statuses \cup Users \cup Priorities \cup {None}

HistoryRows == [field : Fields, seq : Nat \ {0}, from : Values, to : Values, by : Users]

Steps == {"idle", "create.write", "status.write", "reopen.config", "reopen.write",
          "assign.check", "assign.write", "priority.config", "priority.write",
          "delete.write"}

RequestRow ==
  [pc : Steps, by : Users \cup {None}, role : Roles \cup {None},
   ticket : Tickets \cup {None}, to : Values, seen : Values,
   due : Nat \cup {None}, sla : SlaStatuses \cup {None}]

\* The types of the tables and of what a request in flight remembers.
TypeOK ==
  /\ phase  \in [Tickets -> {"never", "live", "deleted"}]
  /\ ticket \in [Tickets -> TicketRow]
  /\ trail  \in [Tickets -> SUBSET HistoryRows]
  /\ count  \in [Tickets -> [Fields -> Nat]]
  /\ user   \in [Users -> UserRow]
  /\ config \in [Priorities -> ConfigRow \cup {None}]
  /\ now    \in Nat
  /\ req    \in [Requests -> RequestRow]

\* The dates tell the status: resolvedAt is set exactly on tickets that are
\* Resolved or Closed, closedAt exactly on Closed ones, whatever moves interleave
\* (updateStatus sets one date per move and clears both when a ticket is reopened).
DatesMatchStatus ==
  \A t \in Tickets : Live(t) =>
    /\ ticket[t].resolvedAt <=> ticket[t].status \in {"Resolved", "Closed"}
    /\ ticket[t].closedAt   <=> ticket[t].status = "Closed"

OfField(rows, f) == {x \in rows : x.field = f}
RowsOf(t, f)     == OfField(trail[t], f)
Gone             == {u \in Users : ~user[u].exists}

\* The rows of one field are a chain that ends at `current`, the value in the ticket's
\* row: the row numbered n, the last one written, led to it, and each row starts from
\* where the row before it led.  Deleting the account of an assignee leaves nobody.
Follows(to, next, gone) == next = to \/ (next = None /\ to \in gone)

Chained(rows, n, current, gone) ==
  \A a \in rows :
    /\ a.seq = n => Follows(a.to, current, gone)
    /\ \A b \in rows : b.seq = a.seq + 1 => Follows(a.to, b.from, gone)

\* The status history is one chain that ends at the ticket's status: no move is lost,
\* or recorded against a status the ticket did not have (the WHERE status = oldStatus
\* of updateStatus), however many requests interleave.
StatusTrailLinked ==
  \A t \in Tickets : Chained(RowsOf(t, "status"), count[t]["status"], ticket[t].status, {})

\* The assignment history is one too (the WHERE assignedToId = old of assignTicket): two
\* concurrent assignments never overwrite one another silently.
AssignmentTrailLinked ==
  \A t \in Tickets :
    Chained(RowsOf(t, "assignedTo"), count[t]["assignedTo"], ticket[t].assignee, Gone)

\* Whoever moves a live ticket from one status to another is a request that may: the
\* move is a permitted transition of the status the ticket has at that moment, and an
\* end user's request only closes its own resolved ticket.  The checks of updateStatus
\* are made on a row read earlier.
MoveAuthorised(t) ==
  \E r \in Requests :
    LET q == req[r]
    IN  /\ q.pc = "status.write" /\ q.ticket = t /\ req'[r] # q
        /\ ticket'[t].status = q.to
        /\ <<ticket[t].status, q.to>> \in Transitions
        /\ q.role = "EndUser" => /\ ticket[t].requester = q.by
                                 /\ ticket[t].status = "Resolved" /\ q.to = "Closed"

StatusMovesAuthorised ==
  [][\A t \in Tickets : (Live(t) /\ Live(t)' /\ ticket'[t].status # ticket[t].status)
                           => MoveAuthorised(t)]_vars

\* The handlers, read and write steps apart, implement the atomic workflow.
Workflow ==
  INSTANCE TicketWorkflow WITH
    status  <- [t \in Tickets |-> IF Live(t) THEN ticket[t].status ELSE None],
    moves   <- [t \in Tickets |-> count[t]["status"]],
    journal <- [t \in Tickets |-> {[seq |-> x.seq, from |-> x.from, to |-> x.to] :
                                     x \in RowsOf(t, "status")}]

ImplementsWorkflow == Workflow!WorkflowSpec

\* README: "Full audit trail on status/assignee/priority changes": every change of a
\* ticket that is still there has its row.
AuditTrailComplete ==
  \A t \in Tickets, f \in Fields : \A n \in 1 .. count[t][f] :
    \E x \in RowsOf(t, f) : x.seq = n
===============================================================================
