-------------------------- MODULE NotificationFanout ---------------------------
(***************************************************************************)
(* From a ticket event to the notifications of its recipients.             *)
(*                                                                         *)
(* A handler of NotificationsService reads who may be told and who opted   *)
(* out, then inserts one row per recipient: a new ticket's                 *)
(* support users through runWithConcurrency (a pool: `queue`, `running`),  *)
(* everyone else one after another (`line`). An insert may fail; failures  *)
(* are caught one by one. Titles and texts are left out.                   *)
(***************************************************************************)
EXTENDS Naturals, Sequences, FiniteSets, SequencesExt

CONSTANTS
  Nobody,          \* no user
  Users,           \* users
  Support,         \* users with role ITSupport or Admin
  Events,          \* ticket events
  PoolLimit,       \* workers of the pool
  MaxInsertFaults, \* bound: inserts or reads that fail
  MaxToggles       \* bound: preferences saved or accounts switched

ASSUME FanoutAssumption ==
  /\ PoolLimit \in Nat \ {0} /\ Support \subseteq Users
  /\ Nobody \notin Users

Kinds == {"ticket.created", "ticket.assigned", "ticket.status.updated", "ticket.priority.updated"}

\* NOTIFICATION_EVENTS and getEventsForRole: what a user of the role may switch.
EventsFor(u) == IF u \in Support THEN Kinds ELSE Kinds \ {"ticket.assigned"}

VARIABLES
  enrolled,    \* users that are active
  optedOut,    \* optedOut[u]: events stored as false in the user's preferences
  handler,     \* handler[e]: the handler of event e
  notices,     \* notices[e][u]: number of notifications of user u about event e
  insertFaults, toggles

fanoutVars == <<enrolled, optedOut, handler, notices, insertFaults, toggles>>

Idle == [pc |-> "none", kind |-> "ticket.created", requester |-> Nobody, assignee |-> Nobody,
         pool |-> {}, queue |-> {}, running |-> {}, line |-> <<>>, told |-> {},
         wanted |-> {}, missed |-> {}]

FanoutInit ==
  /\ enrolled = Users
  /\ optedOut = [u \in Users |-> {}]
  /\ handler = [e \in Events |-> Idle]
  /\ notices = [e \in Events |-> [u \in Users |-> 0]]
  /\ insertFaults = 0 /\ toggles = 0

\* isEventEnabled: an absent key is on.
Enabled(u, kind) == kind \notin optedOut[u]

\* Who the handlers of status and priority events address, each once.
Addressed(j) == {j.assignee, j.requester} \ {Nobody}

\* A ticket event is emitted.
Emit(e, kind, requester, assignee) ==
  /\ handler[e].pc = "none"
  /\ (kind = "ticket.assigned") => assignee # Nobody
  /\ handler' = [handler EXCEPT ![e] = [Idle EXCEPT !.pc = "read", !.kind = kind,
                                             !.requester = requester, !.assignee = assignee]]
  /\ UNCHANGED <<enrolled, optedOut, notices, insertFaults, toggles>>

\* The status handler comes to the assignee, then to the requester.
Turn(u, S) == IF u \in S THEN <<u>> ELSE <<>>

\* The first read of each handler. A worker of the pool passes over a user who opted
\* out without an await, so such users are never in the queue.
ReadAudience(e) ==
  LET j == handler[e]
      support == Support \cap enrolled
      willing(S) == {u \in S : Enabled(u, j.kind)}
      next == CASE j.kind = "ticket.created" ->
                     [j EXCEPT !.pc = "pool", !.pool = support, !.queue = willing(support),
                               !.wanted = willing(support)]
                [] j.kind = "ticket.assigned" ->
                     [j EXCEPT !.pc = "line", !.line = SetToSeq(willing({j.assignee})),
                               !.wanted = willing({j.assignee})]
                [] j.kind = "ticket.status.updated" ->
                     [j EXCEPT !.pc = "line", !.wanted = willing(Addressed(j)),
                               !.line = Turn(j.assignee, willing(Addressed(j)))
                                          \o Turn(j.requester, willing(Addressed(j)))]
                [] j.kind = "ticket.priority.updated" ->
                     [j EXCEPT !.pc = "line", !.line = SetToSeq(willing(Addressed(j))),
                               !.wanted = willing(Addressed(j))]
  IN /\ j.pc = "read"
     /\ handler' = [handler EXCEPT ![e] = next]
     /\ UNCHANGED <<enrolled, optedOut, notices, insertFaults, toggles>>

\* A worker takes the next item; at most PoolLimit run.
TakeItem(e, u) ==
  /\ handler[e].pc = "pool" /\ u \in handler[e].queue
  /\ Cardinality(handler[e].running) < PoolLimit
  /\ handler' = [handler EXCEPT ![e].queue = @ \ {u}, ![e].running = @ \cup {u}]
  /\ UNCHANGED <<enrolled, optedOut, notices, insertFaults, toggles>>

\* create: the row, whose notification.created goes on to the gateway.
Insert(e, u) ==
  /\ notices' = [notices EXCEPT ![e][u] = @ + 1]
  /\ UNCHANGED insertFaults

InsertFails ==
  /\ insertFaults < MaxInsertFaults
  /\ insertFaults' = insertFaults + 1
  /\ UNCHANGED notices

\* A failure ends the pool.
FinishItemBug(e, u) ==
  /\ u \in handler[e].running
  /\ \/ /\ Insert(e, u)
        /\ handler' = [handler EXCEPT ![e].running = @ \ {u}]
     \/ /\ InsertFails
        /\ handler' = [handler EXCEPT ![e].running = @ \ {u}, ![e].queue = {}, ![e].missed = @ \cup {u}]
  /\ UNCHANGED <<enrolled, optedOut, toggles>>

\* An item of the pool ends; a failure is logged and the worker goes on.
FinishItem(e, u) ==
  /\ u \in handler[e].running
  /\ \/ /\ Insert(e, u)
        /\ handler' = [handler EXCEPT ![e].running = @ \ {u}]
     \/ /\ InsertFails
        /\ handler' = [handler EXCEPT ![e].running = @ \ {u}, ![e].missed = @ \cup {u}]
  /\ UNCHANGED <<enrolled, optedOut, toggles>>

\* The pool has settled: a requester who is not among the support users read before
\* comes next, by preferences read now.
PoolSettled(e) ==
  LET j == handler[e]
      more == IF j.requester \notin j.pool /\ Enabled(j.requester, j.kind) THEN {j.requester} ELSE {}
  IN /\ j.pc = "pool" /\ j.queue = {} /\ j.running = {}
     /\ handler' = [handler EXCEPT ![e].pc = "line", ![e].line = SetToSeq(more), ![e].wanted = @ \cup more]
     /\ UNCHANGED <<enrolled, optedOut, notices, insertFaults, toggles>>

\* A requester who is the assignee is told again.
NextInLineBug(e) ==
  LET j == handler[e]  u == Head(j.line) IN
  /\ j.pc = "line" /\ j.line # <<>>
  /\ \/ Insert(e, u) /\ handler' = [handler EXCEPT ![e].line = Tail(@), ![e].told = @ \cup {u}]
     \/ InsertFails /\ handler' = [handler EXCEPT ![e].line = Tail(@), ![e].missed = @ \cup {u}]
  /\ UNCHANGED <<enrolled, optedOut, toggles>>

\* The next recipient of the line. The status handler passes over a requester it has
\* told as the assignee; after a failed insert it tries again.
NextInLine(e) ==
  LET j == handler[e]  u == Head(j.line) IN
  /\ j.pc = "line" /\ j.line # <<>>
  /\ \/ /\ u \in j.told
        /\ handler' = [handler EXCEPT ![e].line = Tail(@)]
        /\ UNCHANGED <<notices, insertFaults>>
     \/ /\ u \notin j.told
        /\ Insert(e, u)
        /\ handler' = [handler EXCEPT ![e].line = Tail(@), ![e].told = @ \cup {u}]
     \/ /\ u \notin j.told
        /\ InsertFails
        /\ handler' = [handler EXCEPT ![e].line = Tail(@), ![e].missed = @ \cup {u}]
  /\ UNCHANGED <<enrolled, optedOut, toggles>>

LineDone(e) ==
  /\ handler[e].pc = "line" /\ handler[e].line = <<>>
  /\ handler' = [handler EXCEPT ![e].pc = "done"]
  /\ UNCHANGED <<enrolled, optedOut, notices, insertFaults, toggles>>

\* A read of the audience or of the preferences fails: the handler ends there.
ReadFails(e) ==
  /\ \/ handler[e].pc = "read"
     \/ handler[e].pc = "pool" /\ handler[e].queue \cup handler[e].running = {}
          /\ handler[e].requester \notin handler[e].pool
  /\ insertFaults < MaxInsertFaults
  /\ insertFaults' = insertFaults + 1
  /\ handler' = [handler EXCEPT ![e].pc = "done"]
  /\ UNCHANGED <<enrolled, optedOut, notices, toggles>>

\* updatePreferences: every event of the role is stored, those not sent as on.
UpdatePreferences(u, off) ==
  /\ toggles < MaxToggles /\ toggles' = toggles + 1
  /\ off \subseteq EventsFor(u)
  /\ optedOut' = [optedOut EXCEPT ![u] = off]
  /\ UNCHANGED <<enrolled, handler, notices, insertFaults>>

SwitchAccount(u) ==
  /\ toggles < MaxToggles /\ toggles' = toggles + 1
  /\ enrolled' = IF u \in enrolled THEN enrolled \ {u} ELSE enrolled \cup {u}
  /\ UNCHANGED <<optedOut, handler, notices, insertFaults>>

JobStep(e) ==
  \/ ReadAudience(e) \/ PoolSettled(e) \/ NextInLine(e) \/ LineDone(e)
  \/ \E u \in Users : TakeItem(e, u) \/ FinishItem(e, u)

FanoutNext ==
  \/ \E e \in Events :
       \/ \E kind \in Kinds, r \in Users, a \in Support \cup {Nobody} : Emit(e, kind, r, a)
       \/ JobStep(e)
       \/ ReadFails(e)
  \/ \E u \in Users : SwitchAccount(u) \/ \E off \in SUBSET Kinds : UpdatePreferences(u, off)

\* A handler whose awaits settle goes on.
FanoutFairness == \A e \in Events : WF_fanoutVars(JobStep(e))

FanoutSpec == FanoutInit /\ [][FanoutNext]_fanoutVars /\ FanoutFairness

\* Every variable has its type.
FanoutTypeOK ==
  /\ enrolled \subseteq Users
  /\ optedOut \in [Users -> SUBSET Kinds]
  /\ \A e \in Events :
       /\ handler[e].pc \in {"none", "read", "pool", "line", "done"}
       /\ handler[e].queue \cup handler[e].running \cup handler[e].told \cup handler[e].missed \subseteq Users
       /\ notices[e] \in [Users -> Nat]

\* Nobody is told of an event twice, although a user may be addressed in two
\* capacities, and no row is for a user who had opted out when the handler asked.
OncePerEvent ==
  \A e \in Events, u \in Users :
    /\ notices[e][u] <= 1
    /\ notices[e][u] > 0 => u \in handler[e].wanted

\* A pool makes at most PoolLimit inserts at a time, and when a handler has ended everyone
\* who was to be told has a row, or their own insert failed (runWithConcurrency).
NobodyLeftOut(e) ==
  /\ Cardinality(handler[e].running) <= PoolLimit
  /\ handler[e].pc = "done" =>
       \A u \in handler[e].wanted : notices[e][u] = 1 \/ u \in handler[e].missed

\* A failed insert costs nobody else their notification, and every handler that began does end.
EveryoneTold ==
  /\ \A e \in Events : []<>(handler[e].pc \in {"none", "done"})
  /\ [](\A e \in Events : NobodyLeftOut(e))
================================================================================
