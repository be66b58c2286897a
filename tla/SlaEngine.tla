------------------------------- MODULE SlaEngine -------------------------------
(***************************************************************************)
(* SLAService beside the ticket handlers: the cron job that refreshes the  *)
(* traffic lights (every API instance starts one every five minutes), and  *)
(* the administrator's requests that create, change and delete SLA         *)
(* configurations and then recalculate the open tickets.  They share the   *)
(* tickets table, and one lock in Redis: SET NX with a time to live, given *)
(* back by a script that compares the token.                               *)
(*                                                                         *)
(* One category is modelled, so a configuration is found by its priority.  *)
(***************************************************************************)
EXTENDS TicketLifecycle, FiniteSetsExt

CONSTANTS
  Workers,     \* threads of SLAService: a cron run or a configuration request each
  BatchSize,   \* appConfig.sla.batchSize
  Patches,     \* bound: the changes an administrator may ask for
  NewConfigs,  \* bound: the configurations an administrator may create
  Instants,    \* bound: the readings of the clock
  MaxEdits,    \* bound: configuration requests
  MaxFaults    \* bound: crashes of an instance and errors of the database

\* A PATCH body; a field that is not given is None.
Patch == [response : Nat \cup {None}, resolution : Nat \cup {None},
          active : BOOLEAN \cup {None}]

ASSUME EngineAssumption ==
  /\ Tickets \subseteq Nat \ {0}          \* ids are ordered: the batches go by id
  /\ None \notin Workers \cup BOOLEAN
  /\ BatchSize \in Nat \ {0}
  /\ Patches \subseteq Patch
  /\ NewConfigs \subseteq ConfigRow
  /\ Instants \subseteq Nat
  /\ {MaxEdits, MaxFaults} \subseteq Nat

VARIABLES
  lock,    \* the key sla:check:lock: None, or the worker whose token it holds
  job,     \* job[w]: what worker w is doing and what it has read
  edits, faults

slaVars == <<lock, job, edits, faults>>
allVars == <<vars, slaVars>>

NoLights == [s \in SlaStatuses |-> {}]
NoMap    == [p \in Priorities |-> None]

IdleJob ==
  [pc |-> "idle", at |-> 0, last |-> 0, map |-> NoMap, pending |-> NoLights, batch |-> {},
   prio |-> None, resolution |-> 0, deactivate |-> FALSE, patch |-> None,
   expired |-> FALSE]  \* history: the lock's time to live ran out on this worker

SlaInit ==
  /\ Init
  /\ lock   = None
  /\ job    = [w \in Workers |-> IdleJob]
  /\ edits  = 0
  /\ faults = 0

-------------------------------------------------------------------------------
Terminal(t) == ticket[t].status \in {"Resolved", "Closed"}
OpenTicket(t) == Live(t) /\ ~Terminal(t)

\* Faulty variant: the cursor is advanced once too often.
NextBatchBeyond(S, last) ==
  {t \in S : t > last + 1 /\ Cardinality({x \in S : last + 1 < x /\ x <= t}) <= BatchSize}

\* findMany ... id > lastId, take batchSize, orderBy id.
NextBatch(S, last) ==
  {t \in S : t > last /\ Cardinality({x \in S : last < x /\ x <= t}) <= BatchSize}

\* The steps between taking the lock and giving it back.
Section == {"cron.configs", "cron.batch", "recalc.read", "recalc.write", "release"}
InSection(w) == job[w].pc \in Section

Goto(w, j)  == job' = [job EXCEPT ![w] = j]
OnlyJob     == UNCHANGED <<vars, edits, faults>>
OnlyTickets == UNCHANGED <<phase, trail, count, user, config, now, req, edits, faults>>

\* What is left to do after a recalculation, done or skipped.
AfterRecalc(j) == IF j.deactivate THEN [IdleJob EXCEPT !.pc = "clear", !.prio = j.prio]
                                  ELSE IdleJob

\* Nothing of what a run has read is used after it.
Leaving(j) == [IdleJob EXCEPT !.pc = "release", !.prio = j.prio,
                              !.deactivate = j.deactivate, !.expired = j.expired]

\* Faulty variant: the key is deleted whoever holds it.
AfterReleaseByAnyone(w) == None

\* RELEASE_LOCK_SCRIPT: delete the key if it holds this worker's token.
AfterRelease(w) == IF lock = w THEN None ELSE lock

Release(w) ==
  /\ job[w].pc = "release"
  /\ lock' = AfterRelease(w)
  /\ Goto(w, AfterRecalc(job[w]))
  /\ OnlyJob

-------------------------------------------------------------------------------
(* checkSLA.                                                                *)

CronAcquire(w) ==
  /\ job[w].pc = "idle"
  /\ lock = None
  /\ lock' = w
  /\ Goto(w, [IdleJob EXCEPT !.pc = "cron.configs"])
  /\ OnlyJob

\* performSLACheck: the time and the active configurations, once for the whole run.
CronReadConfigs(w) ==
  /\ job[w].pc = "cron.configs"
  /\ Goto(w, [job[w] EXCEPT !.pc = "cron.batch", !.at = now,
                            !.map = [p \in Priorities |-> GetSLAConfig(p)]])
  /\ OnlyJob /\ UNCHANGED lock

\* The light that the configurations read at the start give the row read now.
CronLight(j, t) == StatusAt(ticket[t].slaDueAt, j.map[ticket[t].priority], j.at)
Governed(j, t)  == j.map[ticket[t].priority] # None /\ ticket[t].slaDueAt # None

CronReadBatch(w) ==
  LET j     == job[w]
      batch == NextBatch({t \in Tickets : OpenTicket(t)}, j.last)
  IN  /\ j.pc = "cron.batch" /\ j.pending = NoLights
      /\ Goto(w, IF batch = {} THEN Leaving(j)
                 ELSE [j EXCEPT !.last = Max(batch),
                                !.pending = [s \in SlaStatuses |->
                                   {t \in batch : /\ Governed(j, t)
                                                  /\ CronLight(j, t) = s
                                                  /\ ticket[t].slaStatus # s}]])
      /\ OnlyJob /\ UNCHANGED lock

\* The three updateMany, in this order, by id only.
Before(s) == IF s = "OnTrack" THEN {} ELSE IF s = "AtRisk" THEN {"OnTrack"}
             ELSE {"OnTrack", "AtRisk"}

CronWrite(w) ==
  \E s \in SlaStatuses :
    /\ job[w].pc = "cron.batch"
    /\ job[w].pending[s] # {} /\ \A b \in Before(s) : job[w].pending[b] = {}
    /\ ticket' = [t \in Tickets |-> IF Live(t) /\ t \in job[w].pending[s]
                                      THEN [ticket[t] EXCEPT !.slaStatus = s] ELSE ticket[t]]
    /\ Goto(w, [job[w] EXCEPT !.pending[s] = {}])
    /\ OnlyTickets /\ UNCHANGED lock

-------------------------------------------------------------------------------
(* create, update, delete.                                                  *)

Request(w) == job[w].pc = "idle" /\ edits < MaxEdits /\ edits' = edits + 1
Recalculate(p, resolution, deactivate) ==
  [IdleJob EXCEPT !.pc = "recalc.lock", !.prio = p, !.resolution = resolution,
                  !.deactivate = deactivate]

\* assertSlaWindow.
WindowOk(response, resolution) == response <= resolution

ConfigCreate(w) ==
  \E p \in Priorities, row \in NewConfigs :
    /\ Request(w)
    /\ row.active /\ WindowOk(row.response, row.resolution)
    /\ config[p] = None
    /\ config' = [config EXCEPT ![p] = row]
    /\ Goto(w, Recalculate(p, row.resolution, FALSE))
    /\ UNCHANGED <<ticketVars, user, now, req, lock, faults>>

Or(a, b) == IF a # None THEN a ELSE b
Timing(patch) == patch.response # None \/ patch.resolution # None

\* Faulty variant: a field that is not given is written as NULL.
UpdatedWithNulls(row, patch) ==
  [response |-> patch.response, resolution |-> Or(patch.resolution, row.resolution),
   active   |-> Or(patch.active, row.active)]

\* The update writes the given fields only.
Updated(row, patch) ==
  [response   |-> Or(patch.response, row.response),
   resolution |-> Or(patch.resolution, row.resolution),
   active     |-> Or(patch.active, row.active)]

\* The window is checked against the row as it is read here.
ConfigUpdateRead(w) ==
  \E p \in Priorities, patch \in Patches :
    /\ Request(w)
    /\ config[p] # None
    /\ Timing(patch) => WindowOk(Or(patch.response, config[p].response),
                                 Or(patch.resolution, config[p].resolution))
    /\ Goto(w, [IdleJob EXCEPT !.pc = "update.write", !.prio = p, !.patch = patch])
    /\ UNCHANGED <<vars, lock, faults>>

\* A recalculation follows whenever a time was given, of a configuration that is not
\* active too.
ConfigUpdateWrite(w) ==
  LET j == job[w]
      p == job[w].prio
      row == Updated(config[p], j.patch)
      next == Recalculate(p, row.resolution, j.patch.active = FALSE)
  IN  /\ j.pc = "update.write"
      /\ IF config[p] = None THEN UNCHANGED config /\ Goto(w, IdleJob)
         ELSE /\ config' = [config EXCEPT ![p] = row]
              /\ Goto(w, IF Timing(j.patch) THEN next ELSE AfterRecalc(next))
      /\ UNCHANGED <<ticketVars, user, now, req, lock, edits, faults>>

\* recalculateOpenTicketsForConfig: no lock, no recalculation.
RecalcAcquire(w) ==
  /\ job[w].pc = "recalc.lock"
  /\ IF lock = None
       THEN lock' = w /\ Goto(w, [job[w] EXCEPT !.pc = "recalc.read"])
       ELSE UNCHANGED lock /\ Goto(w, AfterRecalc(job[w]))
  /\ OnlyJob

RecalcRead(w) ==
  LET j     == job[w]
      batch == NextBatch({t \in Tickets : OpenTicket(t) /\ ticket[t].priority = j.prio}, j.last)
  IN  /\ j.pc = "recalc.read"
      /\ Goto(w, IF batch = {} THEN Leaving(j)
                 ELSE [j EXCEPT !.pc = "recalc.write", !.batch = batch, !.last = Max(batch),
                                !.at = IF j.last = 0 THEN now ELSE @])
      /\ OnlyJob /\ UNCHANGED lock

\* Faulty variant: the status is not tested again.
RecalculableById(t) == Live(t)

\* recalculateSlaBatch: the ids that were read, if they are still open.
Recalculable(t) == OpenTicket(t)

RecalcWrite(w) ==
  LET j   == job[w]
      due(t) == ticket[t].createdAt + j.resolution
  IN  /\ j.pc = "recalc.write"
      /\ ticket' = [t \in Tickets |->
                      IF t \in j.batch /\ Recalculable(t)
                        THEN WithSla(ticket[t], due(t), BatchStatusAt(due(t), j.resolution, j.at))
                        ELSE ticket[t]]
      /\ Goto(w, [j EXCEPT !.pc = "recalc.read", !.batch = {}])
      /\ OnlyTickets /\ UNCHANGED lock

\* clearSlaForConfig takes no lock.
Clear(w) ==
  /\ job[w].pc = "clear"
  /\ ticket' = [t \in Tickets |-> IF OpenTicket(t) /\ ticket[t].priority = job[w].prio
                                    THEN WithSla(ticket[t], None, None) ELSE ticket[t]]
  /\ Goto(w, IdleJob)
  /\ OnlyTickets /\ UNCHANGED lock

\* delete looks for tickets of any status first.
ConfigDeleteCheck(w) ==
  \E p \in Priorities :
    /\ Request(w)
    /\ config[p] # None
    /\ \A t \in Tickets : Live(t) => ticket[t].priority # p
    /\ Goto(w, [IdleJob EXCEPT !.pc = "delete.write", !.prio = p])
    /\ UNCHANGED <<vars, lock, faults>>

ConfigDeleteWrite(w) ==
  /\ job[w].pc = "delete.write"
  /\ config' = [config EXCEPT ![job[w].prio] = None]
  /\ Goto(w, IdleJob)
  /\ UNCHANGED <<ticketVars, user, now, req, lock, edits, faults>>

-------------------------------------------------------------------------------
(* Time and faults.                                                         *)

\* The key's time to live runs out, whether its holder is still at work or not.
LockExpires ==
  /\ lock # None
  /\ lock' = None
  /\ job' = [job EXCEPT ![lock].expired = InSection(lock)]
  /\ OnlyJob

Tick ==
  /\ \E t \in Instants : t > now /\ now' = t
  /\ UNCHANGED <<ticketVars, user, config, req, slaVars>>

Fault(w) == job[w].pc # "idle" /\ faults < MaxFaults /\ faults' = faults + 1

\* The process dies: its lock stays.
Crash(w) ==
  /\ Fault(w)
  /\ Goto(w, IdleJob)
  /\ UNCHANGED <<vars, lock, edits>>

\* The database fails: the lock is given back, and the request ends there.
Fail(w) ==
  /\ Fault(w)
  /\ job[w].pc \notin {"recalc.lock", "release"}
  /\ Goto(w, IF InSection(w) THEN [Leaving(job[w]) EXCEPT !.deactivate = FALSE]
             ELSE IdleJob)
  /\ UNCHANGED <<vars, lock, edits>>

\* Redis fails: without the lock the recalculation is skipped, or the lock is left to
\* expire; the request goes on.
RedisFails(w) ==
  /\ Fault(w)
  /\ job[w].pc \in {"recalc.lock", "release"}
  /\ Goto(w, AfterRecalc(job[w]))
  /\ UNCHANGED <<vars, lock, edits>>

-------------------------------------------------------------------------------
Step(w) ==
  \/ CronReadConfigs(w) \/ CronReadBatch(w) \/ CronWrite(w)
  \/ RecalcAcquire(w) \/ RecalcRead(w) \/ RecalcWrite(w)
  \/ ConfigUpdateWrite(w) \/ ConfigDeleteWrite(w)
  \/ Clear(w) \/ Release(w)

Engine ==
  \/ \E w \in Workers :
       \/ CronAcquire(w) \/ Step(w)
       \/ ConfigCreate(w) \/ ConfigUpdateRead(w) \/ ConfigDeleteCheck(w)
       \/ Crash(w) \/ Fail(w) \/ RedisFails(w)
  \/ LockExpires \/ Tick

SlaNext == Engine \/ (Next /\ UNCHANGED slaVars)

\* A worker that is started goes on; the scheduler starts a cron run again and again; Redis
\* drops a key when its time is over.  Nothing is asked of the handlers.
SlaFairness ==
  /\ \A w \in Workers : WF_allVars(Step(w))
  /\ WF_allVars(\E w \in Workers : CronAcquire(w))
  /\ WF_allVars(LockExpires)

SlaSpec == SlaInit /\ [][SlaNext]_allVars /\ SlaFairness
-------------------------------------------------------------------------------
(* Properties.                                                              *)

JobSteps == Section \cup {"idle", "update.write", "recalc.lock", "clear", "delete.write"}

JobRow ==
  [pc : JobSteps, at : Nat, last : Nat, map : [Priorities -> Nat \cup {None}],
   pending : [SlaStatuses -> SUBSET Tickets], batch : SUBSET Tickets,
   prio : Priorities \cup {None}, resolution : Nat, deactivate : BOOLEAN,
   patch : Patches \cup {None}, expired : BOOLEAN]

\* The types of the whole, tables included.
SlaTypeOK ==
  /\ TypeOK
  /\ lock \in Workers \cup {None}
  /\ job \in [Workers -> JobRow]
  /\ edits \in 0 .. MaxEdits /\ faults \in 0 .. MaxFaults

\* Whoever is between taking the lock and giving it back holds it, unless its time to
\* live ran out meanwhile.  So two workers are in there together only after an expiry,
\* and a worker that comes back late never gives back the lock of its successor
\* (RELEASE_LOCK_SCRIPT).
SectionHeld ==
  \A w \in Workers : (InSection(w) /\ ~job[w].expired) => lock = w

\* A ticket that is Resolved or Closed keeps its deadline: recalculateSlaBatch and
\* clearSlaForConfig work on ids or conditions of their own, but only the two handlers
\* may write the deadline of such a ticket.
TerminalDeadlineKept ==
  [][\A t \in Tickets :
       (Live(t) /\ Terminal(t) /\ Live(t)' /\ ticket'[t].slaDueAt # ticket[t].slaDueAt)
          => \E r \in Requests : /\ req[r].pc \in {"priority.write", "reopen.write"}
                                 /\ req[r].ticket = t /\ req'[r] # req[r]]_allVars

\* Whatever raced, once the administrator, the clock and the faults have come to rest,
\* the cron job has every open ticket of an active configuration show the light of its
\* deadline, and keeps it so.
LightRight(t) ==
  LET resolution == GetSLAConfig(ticket[t].priority)
  IN  (OpenTicket(t) /\ resolution # None /\ ticket[t].slaDueAt # None)
        => ticket[t].slaStatus = StatusAt(ticket[t].slaDueAt, resolution, now)

LightsConverge == <>[](\A t \in Tickets : LightRight(t))

\* clearSlaForConfig: "so stale SLA values don't linger on tickets that are no longer
\* governed by an active rule".  When no request is under way, a configuration that is
\* there but not active has left no deadline on an open ticket.
NoStaleSlaValues ==
  ((\A r \in Requests : req[r].pc = "idle") /\ \A w \in Workers : job[w].pc = "idle") =>
    \A t \in Tickets :
      (OpenTicket(t) /\ config[ticket[t].priority] # None
         /\ ~config[ticket[t].priority].active) => ticket[t].slaDueAt = None
===============================================================================
