------------------------------- MODULE SlaProofs -------------------------------
(***************************************************************************)
(* The safety properties of SlaEngine beside the ticket handlers, for any  *)
(* number of tickets, requests and workers, any batch size, and without    *)
(* its bounds.                                                             *)
(***************************************************************************)
EXTENDS SlaEngine, TicketLifecycleProofs, FiniteSetTheorems, WellFoundedInduction

(***************************************************************************)
(* Batches.  Nothing says that the tickets are finitely many: a batch has  *)
(* a greatest id because no more than BatchSize ids come before it.        *)
(***************************************************************************)
LEMMA Least ==
  ASSUME NEW K \in SUBSET Nat, K # {}
  PROVE  \E x \in K : \A y \in K : x <= y
<1>1. \E x \in K : \A y \in K : ~(<<y, x>> \in OpToRel(<, Nat))
  BY NatLessThanWellFounded, WFMin
<1>2. PICK x \in K : \A y \in K : ~(<<y, x>> \in OpToRel(<, Nat))
  BY <1>1
<1>3. \A y \in K : ~(y < x)
  BY <1>2 DEF OpToRel
<1>4. QED
  BY <1>3

Upto(S, last, t) == {x \in S : last < x /\ x <= t}

LEMMA UptoFinite ==
  ASSUME NEW S \in SUBSET Nat, NEW last \in Nat, NEW t \in Nat
  PROVE  IsFiniteSet(Upto(S, last, t)) /\ Cardinality(Upto(S, last, t)) \in Nat
<1>1. IsFiniteSet(0 .. t)
  BY FS_Interval
<1>2. \A x \in S : x <= t => x \in 0 .. t
  OBVIOUS
<1>3. Upto(S, last, t) \in SUBSET (0 .. t)
  BY <1>2 DEF Upto
<1>4. QED
  BY <1>1, <1>3, FS_Subset, FS_CardinalityType

\* The next id comes later in the batch.
LEMMA UptoGrows ==
  ASSUME NEW S \in SUBSET Nat, NEW last \in Nat, NEW t \in S, NEW y \in S, last < t, t < y
  PROVE  Cardinality(Upto(S, last, t)) < Cardinality(Upto(S, last, y))
<1> DEFINE T == Upto(S, last, t)
           Y == Upto(S, last, y)
<1>1. IsFiniteSet(Y) /\ Cardinality(T) \in Nat /\ Cardinality(Y) \in Nat
  BY UptoFinite
<1>2. T \in SUBSET Y /\ y \in Y /\ y \notin T
  <2>1. \A x \in S : x \in Nat /\ (x <= t => x <= y)
    OBVIOUS
  <2>2. last < y /\ ~(y <= t) /\ y <= y
    OBVIOUS
  <2>3. QED
    BY <2>1, <2>2 DEF Upto
<1>3. Cardinality(T) <= Cardinality(Y) /\ Cardinality(Y) # Cardinality(T)
  BY <1>1, <1>2, FS_Subset
<1>4. QED
  BY <1>1, <1>3

LEMMA BatchMax ==
  ASSUME NEW S \in SUBSET Tickets, NEW last \in Nat, NextBatch(S, last) # {}
  PROVE  Max(NextBatch(S, last)) \in Nat
<1> DEFINE B == NextBatch(S, last)
           Rank(t) == Cardinality(Upto(S, last, t))
           K == {BatchSize - Rank(t) : t \in B}
<1>1. S \in SUBSET Nat /\ BatchSize \in Nat
  BY EngineAssumption
<1>2. \A t \in B : t \in S /\ t \in Nat /\ last < t /\ Rank(t) <= BatchSize
  BY <1>1 DEF NextBatch, Upto
<1>3. \A t \in B : Rank(t) \in Nat
  BY <1>1, <1>2, UptoFinite
<1>4. K \in SUBSET Nat /\ K # {}
  <2> HIDE DEF Rank, B
  <2>1. \A t \in B : BatchSize - Rank(t) \in Nat
    BY <1>1, <1>2, <1>3
  <2>2. QED
    BY <2>1 DEF B
<1>5. PICK k \in K : \A y \in K : k <= y
  BY <1>4, Least
<1>6. PICK t \in B : k = BatchSize - Rank(t)
  BY <1>5
<1>7. \A y \in B : Rank(y) <= Rank(t)
  <2> HIDE DEF Rank, B
  <2>1. TAKE y \in B
  <2>2. BatchSize - Rank(t) <= BatchSize - Rank(y)
    BY <1>5, <1>6
  <2>3. QED
    BY <1>1, <1>3, <2>2
<1>8. \A y \in B : t >= y
  <2> SUFFICES ASSUME NEW y \in B, t < y PROVE FALSE
    BY <1>2
  <2>1. Rank(t) < Rank(y)
    BY <1>1, <1>2, UptoGrows
  <2> HIDE DEF Rank, B
  <2>2. QED
    BY <1>3, <1>7, <2>1
<1>9. Max(B) \in B
  BY <1>8 DEF Max
<1>10. QED
  BY <1>2, <1>9

-------------------------------------------------------------------------------
(* The inductive invariant.                                                 *)

Owing == {"update.write", "recalc.lock", "recalc.read", "recalc.write", "clear",
          "delete.write"}

\* What a worker has read when it relies on it: which priority it is about, and the
\* request's body until it is written.
JobSound(j) ==
  /\ j.pc \in Owing \/ j.deactivate => j.prio \in Priorities
  /\ j.pc = "update.write" => j.patch \in Patches

JobsSound == \A w \in Workers : JobSound(job[w])

SlaSound == Typed /\ SlaTypeOK /\ JobsSound /\ SectionHeld

LEMMA IdleJobSound == IdleJob \in JobRow /\ JobSound(IdleJob) /\ IdleJob.pc \notin Section
  BY DEF IdleJob, JobRow, JobSound, JobSteps, Section, NoMap, NoLights, Owing

LEMMA AfterRecalcSound ==
  ASSUME NEW j \in JobRow, JobSound(j)
  PROVE  /\ AfterRecalc(j) \in JobRow /\ JobSound(AfterRecalc(j))
         /\ AfterRecalc(j).pc \notin Section
<1>1. CASE j.deactivate
  <2> DEFINE k == [IdleJob EXCEPT !.pc = "clear", !.prio = j.prio]
  <2>1. j.prio \in Priorities
    BY <1>1 DEF JobSound
  <2>2. k \in JobRow
    BY <2>1, IdleJobSound DEF JobRow, JobSteps
  <2>3. k.pc = "clear" /\ k.prio = j.prio /\ k.deactivate = FALSE
    BY DEF IdleJob
  <2>4. QED
    BY <1>1, <2>1, <2>2, <2>3 DEF AfterRecalc, JobSound, Section
<1>2. CASE ~j.deactivate
  BY <1>2, IdleJobSound DEF AfterRecalc
<1>3. QED
  BY <1>1, <1>2

LEMMA LeavingSound ==
  ASSUME NEW j \in JobRow, JobSound(j)
  PROVE  /\ Leaving(j) \in JobRow /\ JobSound(Leaving(j))
         /\ Leaving(j).pc = "release" /\ Leaving(j).expired = j.expired
         /\ Leaving(j).prio = j.prio
<1> DEFINE k == [IdleJob EXCEPT !.pc = "release", !.prio = j.prio,
                                !.deactivate = j.deactivate, !.expired = j.expired]
<1>1. /\ j.prio \in Priorities \cup {None} /\ j.deactivate \in BOOLEAN
      /\ j.expired \in BOOLEAN
  BY DEF JobRow
<1>2. k \in JobRow
  BY <1>1, IdleJobSound DEF JobRow, JobSteps, Section
<1>3. /\ k.pc = "release" /\ k.prio = j.prio /\ k.deactivate = j.deactivate
      /\ k.expired = j.expired
  BY DEF IdleJob
<1>4. JobSound(k)
  BY <1>3 DEF JobSound, Owing
<1>5. QED
  BY <1>2, <1>3, <1>4 DEF Leaving

LEMMA RecalculateSound ==
  ASSUME NEW p \in Priorities, NEW resolution \in Nat, NEW deactivate \in BOOLEAN
  PROVE  /\ Recalculate(p, resolution, deactivate) \in JobRow
         /\ JobSound(Recalculate(p, resolution, deactivate))
         /\ Recalculate(p, resolution, deactivate).pc = "recalc.lock"
<1> DEFINE k == [IdleJob EXCEPT !.pc = "recalc.lock", !.prio = p,
                                !.resolution = resolution, !.deactivate = deactivate]
<1>1. k \in JobRow
  BY IdleJobSound DEF JobRow, JobSteps
<1>2. k.pc = "recalc.lock" /\ k.prio = p
  BY DEF IdleJob
<1>3. QED
  BY <1>1, <1>2 DEF Recalculate, JobSound

LEMMA SlaInitSound == SlaInit => SlaSound
<1> SUFFICES ASSUME SlaInit PROVE SlaSound
  OBVIOUS
<1>1. Typed
  BY TypedInit DEF SlaInit
<1>2. lock = None /\ job = [w \in Workers |-> IdleJob]
  BY DEF SlaInit
<1>3. job \in [Workers -> JobRow] /\ JobsSound /\ SectionHeld
  BY <1>2, IdleJobSound DEF JobsSound, SectionHeld, InSection
<1>4. edits \in 0 .. MaxEdits /\ faults \in 0 .. MaxFaults
  BY EngineAssumption DEF SlaInit
<1>5. QED
  BY <1>1, <1>2, <1>3, <1>4 DEF SlaSound, SlaTypeOK, Typed

-------------------------------------------------------------------------------
(* What a step of one worker must show.                                     *)

\* It stays in the section as it was, or was not and is not in it; it enters with the
\* lock; or it leaves and gives back what it holds.
KeepsLock(w, j) ==
  lock' = lock /\ (j.pc \in Section => InSection(w) /\ j.expired = job[w].expired)
TakesLock(w) == lock = None /\ lock' = w
GivesLock(w, j) == lock' = AfterRelease(w) /\ j.pc \notin Section

LEMMA JobStep ==
  ASSUME SlaSound, Typed', NEW w \in Workers, NEW j \in JobRow, JobSound(j), Goto(w, j),
         edits' \in 0 .. MaxEdits, faults' \in 0 .. MaxFaults,
         KeepsLock(w, j) \/ TakesLock(w) \/ GivesLock(w, j)
  PROVE  SlaSound'
<1>1. job' \in [Workers -> JobRow] /\ \A v \in Workers : job'[v] = IF v = w THEN j ELSE job[v]
  BY DEF Goto, SlaSound, SlaTypeOK
<1>2. JobsSound'
  BY <1>1 DEF SlaSound, JobsSound
<1>3. lock' \in Workers \cup {None}
  BY DEF KeepsLock, TakesLock, GivesLock, AfterRelease, SlaSound, SlaTypeOK
<1>4. SectionHeld'
  <2> SUFFICES ASSUME NEW v \in Workers, job'[v].pc \in Section, ~job'[v].expired
               PROVE  lock' = v
    BY DEF SectionHeld, InSection
  <2>1. None \notin Workers
    BY EngineAssumption
  <2>2. CASE v = w
    <3>1. j.pc \in Section /\ ~j.expired
      BY <1>1, <2>2
    <3>2. QED
      BY <2>2, <3>1 DEF KeepsLock, TakesLock, GivesLock, SlaSound, SectionHeld
  <2>3. CASE v # w
    <3>1. lock = v
      BY <1>1, <2>3 DEF SlaSound, SectionHeld, InSection
    <3>2. QED
      BY <2>1, <2>3, <3>1 DEF KeepsLock, TakesLock, GivesLock, AfterRelease
  <2>4. QED
    BY <2>2, <2>3
<1>5. QED
  BY <1>1, <1>2, <1>3, <1>4 DEF SlaSound, SlaTypeOK, Typed

LEMMA TablesKept ==
  ASSUME Typed, UNCHANGED vars
  PROVE  Typed'
  BY DEF vars, Typed, TypeOK, RowsSound, RequestsSound, Live

\* A step writes tickets only, and their SLA columns at that.
LEMMA TicketsWritten ==
  ASSUME Typed, OnlyTickets, ticket' \in [Tickets -> TicketRow],
         \A t \in Tickets : ticket'[t].priority = ticket[t].priority
  PROVE  Typed'
  BY DEF OnlyTickets, Typed, TypeOK, RowsSound, RequestsSound, Live

LEMMA ConfigsWritten ==
  ASSUME Typed, UNCHANGED <<ticketVars, user, now, req>>,
         config' \in [Priorities -> ConfigRow \cup {None}]
  PROVE  Typed'
  BY DEF ticketVars, Typed, TypeOK, RowsSound, RequestsSound, Live

\* A step of worker w that leaves the bounds of edits and faults alone.
LEMMA SoundParts ==
  ASSUME SlaSound, NEW w \in Workers
  PROVE  /\ job[w] \in JobRow /\ JobSound(job[w]) /\ Typed
         /\ edits \in 0 .. MaxEdits /\ faults \in 0 .. MaxFaults
         /\ IdleJob \in JobRow /\ JobSound(IdleJob) /\ IdleJob.pc \notin Section
  BY IdleJobSound DEF SlaSound, SlaTypeOK, JobsSound
-------------------------------------------------------------------------------
(* The cron job.                                                            *)

LEMMA CronSound ==
  ASSUME SlaSound, NEW w \in Workers,
         CronAcquire(w) \/ CronReadConfigs(w) \/ CronReadBatch(w) \/ CronWrite(w)
  PROVE  SlaSound'
<1> DEFINE j == job[w]
<1>1. /\ j \in JobRow /\ JobSound(j) /\ Typed
      /\ edits \in 0 .. MaxEdits /\ faults \in 0 .. MaxFaults
  BY SoundParts
<1>2. CASE CronAcquire(w)
  <2> DEFINE k == [IdleJob EXCEPT !.pc = "cron.configs"]
  <2>1. k \in JobRow
    BY IdleJobSound DEF JobRow, JobSteps, Section
  <2>2. JobSound(k)
    BY DEF IdleJob, JobSound, Owing
  <2>3. Typed'
    BY <1>1, <1>2, TablesKept DEF CronAcquire, OnlyJob
  <2> HIDE DEF k
  <2>4. TakesLock(w) /\ UNCHANGED <<edits, faults>>
    BY <1>2 DEF CronAcquire, TakesLock, OnlyJob
  <2>5. Goto(w, k)
    BY <1>2 DEF CronAcquire, k
  <2>6. QED
    BY <1>1, <2>1, <2>2, <2>3, <2>4, <2>5, JobStep
<1>3. CASE CronReadConfigs(w)
  <2> DEFINE map == [p \in Priorities |-> GetSLAConfig(p)]
             k == [j EXCEPT !.pc = "cron.batch", !.at = now, !.map = map]
  <2>1. map \in [Priorities -> Nat \cup {None}] /\ now \in Nat
    BY <1>1, ConfigType DEF Typed, TypeOK
  <2> HIDE DEF map
  <2>2. k \in JobRow
    BY <1>1, <2>1 DEF JobRow, JobSteps, Section
  <2>3. k.pc = "cron.batch" /\ k.prio = j.prio /\ k.deactivate = j.deactivate
        /\ k.expired = j.expired
    BY <1>1 DEF JobRow
  <2>4. JobSound(k)
    BY <1>1, <2>3 DEF JobSound, Owing
  <2>5. Typed'
    BY <1>1, <1>3, TablesKept DEF CronReadConfigs, OnlyJob
  <2>6. Goto(w, k) /\ UNCHANGED <<lock, edits, faults>> /\ j.pc = "cron.configs"
    BY <1>3 DEF CronReadConfigs, OnlyJob, map
  <2> HIDE DEF k
  <2>7. KeepsLock(w, k)
    BY <2>3, <2>6 DEF KeepsLock, InSection, Section
  <2>8. QED
    BY <1>1, <2>2, <2>4, <2>5, <2>6, <2>7, JobStep
<1>4. CASE CronReadBatch(w)
  <2> DEFINE S == {t \in Tickets : OpenTicket(t)}
             batch == NextBatch(S, j.last)
             pending == [s \in SlaStatuses |->
                           {t \in batch : /\ Governed(j, t) /\ CronLight(j, t) = s
                                          /\ ticket[t].slaStatus # s}]
             k == [j EXCEPT !.last = Max(batch), !.pending = pending]
  <2>1. j.pc = "cron.batch" /\ UNCHANGED <<vars, lock, edits, faults>>
    BY <1>4 DEF CronReadBatch, OnlyJob
  <2>2. Typed'
    BY <1>1, <2>1, TablesKept
  <2>3. CASE batch = {}
    <3>1. Goto(w, Leaving(j))
      BY <1>4, <2>3 DEF CronReadBatch
    <3>2. KeepsLock(w, Leaving(j))
      BY <1>1, <2>1, LeavingSound DEF KeepsLock, InSection, Section
    <3>3. QED
      BY <1>1, <2>1, <2>2, <3>1, <3>2, LeavingSound, JobStep
  <2>4. CASE batch # {}
    <3>1. j.last \in Nat
      BY <1>1 DEF JobRow
    <3>2. Max(batch) \in Nat
      BY <2>4, <3>1, BatchMax
    <3>3. pending \in [SlaStatuses -> SUBSET Tickets]
      BY DEF NextBatch
    <3>4. Goto(w, k)
      BY <1>4, <2>4 DEF CronReadBatch
    <3> HIDE DEF pending, batch
    <3>5. k \in JobRow
      BY <1>1, <3>2, <3>3 DEF JobRow
    <3>6. k.pc = j.pc /\ k.prio = j.prio /\ k.deactivate = j.deactivate
          /\ k.expired = j.expired /\ k.patch = j.patch
      BY <1>1 DEF JobRow
    <3> HIDE DEF k
    <3>7. JobSound(k) /\ KeepsLock(w, k)
      BY <1>1, <2>1, <3>6 DEF JobSound, KeepsLock, InSection
    <3>8. QED
      BY <1>1, <2>1, <2>2, <3>4, <3>5, <3>7, JobStep
  <2>5. QED
    BY <2>3, <2>4
<1>5. CASE CronWrite(w)
  <2>1. PICK s \in SlaStatuses :
          /\ ticket' = [t \in Tickets |-> IF Live(t) /\ t \in j.pending[s]
                                           THEN [ticket[t] EXCEPT !.slaStatus = s]
                                           ELSE ticket[t]]
          /\ Goto(w, [j EXCEPT !.pending[s] = {}])
    BY <1>5 DEF CronWrite
  <2>2. UNCHANGED <<lock, edits, faults>> /\ OnlyTickets
    BY <1>5 DEF CronWrite, OnlyTickets
  <2> DEFINE pending == [j.pending EXCEPT ![s] = {}]
             k == [j EXCEPT !.pending = pending]
  <2>3. ticket \in [Tickets -> TicketRow]
    BY <1>1 DEF Typed, TypeOK
  <2>4. \A t \in Tickets : /\ [ticket[t] EXCEPT !.slaStatus = s] \in TicketRow
                           /\ [ticket[t] EXCEPT !.slaStatus = s].priority
                                = ticket[t].priority
    BY <2>3 DEF TicketRow
  <2>5. Typed'
    BY <1>1, <2>1, <2>2, <2>3, <2>4, TicketsWritten
  <2>6. j.pending \in [SlaStatuses -> SUBSET Tickets]
    BY <1>1 DEF JobRow
  <2>7. pending \in [SlaStatuses -> SUBSET Tickets]
    BY <2>6
  <2>8. Goto(w, k)
    BY <1>1, <2>1 DEF JobRow
  <2> HIDE DEF pending
  <2>9. k \in JobRow
    BY <1>1, <2>7 DEF JobRow
  <2>10. k.pc = j.pc /\ k.prio = j.prio /\ k.deactivate = j.deactivate
         /\ k.expired = j.expired /\ k.patch = j.patch
    BY <1>1 DEF JobRow
  <2> HIDE DEF k
  <2>11. JobSound(k) /\ KeepsLock(w, k)
    BY <1>1, <2>2, <2>10 DEF JobSound, KeepsLock, InSection
  <2>12. QED
    BY <1>1, <2>2, <2>5, <2>8, <2>9, <2>11, JobStep
<1>6. QED
  BY <1>2, <1>3, <1>4, <1>5

-------------------------------------------------------------------------------
(* The recalculation, the clearing and the release.                         *)

LEMMA BatchStatusType ==
  ASSUME NEW due \in Nat, NEW resolution \in Nat, NEW t \in Nat
  PROVE  BatchStatusAt(due, resolution, t) \in SlaStatuses
  BY DEF BatchStatusAt, SlaStatuses

LEMMA RecalcSound ==
  ASSUME SlaSound, NEW w \in Workers, RecalcAcquire(w) \/ RecalcRead(w) \/ RecalcWrite(w)
  PROVE  SlaSound'
<1> DEFINE j == job[w]
<1>1. /\ j \in JobRow /\ JobSound(j) /\ Typed
      /\ edits \in 0 .. MaxEdits /\ faults \in 0 .. MaxFaults
  BY SoundParts
<1>2. CASE RecalcAcquire(w)
  <2>1. j.pc = "recalc.lock" /\ UNCHANGED <<vars, edits, faults>>
    BY <1>2 DEF RecalcAcquire, OnlyJob
  <2>2. Typed'
    BY <1>1, <2>1, TablesKept
  <2>3. CASE lock = None
    <3> DEFINE k == [j EXCEPT !.pc = "recalc.read"]
    <3>1. lock' = w /\ Goto(w, k)
      BY <1>2, <2>3 DEF RecalcAcquire
    <3>2. k \in JobRow
      BY <1>1 DEF JobRow, JobSteps, Section
    <3>3. k.pc = "recalc.read" /\ k.prio = j.prio
      BY <1>1 DEF JobRow
    <3> HIDE DEF k
    <3>4. JobSound(k) /\ TakesLock(w)
      BY <1>1, <2>1, <2>3, <3>1, <3>3 DEF JobSound, Owing, TakesLock
    <3>5. QED
      BY <1>1, <2>1, <2>2, <3>1, <3>2, <3>4, JobStep
  <2>4. CASE lock # None
    <3>1. lock' = lock /\ Goto(w, AfterRecalc(j))
      BY <1>2, <2>4 DEF RecalcAcquire
    <3>2. KeepsLock(w, AfterRecalc(j))
      BY <1>1, <3>1, AfterRecalcSound DEF KeepsLock
    <3>3. QED
      BY <1>1, <2>1, <2>2, <3>1, <3>2, AfterRecalcSound, JobStep
  <2>5. QED
    BY <2>3, <2>4
<1>3. CASE RecalcRead(w)
  <2> DEFINE S == {t \in Tickets : OpenTicket(t) /\ ticket[t].priority = j.prio}
             batch == NextBatch(S, j.last)
             at == IF j.last = 0 THEN now ELSE j.at
             k == [j EXCEPT !.pc = "recalc.write", !.batch = batch, !.last = Max(batch),
                            !.at = at]
  <2>1. j.pc = "recalc.read" /\ UNCHANGED <<vars, lock, edits, faults>>
    BY <1>3 DEF RecalcRead, OnlyJob
  <2>2. Typed'
    BY <1>1, <2>1, TablesKept
  <2>3. CASE batch = {}
    <3>1. Goto(w, Leaving(j))
      BY <1>3, <2>3 DEF RecalcRead
    <3>2. KeepsLock(w, Leaving(j))
      BY <1>1, <2>1, LeavingSound DEF KeepsLock, InSection, Section
    <3>3. QED
      BY <1>1, <2>1, <2>2, <3>1, <3>2, LeavingSound, JobStep
  <2>4. CASE batch # {}
    <3>1. j.last \in Nat /\ j.at \in Nat /\ now \in Nat
      BY <1>1 DEF JobRow, Typed, TypeOK
    <3>2. Max(batch) \in Nat /\ batch \in SUBSET Tickets /\ at \in Nat
      BY <2>4, <3>1, BatchMax DEF NextBatch
    <3>3. Goto(w, k)
      BY <1>3, <2>4 DEF RecalcRead
    <3> HIDE DEF batch, at
    <3>4. k \in JobRow
      BY <1>1, <3>2 DEF JobRow, JobSteps, Section
    <3>5. k.pc = "recalc.write" /\ k.prio = j.prio /\ k.expired = j.expired
      BY <1>1 DEF JobRow
    <3> HIDE DEF k
    <3>6. JobSound(k) /\ KeepsLock(w, k)
      BY <1>1, <2>1, <3>5 DEF JobSound, Owing, KeepsLock, InSection, Section
    <3>7. QED
      BY <1>1, <2>1, <2>2, <3>3, <3>4, <3>6, JobStep
  <2>5. QED
    BY <2>3, <2>4
<1>4. CASE RecalcWrite(w)
  <2> DEFINE due(t) == ticket[t].createdAt + j.resolution
             row(t) == WithSla(ticket[t], due(t), BatchStatusAt(due(t), j.resolution, j.at))
             k == [j EXCEPT !.pc = "recalc.read", !.batch = {}]
  <2>1. /\ j.pc = "recalc.write" /\ UNCHANGED <<lock, edits, faults>> /\ OnlyTickets
        /\ Goto(w, k)
        /\ ticket' = [t \in Tickets |-> IF t \in j.batch /\ Recalculable(t) THEN row(t)
                                                                            ELSE ticket[t]]
    BY <1>4 DEF RecalcWrite, OnlyTickets
  <2>2. ticket \in [Tickets -> TicketRow] /\ j.resolution \in Nat /\ j.at \in Nat
    BY <1>1 DEF Typed, TypeOK, JobRow
  <2>3. \A t \in Tickets : row(t) \in TicketRow /\ row(t).priority = ticket[t].priority
    <3> TAKE t \in Tickets
    <3>1. due(t) \in Nat
      BY <2>2 DEF TicketRow
    <3>2. BatchStatusAt(due(t), j.resolution, j.at) \in SlaStatuses
      BY <2>2, <3>1, BatchStatusType
    <3> HIDE DEF due
    <3>3. QED
      BY <2>2, <3>1, <3>2, WithSlaType
  <2> HIDE DEF row
  <2>4. Typed'
    BY <1>1, <2>1, <2>2, <2>3, TicketsWritten
  <2>5. k \in JobRow
    BY <1>1 DEF JobRow, JobSteps, Section
  <2>6. k.pc = "recalc.read" /\ k.prio = j.prio /\ k.expired = j.expired
    BY <1>1 DEF JobRow
  <2> HIDE DEF k
  <2>7. JobSound(k) /\ KeepsLock(w, k)
    BY <1>1, <2>1, <2>6 DEF JobSound, Owing, KeepsLock, InSection, Section
  <2>8. QED
    BY <1>1, <2>1, <2>4, <2>5, <2>7, JobStep
<1>5. QED
  BY <1>2, <1>3, <1>4

LEMMA ClearSound ==
  ASSUME SlaSound, NEW w \in Workers, Clear(w) \/ Release(w)
  PROVE  SlaSound'
<1> DEFINE j == job[w]
<1>1. /\ j \in JobRow /\ JobSound(j) /\ Typed
      /\ edits \in 0 .. MaxEdits /\ faults \in 0 .. MaxFaults
  BY SoundParts
<1>2. CASE Clear(w)
  <2>1. /\ UNCHANGED <<lock, edits, faults>> /\ OnlyTickets /\ Goto(w, IdleJob)
        /\ ticket' = [t \in Tickets |-> IF OpenTicket(t) /\ ticket[t].priority = j.prio
                                           THEN WithSla(ticket[t], None, None)
                                           ELSE ticket[t]]
    BY <1>2 DEF Clear, OnlyTickets
  <2>2. ticket \in [Tickets -> TicketRow]
    BY <1>1 DEF Typed, TypeOK
  <2>3. Typed'
    BY <1>1, <2>1, <2>2, WithSlaType, TicketsWritten
  <2>4. QED
    BY <1>1, <2>1, <2>3, IdleJobSound, JobStep DEF KeepsLock
<1>3. CASE Release(w)
  <2>1. /\ lock' = AfterRelease(w) /\ Goto(w, AfterRecalc(j))
        /\ UNCHANGED <<vars, edits, faults>>
    BY <1>3 DEF Release, OnlyJob
  <2>2. GivesLock(w, AfterRecalc(j)) /\ Typed'
    BY <1>1, <2>1, AfterRecalcSound, TablesKept DEF GivesLock
  <2>3. QED
    BY <1>1, <2>1, <2>2, AfterRecalcSound, JobStep
<1>4. QED
  BY <1>2, <1>3

-------------------------------------------------------------------------------
(* The administrator's requests.                                            *)

LEMMA RequestCounted ==
  ASSUME SlaSound, NEW w \in Workers, Request(w)
  PROVE  edits' \in 0 .. MaxEdits
  BY EngineAssumption DEF Request, SlaSound, SlaTypeOK

LEMMA UpdatedType ==
  ASSUME NEW row \in ConfigRow, NEW patch \in Patches
  PROVE  Updated(row, patch) \in ConfigRow
<1>1. /\ patch.response \in Nat \cup {None} /\ patch.resolution \in Nat \cup {None}
      /\ patch.active \in BOOLEAN \cup {None}
  BY EngineAssumption DEF Patch
<1>2. row.response \in Nat /\ row.resolution \in Nat /\ row.active \in BOOLEAN
  BY DEF ConfigRow
<1>3. /\ Or(patch.response, row.response) \in Nat
      /\ Or(patch.resolution, row.resolution) \in Nat
      /\ Or(patch.active, row.active) \in BOOLEAN
  BY <1>1, <1>2 DEF Or
<1>4. QED
  BY <1>3 DEF Updated, ConfigRow

LEMMA EditSound ==
  ASSUME SlaSound, NEW w \in Workers,
         ConfigCreate(w) \/ ConfigUpdateRead(w) \/ ConfigDeleteCheck(w)
  PROVE  SlaSound'
<1>1. Typed /\ edits \in 0 .. MaxEdits /\ faults \in 0 .. MaxFaults
  BY SoundParts
<1>2. CASE ConfigCreate(w)
  <2>1. PICK p \in Priorities, row \in NewConfigs :
          /\ Request(w) /\ config' = [config EXCEPT ![p] = row]
          /\ Goto(w, Recalculate(p, row.resolution, FALSE))
          /\ UNCHANGED <<ticketVars, user, now, req, lock, faults>>
    BY <1>2 DEF ConfigCreate
  <2>2. row \in ConfigRow
    BY EngineAssumption
  <2>3. row.resolution \in Nat
    BY <2>2 DEF ConfigRow
  <2>4. config' \in [Priorities -> ConfigRow \cup {None}]
    BY <1>1, <2>1, <2>2 DEF Typed, TypeOK
  <2>5. Typed'
    BY <1>1, <2>1, <2>4, ConfigsWritten
  <2> DEFINE k == Recalculate(p, row.resolution, FALSE)
  <2>6. k \in JobRow /\ JobSound(k) /\ k.pc = "recalc.lock"
    BY <2>3, RecalculateSound
  <2> HIDE DEF k
  <2>7. KeepsLock(w, k)
    BY <2>1, <2>6 DEF KeepsLock, Section
  <2>8. QED
    BY <1>1, <2>1, <2>5, <2>6, <2>7, RequestCounted, JobStep DEF k
<1>3. CASE ConfigUpdateRead(w)
  <2>1. PICK p \in Priorities, patch \in Patches :
          /\ Request(w)
          /\ Goto(w, [IdleJob EXCEPT !.pc = "update.write", !.prio = p, !.patch = patch])
          /\ UNCHANGED <<vars, lock, faults>>
    BY <1>3 DEF ConfigUpdateRead
  <2> DEFINE k == [IdleJob EXCEPT !.pc = "update.write", !.prio = p, !.patch = patch]
  <2>2. k \in JobRow
    BY IdleJobSound DEF JobRow, JobSteps
  <2>3. k.pc = "update.write" /\ k.prio = p /\ k.patch = patch
    BY DEF IdleJob
  <2>4. Goto(w, k)
    BY <2>1
  <2> HIDE DEF k
  <2>5. JobSound(k) /\ KeepsLock(w, k)
    BY <2>1, <2>3 DEF JobSound, KeepsLock, Section
  <2>6. QED
    BY <1>1, <2>1, <2>2, <2>4, <2>5, RequestCounted, TablesKept, JobStep
<1>4. CASE ConfigDeleteCheck(w)
  <2>1. PICK p \in Priorities :
          /\ Request(w)
          /\ Goto(w, [IdleJob EXCEPT !.pc = "delete.write", !.prio = p])
          /\ UNCHANGED <<vars, lock, faults>>
    BY <1>4 DEF ConfigDeleteCheck
  <2> DEFINE k == [IdleJob EXCEPT !.pc = "delete.write", !.prio = p]
  <2>2. k \in JobRow
    BY IdleJobSound DEF JobRow, JobSteps
  <2>3. k.pc = "delete.write" /\ k.prio = p
    BY DEF IdleJob
  <2>4. Goto(w, k)
    BY <2>1
  <2> HIDE DEF k
  <2>5. JobSound(k) /\ KeepsLock(w, k)
    BY <2>1, <2>3 DEF JobSound, KeepsLock, Section
  <2>6. QED
    BY <1>1, <2>1, <2>2, <2>4, <2>5, RequestCounted, TablesKept, JobStep
<1>5. QED
  BY <1>2, <1>3, <1>4

LEMMA ConfigWriteSound ==
  ASSUME SlaSound, NEW w \in Workers, ConfigUpdateWrite(w) \/ ConfigDeleteWrite(w)
  PROVE  SlaSound'
<1> DEFINE j == job[w]
           p == job[w].prio
<1>1. /\ j \in JobRow /\ JobSound(j) /\ Typed
      /\ edits \in 0 .. MaxEdits /\ faults \in 0 .. MaxFaults
  BY SoundParts
<1>2. config \in [Priorities -> ConfigRow \cup {None}]
  BY <1>1 DEF Typed, TypeOK
<1>3. CASE ConfigUpdateWrite(w)
  <2> DEFINE row == Updated(config[p], j.patch)
             k == Recalculate(p, row.resolution, j.patch.active = FALSE)
  <2>1. /\ j.pc = "update.write"
        /\ UNCHANGED <<ticketVars, user, now, req, lock, edits, faults>>
    BY <1>3 DEF ConfigUpdateWrite
  <2>2. p \in Priorities /\ j.patch \in Patches
    BY <1>1, <2>1 DEF JobSound, Owing
  <2>3. CASE config[p] = None
    <3>1. UNCHANGED config /\ Goto(w, IdleJob)
      BY <1>3, <2>3 DEF ConfigUpdateWrite
    <3>2. Typed'
      BY <1>1, <1>2, <2>1, <3>1, ConfigsWritten
    <3>3. QED
      BY <1>1, <2>1, <3>1, <3>2, IdleJobSound, JobStep DEF KeepsLock
  <2>4. CASE config[p] # None
    <3>1. /\ config' = [config EXCEPT ![p] = row]
          /\ Goto(w, k) \/ Goto(w, AfterRecalc(k))
      BY <1>3, <2>4 DEF ConfigUpdateWrite
    <3>2. row \in ConfigRow
      BY <1>2, <2>2, <2>4, UpdatedType
    <3>3. row.resolution \in Nat
      BY <3>2 DEF ConfigRow
    <3> HIDE DEF row
    <3>4. Typed'
      BY <1>1, <1>2, <2>1, <2>2, <3>1, <3>2, ConfigsWritten
    <3>5. k \in JobRow /\ JobSound(k) /\ k.pc = "recalc.lock"
      BY <2>2, <3>3, RecalculateSound
    <3> HIDE DEF k
    <3>6. KeepsLock(w, k) /\ KeepsLock(w, AfterRecalc(k))
      BY <2>1, <3>5, AfterRecalcSound DEF KeepsLock, Section
    <3>7. QED
      BY <1>1, <2>1, <3>1, <3>4, <3>5, <3>6, AfterRecalcSound, JobStep
  <2>5. QED
    BY <2>3, <2>4
<1>4. CASE ConfigDeleteWrite(w)
  <2>1. /\ config' = [config EXCEPT ![p] = None] /\ Goto(w, IdleJob)
        /\ UNCHANGED <<ticketVars, user, now, req, lock, edits, faults>>
    BY <1>4 DEF ConfigDeleteWrite
  <2>2. Typed'
    BY <1>1, <1>2, <2>1, ConfigsWritten
  <2>3. QED
    BY <1>1, <2>1, <2>2, IdleJobSound, JobStep DEF KeepsLock
<1>5. QED
  BY <1>3, <1>4

-------------------------------------------------------------------------------
(* Time and faults.                                                         *)

LEMMA FaultSound ==
  ASSUME SlaSound, NEW w \in Workers, Crash(w) \/ Fail(w) \/ RedisFails(w)
  PROVE  SlaSound'
<1> DEFINE j == job[w]
<1>1. /\ j \in JobRow /\ JobSound(j) /\ Typed
      /\ edits \in 0 .. MaxEdits /\ faults \in 0 .. MaxFaults
  BY SoundParts
<1>2. UNCHANGED <<vars, lock, edits>> /\ faults' \in 0 .. MaxFaults
  BY <1>1, EngineAssumption DEF Crash, Fail, RedisFails, Fault
<1>3. Typed'
  BY <1>1, <1>2, TablesKept
<1>4. CASE Goto(w, IdleJob)
  BY <1>1, <1>2, <1>3, <1>4, IdleJobSound, JobStep DEF KeepsLock
<1>5. CASE InSection(w) /\ Goto(w, [Leaving(j) EXCEPT !.deactivate = FALSE])
  <2> DEFINE l == Leaving(j)
             k == [l EXCEPT !.deactivate = FALSE]
  <2>1. l \in JobRow /\ l.pc = "release" /\ l.expired = j.expired
    BY <1>1, LeavingSound
  <2> HIDE DEF l
  <2>2. k \in JobRow /\ k.pc = "release" /\ k.expired = j.expired /\ k.deactivate = FALSE
    BY <2>1 DEF JobRow
  <2>3. Goto(w, k)
    BY <1>5 DEF l
  <2> HIDE DEF k
  <2>4. JobSound(k) /\ KeepsLock(w, k)
    BY <1>2, <1>5, <2>2 DEF JobSound, Owing, KeepsLock
  <2>5. QED
    BY <1>1, <1>2, <1>3, <2>2, <2>3, <2>4, JobStep
<1>6. CASE Goto(w, AfterRecalc(j))
  BY <1>1, <1>2, <1>3, <1>6, AfterRecalcSound, JobStep DEF KeepsLock
<1>7. QED
  BY <1>4, <1>5, <1>6 DEF Crash, Fail, RedisFails

LEMMA ExpirySound ==
  ASSUME SlaSound, LockExpires
  PROVE  SlaSound'
<1>1. lock \in Workers /\ lock' = None /\ UNCHANGED <<vars, edits, faults>>
  BY DEF LockExpires, OnlyJob, SlaSound, SlaTypeOK
<1> DEFINE k == [job[lock] EXCEPT !.expired = InSection(lock)]
<1>2. job' = [job EXCEPT ![lock] = k]
  BY <1>1 DEF LockExpires, SlaSound, SlaTypeOK
<1>3. job[lock] \in JobRow /\ JobSound(job[lock]) /\ Typed
  BY <1>1, SoundParts
<1>4. InSection(lock) \in BOOLEAN
  BY DEF InSection
<1>5. k \in JobRow
  BY <1>3, <1>4 DEF JobRow
<1>6. k.pc = job[lock].pc /\ k.prio = job[lock].prio /\ k.patch = job[lock].patch
      /\ k.deactivate = job[lock].deactivate /\ k.expired = InSection(lock)
  BY <1>3 DEF JobRow
<1> HIDE DEF k
<1>7. job' \in [Workers -> JobRow] /\ JobsSound'
  BY <1>1, <1>2, <1>3, <1>5, <1>6 DEF SlaSound, SlaTypeOK, JobsSound, JobSound
<1>8. SectionHeld'
  BY <1>1, <1>2, <1>6 DEF SlaSound, SlaTypeOK, SectionHeld, InSection
<1>9. Typed'
  BY <1>1, <1>3, TablesKept
<1>10. QED
  BY <1>1, <1>7, <1>8, <1>9 DEF SlaSound, SlaTypeOK, Typed

LEMMA OthersSound ==
  ASSUME SlaSound, Typed', UNCHANGED slaVars
  PROVE  SlaSound'
  BY DEF slaVars, SlaSound, SlaTypeOK, Typed, JobsSound, SectionHeld, InSection

LEMMA TickTyped ==
  ASSUME Typed, Tick
  PROVE  Typed'
<1>1. now' \in Nat
  BY EngineAssumption DEF Tick
<1>2. QED
  BY <1>1 DEF Tick, ticketVars, Typed, TypeOK, RowsSound, RequestsSound, Live

LEMMA SlaStepSound == SlaSound /\ [SlaNext]_allVars => SlaSound'
<1> SUFFICES ASSUME SlaSound, [SlaNext]_allVars PROVE SlaSound'
  OBVIOUS
<1>1. Typed
  BY DEF SlaSound
<1>2. ASSUME NEW w \in Workers, CronAcquire(w) \/ Step(w) PROVE SlaSound'
  BY <1>2, CronSound, RecalcSound, ClearSound, ConfigWriteSound DEF Step
<1>3. ASSUME NEW w \in Workers,
             \/ ConfigCreate(w) \/ ConfigUpdateRead(w) \/ ConfigDeleteCheck(w)
             \/ Crash(w) \/ Fail(w) \/ RedisFails(w)
      PROVE  SlaSound'
  BY <1>3, EditSound, FaultSound
<1>4. CASE LockExpires
  BY <1>4, ExpirySound
<1>5. CASE Tick
  BY <1>1, <1>5, TickTyped, OthersSound DEF Tick
<1>6. CASE Next /\ UNCHANGED slaVars
  BY <1>1, <1>6, TypedStep, OthersSound
<1>7. CASE UNCHANGED allVars
  BY <1>1, <1>7, TablesKept, OthersSound DEF allVars
<1>8. QED
  BY <1>2, <1>3, <1>4, <1>5, <1>6, <1>7 DEF SlaNext, Engine

\* However cron runs, configuration requests, handlers, expiries, crashes and errors
\* interleave, workers and tables keep what the next steps of SLAService rely on.
THEOREM SlaSoundness == SlaSpec => []SlaSound
  BY SlaInitSound, SlaStepSound, PTL DEF SlaSpec

\* The tables, the lock and what each worker of SLAService remembers keep their types.
THEOREM SlaTypeCorrect == SlaSpec => []SlaTypeOK
<1>1. SlaSound => SlaTypeOK
  BY DEF SlaSound
<1>2. QED
  BY SlaSoundness, <1>1, PTL

\* A worker in the section holds the lock of SLAService unless the key expired under it:
\* nobody takes over a held lock or gives back another's (RELEASE_LOCK_SCRIPT).
THEOREM SectionCorrect == SlaSpec => []SectionHeld
<1>1. SlaSound => SectionHeld
  BY DEF SlaSound
<1>2. QED
  BY SlaSoundness, <1>1, PTL

-------------------------------------------------------------------------------
(* The deadline of a terminal ticket.                                       *)

DeadlineMoved(t) ==
  Live(t) /\ Terminal(t) /\ Live(t)' /\ ticket'[t].slaDueAt # ticket[t].slaDueAt

HandlerMovesIt(t) ==
  \E r \in Requests : /\ req[r].pc \in {"priority.write", "reopen.write"}
                      /\ req[r].ticket = t /\ req'[r] # req[r]

DeadlinesKept == \A t \in Tickets : DeadlineMoved(t) => HandlerMovesIt(t)

LEMMA DueUntouched ==
  ASSUME \A t \in Tickets : ticket'[t].slaDueAt = ticket[t].slaDueAt
  PROVE  DeadlinesKept
  BY DEF DeadlinesKept, DeadlineMoved

\* The two handlers that write a deadline do it at the end of their request.
LEMMA FinishMoves ==
  ASSUME Typed, NEW r \in Requests, Finish(r), req[r].pc # "idle"
  PROVE  req'[r] # req[r]
  BY DEF Finish, Idle, Typed, TypeOK

LEMMA HandlerKeeps ==
  ASSUME Typed, NEW r \in Requests, Handler(r)
  PROVE  DeadlinesKept
<1> DEFINE q == req[r]
           x == req[r].ticket
<1>1. ticket \in [Tickets -> TicketRow] /\ phase \in [Tickets -> {"never", "live", "deleted"}]
  BY DEF Typed, TypeOK
<1>2. CASE UNCHANGED ticket
  BY <1>2, DueUntouched
<1>3. CASE CreateCommit(r)
  BY <1>1, <1>3 DEF CreateCommit, DeadlinesKept, DeadlineMoved, Live
<1>4. CASE StatusCommit(r)
  <2>1. \A row \in TicketRow : Moved(row, q.seen, q.to).slaDueAt = row.slaDueAt
    BY DEF Moved, TicketRow
  <2>2. QED
    BY <1>1, <1>4, <2>1, DueUntouched DEF StatusCommit
<1>5. CASE ReopenWriteSla(r)
  <2>1. req'[r] # req[r] /\ q.pc = "reopen.write"
    BY <1>5, FinishMoves DEF ReopenWriteSla
  <2>2. \A t \in Tickets : t # x => ticket'[t] = ticket[t]
    BY <1>1, <1>5 DEF ReopenWriteSla
  <2>3. QED
    BY <2>1, <2>2 DEF DeadlinesKept, DeadlineMoved, HandlerMovesIt
<1>6. CASE AssignCommit(r)
  <2>1. \A t \in Tickets : [ticket[t] EXCEPT !.assignee = q.to].slaDueAt = ticket[t].slaDueAt
    BY <1>1 DEF TicketRow
  <2>2. QED
    BY <1>1, <1>6, <2>1, DueUntouched DEF AssignCommit
<1>7. CASE PriorityCommit(r)
  <2>1. req'[r] # req[r] /\ q.pc = "priority.write"
    BY <1>7, FinishMoves DEF PriorityCommit
  <2>2. \A t \in Tickets : t # x => ticket'[t] = ticket[t]
    BY <1>1, <1>7 DEF PriorityCommit
  <2>3. QED
    BY <2>1, <2>2 DEF DeadlinesKept, DeadlineMoved, HandlerMovesIt
<1>8. CASE DeleteCommit(r)
  BY <1>1, <1>8 DEF DeleteCommit, DeadlinesKept, DeadlineMoved, Live
<1>9. \/ UNCHANGED ticket \/ CreateCommit(r) \/ StatusCommit(r) \/ ReopenWriteSla(r)
      \/ AssignCommit(r) \/ PriorityCommit(r) \/ DeleteCommit(r)
  BY DEF Handler, CreateRead, CreateAbort, StatusRead, StatusAbort, ReopenReadConfig,
         AssignRead, AssignCheck, AssignAbort, PriorityRead, PriorityReadConfig,
         PriorityAbort, DeleteRead, DeleteAbort, Begin, Abort, ticketVars
<1>10. QED
  BY <1>2, <1>3, <1>4, <1>5, <1>6, <1>7, <1>8, <1>9

LEMMA AdministrationKeeps ==
  ASSUME Typed, Administration
  PROVE  DeadlinesKept
<1>1. ticket \in [Tickets -> TicketRow]
  BY DEF Typed, TypeOK
<1>2. \A t \in Tickets : [ticket[t] EXCEPT !.assignee = None].slaDueAt = ticket[t].slaDueAt
  BY <1>1 DEF TicketRow
<1>3. PICK u \in EditedUsers : UpdateUser(u) \/ DeleteUser(u)
  BY DEF Administration
<1>4. CASE UpdateUser(u)
  BY <1>4, DueUntouched DEF UpdateUser, ticketVars
<1>5. CASE DeleteUser(u)
  BY <1>2, <1>5, DueUntouched DEF DeleteUser
<1>6. QED
  BY <1>3, <1>4, <1>5

\* CronWrite changes the light only; RecalcWrite and Clear test that the ticket is open.
LEMMA EngineKeeps ==
  ASSUME Typed, Engine
  PROVE  DeadlinesKept
<1>1. ticket \in [Tickets -> TicketRow]
  BY DEF Typed, TypeOK
<1>2. CASE UNCHANGED ticket
  BY <1>2, DueUntouched
<1>3. ASSUME NEW w \in Workers, CronWrite(w) PROVE DeadlinesKept
  <2>1. PICK s \in SlaStatuses :
          ticket' = [t \in Tickets |-> IF Live(t) /\ t \in job[w].pending[s]
                                         THEN [ticket[t] EXCEPT !.slaStatus = s]
                                         ELSE ticket[t]]
    BY <1>3 DEF CronWrite
  <2>2. \A t \in Tickets : [ticket[t] EXCEPT !.slaStatus = s].slaDueAt = ticket[t].slaDueAt
    BY <1>1 DEF TicketRow
  <2>3. QED
    BY <2>1, <2>2, DueUntouched
<1>4. ASSUME NEW w \in Workers, RecalcWrite(w) \/ Clear(w) PROVE DeadlinesKept
  BY <1>4 DEF RecalcWrite, Clear, Recalculable, OpenTicket, DeadlinesKept, DeadlineMoved
<1>5. \/ UNCHANGED ticket
      \/ \E w \in Workers : CronWrite(w) \/ RecalcWrite(w) \/ Clear(w)
  BY DEF Engine, Step, CronAcquire, CronReadConfigs, CronReadBatch, RecalcAcquire, RecalcRead,
         ConfigUpdateWrite, ConfigDeleteWrite, Release, ConfigCreate, ConfigUpdateRead,
         ConfigDeleteCheck, Crash, Fail, RedisFails, LockExpires, Tick, OnlyJob, vars, ticketVars
<1>6. QED
  BY <1>2, <1>3, <1>4, <1>5

\* A recalculation, a clearing or a cron run never moves the deadline of a ticket that was
\* resolved or closed under it; only updatePriority and the reopening write it.
THEOREM TerminalDeadlineCorrect == SlaSpec => TerminalDeadlineKept
<1>1. Typed /\ [SlaNext]_allVars => [DeadlinesKept]_allVars
  BY HandlerKeeps, AdministrationKeeps, EngineKeeps DEF SlaNext, Next
<1>2. SlaSound => Typed
  BY DEF SlaSound
<1>3. SlaSpec => [][DeadlinesKept]_allVars
  BY <1>1, <1>2, SlaSoundness, PTL DEF SlaSpec
<1>4. QED
  BY <1>3 DEF TerminalDeadlineKept, DeadlinesKept, DeadlineMoved, HandlerMovesIt

===============================================================================
