--------------------------- MODULE MaintenanceProofs ---------------------------
(***************************************************************************)
(* The safety properties of Maintenance for any number of administrators'  *)
(* requests and of API instances, and without its bounds on directories    *)
(* and faults (both are any natural number).                               *)
(***************************************************************************)
EXTENDS Maintenance, TLAPS

\* Between making a directory and its second archive, a worker writes into it.
Writers   == {"backup.dump", "backup.gzip", "backup.tar"}
Writer(j) == j.pc \in Writers

\* What a request knows of itself when it relies on it.
JobSound(j) ==
  /\ Writer(j) => j.id # 0
  /\ j.pc \in {"backup.gzip", "restore.imported"} => j.cap # None
  /\ (j.pc \in InRestore \/ j.restoring) => j.src # 0
  /\ j.pc = "restore.lock" => j.src # 0
  /\ j.pc \in {"restore.lock", "restore.on", "restore.expire", "restore.drain"} => ~j.restoring
  /\ j.restoring => j.stale = {}

JobsSound == \A w \in Workers : JobSound(job[w])

\* Directories are numbered as they are made; what is being written is unfinished; the
\* source of a restore is complete, or deleted.
WholeArchives == [db : {"whole", "torn"}, uploads : {"whole"}]

Unfinished(j) ==
  Writer(j) => (disk[j.id] = None \/ disk[j.id].uploads # "whole")

Sourced(j) == j.src # 0 => disk[j.src] \in {None} \cup WholeArchives

FilesSound ==
  /\ \A b \in Backups : b > made => disk[b] = None
  /\ \A w \in Workers : /\ job[w].id <= made /\ job[w].src <= made /\ job[w].pre <= made
                        /\ Unfinished(job[w]) /\ Sourced(job[w])

\* No directory has two writers.
Exclusive ==
  \A v, w \in Workers :
    (v # w /\ Writer(job[v]) /\ Writer(job[w])) => job[v].id # job[w].id

\* A restore that lost its lock at work is an overrun.
OverrunSound == \A w \in Workers : job[w].lostRestore => overrun

\* While a restore has the flag on, no guard has a FALSE in its cache, or on its way from
\* Redis, but one from before.
Quiet(j) ==
  j.held =>
    /\ mode # "off"
    /\ \A i \in Instances : cache[i] = FALSE => i \in j.stale
    /\ \A g \in Guests :
         (guest[g].pc = "read" /\ ~guest[g].flag) => g \in j.stale \/ guest[g].late

QuietSound == \A w \in Workers : Quiet(job[w])

\* How far the backup of a restore has come that has nobody beside it.
Copy == [db |-> Dumped(db), uploads |-> "whole"]

BackedUp(j) ==
  ~overrun =>
    /\ (j.pc = "backup.gzip" /\ j.restoring) => j.cap = Dumped(db)
    /\ (j.pc = "backup.tar" /\ j.restoring)
         => disk[j.id] = None \/ disk[j.id].db = Dumped(db)
    /\ (j.pc = "backup.release" /\ j.restoring /\ j.id # 0) => disk[j.id] \in {None, Copy}
    /\ j.pc = "restore.drop" => j.pre # 0 /\ disk[j.pre] \in {None, Copy}

BackupsSound == \A w \in Workers : BackedUp(job[w])

MaintSound ==
  /\ MaintTypeOK /\ JobsSound /\ FilesSound /\ Exclusive /\ LocksHeld
  /\ OverrunSound /\ QuietSound /\ BackupsSound

-------------------------------------------------------------------------------
(* Records.                                                                 *)

LEMMA IdleRow ==
  /\ Idle \in JobRow /\ JobSound(Idle)
  /\ Idle.pc = "idle" /\ Idle.src = 0 /\ Idle.id = 0 /\ Idle.pre = 0 /\ Idle.cap = None
  /\ Idle.restoring = FALSE /\ Idle.held = FALSE /\ Idle.stale = {}
  /\ Idle.lostBackup = FALSE /\ Idle.lostRestore = FALSE
  BY MaintenanceAssumption
  DEF Idle, JobRow, JobSteps, JobSound, Writer, Writers, InRestore, InBackup

LEMMA GoRow ==
  ASSUME NEW j \in JobRow, NEW pc \in JobSteps
  PROVE  LET k == [j EXCEPT !.pc = pc]
         IN  /\ k \in JobRow /\ k.pc = pc
             /\ k.src = j.src /\ k.id = j.id /\ k.pre = j.pre /\ k.cap = j.cap
             /\ k.restoring = j.restoring /\ k.held = j.held /\ k.stale = j.stale
             /\ k.lostBackup = j.lostBackup /\ k.lostRestore = j.lostRestore
  BY DEF JobRow

LEMMA Pcs ==
  InBackup \subseteq JobSteps /\ InRestore \subseteq JobSteps
  BY DEF JobSteps

LEMMA MaintInitSound == MaintInit => MaintSound
<1> SUFFICES ASSUME MaintInit PROVE MaintSound
  OBVIOUS
<1>1. job = [w \in Workers |-> Idle] /\ made = 1
  BY DEF MaintInit
<1>2. \A w \in Workers : job[w] = Idle
  BY <1>1
<1>3. MaintTypeOK
  <2>1. Complete \in Archives /\ 1 \in Backups
    BY MaintenanceAssumption DEF Complete, Archives, Backups
  <2>2. disk \in [Backups -> Archives \cup {None}]
    BY <2>1 DEF MaintInit
  <2>3. job \in [Workers -> JobRow] /\ made \in Backups /\ faults \in 0 .. MaxFaults
    BY <1>1, <2>1, IdleRow, MaintenanceAssumption DEF MaintInit
  <2>4. QED
    BY <2>2, <2>3 DEF MaintInit, MaintTypeOK, NoRequest, GuestRow
<1>4. JobsSound /\ Exclusive /\ OverrunSound /\ QuietSound
  BY <1>2, IdleRow DEF JobsSound, Exclusive, OverrunSound, QuietSound, Quiet, Writer, Writers
<1>5. LocksHeld
  BY <1>2, IdleRow DEF LocksHeld, Backing, Restoring, InBackup, InRestore
<1>6. BackupsSound
  BY <1>2, IdleRow DEF BackupsSound, BackedUp
<1>7. FilesSound
  BY <1>1, <1>2, IdleRow
  DEF FilesSound, Unfinished, Sourced, Writer, Writers, MaintInit, Backups
<1>8. QED
  BY <1>3, <1>4, <1>5, <1>6, <1>7 DEF MaintSound
-------------------------------------------------------------------------------
(* What a step of one worker must show.                                     *)

\* Of another request only the history and the drained answers change.
Renewed(v) ==
  /\ job'[v].pc = job[v].pc /\ job'[v].src = job[v].src /\ job'[v].id = job[v].id
  /\ job'[v].pre = job[v].pre /\ job'[v].cap = job[v].cap
  /\ job'[v].restoring = job[v].restoring /\ (job[v].stale = {} => job'[v].stale = {})
  /\ job'[v].lostBackup = job[v].lostBackup /\ job'[v].lostRestore = job[v].lostRestore

OneMoves(w, k) ==
  /\ job' \in [Workers -> JobRow] /\ job'[w] = k
  /\ \A v \in Workers : v # w => Renewed(v)

LEMMA GotoMoves ==
  ASSUME MaintTypeOK, NEW w \in Workers, NEW k \in JobRow, Goto(w, k)
  PROVE  OneMoves(w, k) /\ \A v \in Workers : v # w => job'[v] = job[v]
  BY DEF MaintTypeOK, Goto, OneMoves, Renewed

LEMMA NotHeldRows ==
  ASSUME MaintTypeOK
  PROVE  /\ NotHeld \in [Workers -> JobRow]
         /\ \A v \in Workers :
              /\ NotHeld[v].pc = job[v].pc /\ NotHeld[v].src = job[v].src
              /\ NotHeld[v].id = job[v].id /\ NotHeld[v].pre = job[v].pre
              /\ NotHeld[v].cap = job[v].cap /\ NotHeld[v].restoring = job[v].restoring
              /\ NotHeld[v].stale = job[v].stale /\ NotHeld[v].held = FALSE
              /\ NotHeld[v].lostBackup = job[v].lostBackup
              /\ NotHeld[v].lostRestore = job[v].lostRestore
<1>1. \A v \in Workers : job[v] \in JobRow
  BY DEF MaintTypeOK
<1>2. \A j \in JobRow :
        LET k == [j EXCEPT !.held = FALSE]
        IN  /\ k \in JobRow /\ k.pc = j.pc /\ k.src = j.src /\ k.id = j.id /\ k.pre = j.pre
            /\ k.cap = j.cap /\ k.restoring = j.restoring /\ k.stale = j.stale
            /\ k.held = FALSE /\ k.lostBackup = j.lostBackup
            /\ k.lostRestore = j.lostRestore
  BY DEF JobRow
<1>3. QED
  BY <1>1, <1>2 DEF NotHeld

LEMMA NotHeldMoves ==
  ASSUME MaintTypeOK, NEW w \in Workers, job' = [NotHeld EXCEPT ![w] = Idle]
  PROVE  OneMoves(w, Idle) /\ \A v \in Workers : ~job'[v].held
<1>1. \A v \in Workers : job'[v] = IF v = w THEN Idle ELSE NotHeld[v]
  BY NotHeldRows
<1>2. job' \in [Workers -> JobRow]
  BY NotHeldRows, IdleRow
<1>3. QED
  BY <1>1, <1>2, NotHeldRows, IdleRow DEF OneMoves, Renewed

LEMMA JobsStep ==
  ASSUME JobsSound, NEW w \in Workers, NEW k \in JobRow, OneMoves(w, k), JobSound(k)
  PROVE  JobsSound'
<1> SUFFICES ASSUME NEW v \in Workers PROVE JobSound(job'[v])
  BY DEF JobsSound
<1>1. CASE v = w
  BY <1>1 DEF OneMoves
<1>2. CASE v # w
  BY <1>2 DEF OneMoves, Renewed, JobsSound, JobSound, Writer
<1>3. QED
  BY <1>1, <1>2

\* A worker makes the next directory, writes into its own, or deletes any.
DiskStep(w) ==
  /\ made' \in {made, made + 1}
  /\ \A b \in Backups : \/ disk'[b] \in {disk[b], None}
                        \/ b = made + 1 /\ made' = made + 1
                        \/ Writer(job[w]) /\ b = job[w].id /\ disk[b] # None

OwnFiles(w, k) ==
  /\ k.id \in {0, job[w].id} \/ (k.id = made + 1 /\ made' = made + 1)
  /\ k.pre \in {0, job[w].pre, job[w].id}
  /\ k.src \in {0, job[w].src} \/ (disk[k.src] \in WholeArchives /\ disk' = disk)
  /\ Writer(k) => /\ disk'[k.id] = None \/ disk'[k.id].uploads # "whole"
                  /\ \/ Writer(job[w]) /\ k.id = job[w].id
                     \/ k.id = made + 1 /\ made' = made + 1

\* The directories a row names are naturals, and zero or one of Backups.
LEMMA RowNumbers ==
  ASSUME NEW j \in JobRow
  PROVE  /\ j.id \in Nat /\ j.src \in Nat /\ j.pre \in Nat
         /\ j.id # 0 => j.id \in Backups
         /\ j.src # 0 => j.src \in Backups
         /\ j.pre # 0 => j.pre \in Backups
<1>1. j.id \in 0 .. MaxBackups /\ j.src \in 0 .. MaxBackups /\ j.pre \in 0 .. MaxBackups
  BY DEF JobRow
<1>2. QED
  BY <1>1, MaintenanceAssumption DEF Backups

LEMMA MadeNumber ==
  ASSUME MaintTypeOK
  PROVE  made \in Nat /\ Backups \subseteq Nat /\ \A v \in Workers : job[v] \in JobRow
<1>1. made \in Backups /\ job \in [Workers -> JobRow]
  BY DEF MaintTypeOK
<1>2. QED
  BY <1>1 DEF Backups

LEMMA FilesStep ==
  ASSUME MaintTypeOK, FilesSound, JobsSound, Exclusive,
         NEW w \in Workers, NEW k \in JobRow, OneMoves(w, k), JobSound(k),
         DiskStep(w), OwnFiles(w, k)
  PROVE  FilesSound' /\ Exclusive'
<1>1. /\ made \in Nat /\ Backups \subseteq Nat
      /\ \A v \in Workers : /\ job[v] \in JobRow /\ job[v].id \in Nat /\ job[v].src \in Nat
                            /\ job[v].pre \in Nat
      /\ k.id \in Nat /\ k.src \in Nat /\ k.pre \in Nat
      /\ \A v \in Workers : /\ job[v].id # 0 => job[v].id \in Backups
                            /\ job[v].src # 0 => job[v].src \in Backups
      /\ k.src # 0 => k.src \in Backups
  BY MadeNumber, RowNumbers
<1>2. \A b \in Backups : b > made' => disk'[b] = None
  <2>1. TAKE b \in Backups
  <2>2. HAVE b > made'
  <2>3. (b > made /\ b # made + 1) \/ (made' = made /\ b > made)
    BY <1>1, <2>2 DEF DiskStep
  <2>4. disk[b] = None
    BY <2>3 DEF FilesSound
  <2>5. ~(b = made + 1 /\ made' = made + 1)
    BY <1>1, <2>2
  <2>6. QED
    BY <2>4, <2>5 DEF DiskStep
<1>3. \A v \in Workers :
        job'[v].id <= made' /\ job'[v].src <= made' /\ job'[v].pre <= made'
  <2>1. TAKE v \in Workers
  <2>2. job[v].id <= made' /\ job[v].src <= made' /\ job[v].pre <= made'
    BY <1>1 DEF FilesSound, DiskStep
  <2>3. CASE v # w
    BY <2>2, <2>3 DEF OneMoves, Renewed
  <2>4. CASE v = w
    <3>1. k.src # 0 /\ disk[k.src] \in WholeArchives => k.src <= made'
      <4> SUFFICES ASSUME k.src # 0, disk[k.src] \in WholeArchives PROVE k.src <= made'
        OBVIOUS
      <4>1. disk[k.src] # None
        BY MaintenanceAssumption DEF WholeArchives, Archives
      <4>2. ~(k.src > made)
        BY <1>1, <4>1 DEF FilesSound
      <4>3. QED
        BY <1>1, <4>2 DEF DiskStep
    <3>2. job'[v] = k
      BY <2>4 DEF OneMoves
    <3>3. 0 <= made' /\ k.id <= made' /\ k.pre <= made'
      BY <1>1, <2>2, <2>4 DEF OwnFiles, DiskStep
    <3>4. k.src <= made'
      BY <1>1, <2>2, <2>4, <3>1, <3>3 DEF OwnFiles
    <3>5. QED
      BY <3>2, <3>3, <3>4
  <2>5. QED
    BY <2>3, <2>4
<1>4. ASSUME NEW v \in Workers, v # w, Writer(job[v])
      PROVE  disk'[job[v].id] \in {disk[job[v].id], None} /\ job[v].id \in Backups
  <2>1. job[v].id \in Backups /\ job[v].id <= made
    BY <1>1, <1>4 DEF JobsSound, JobSound, FilesSound
  <2>2. job[v].id # made + 1
    BY <1>1, <2>1
  <2>3. ~(Writer(job[w]) /\ job[v].id = job[w].id)
    BY <1>4 DEF Exclusive
  <2>4. QED
    BY <2>1, <2>2, <2>3 DEF DiskStep
<1>5. \A v \in Workers : Unfinished(job[v])'
  <2> SUFFICES ASSUME NEW v \in Workers, Writer(job'[v])
               PROVE  disk'[job'[v].id] = None \/ disk'[job'[v].id].uploads # "whole"
    BY DEF Unfinished, Writer
  <2>1. CASE v = w
    BY <2>1 DEF OneMoves, OwnFiles
  <2>2. CASE v # w
    <3>1. job'[v].id = job[v].id /\ Writer(job[v])
      BY <2>2 DEF OneMoves, Renewed, Writer
    <3>2. QED
      BY <1>4, <2>2, <3>1 DEF FilesSound, Unfinished
  <2>3. QED
    BY <2>1, <2>2
<1>6. ASSUME NEW b \in Backups, b <= made, disk[b] \in {None} \cup WholeArchives
      PROVE  disk'[b] \in {None} \cup WholeArchives
  <2>1. b # made + 1
    BY <1>1, <1>6
  <2>2. CASE Writer(job[w]) /\ b = job[w].id /\ disk[b] # None
    BY <1>6, <2>2 DEF FilesSound, Unfinished, WholeArchives
  <2>3. QED
    BY <1>6, <2>1, <2>2 DEF DiskStep
<1>7. \A v \in Workers : job'[v].src # 0 => disk'[job'[v].src] \in {None} \cup WholeArchives
  <2>1. TAKE v \in Workers
  <2>2. ASSUME NEW u \in Workers, job[u].src # 0
        PROVE  disk'[job[u].src] \in {None} \cup WholeArchives
    BY <1>1, <1>6, <2>2 DEF FilesSound, Sourced
  <2>3. CASE v = w
    BY <2>2, <2>3 DEF OneMoves, OwnFiles
  <2>4. CASE v # w
    BY <2>2, <2>4 DEF OneMoves, Renewed
  <2>5. QED
    BY <2>3, <2>4
<1>8. Exclusive'
  <2> SUFFICES ASSUME NEW u \in Workers, NEW v \in Workers, u # v,
                      Writer(job'[u]), Writer(job'[v])
               PROVE  job'[u].id # job'[v].id
    BY DEF Exclusive, Writer
  <2>1. ASSUME NEW x \in Workers, x # w, Writer(job'[x])
        PROVE  Writer(job[x]) /\ job'[x].id = job[x].id /\ job[x].id # made + 1
    <3>1. Writer(job[x]) /\ job'[x].id = job[x].id
      BY <2>1 DEF OneMoves, Renewed, Writer
    <3>2. QED
      BY <1>1, <3>1 DEF FilesSound
  <2>2. CASE u # w /\ v # w
    BY <2>1, <2>2 DEF Exclusive
  <2>3. CASE u = w /\ v # w
    BY <2>1, <2>3 DEF Exclusive, OneMoves, OwnFiles
  <2>4. CASE u # w /\ v = w
    BY <2>1, <2>4 DEF Exclusive, OneMoves, OwnFiles
  <2>5. QED
    BY <2>2, <2>3, <2>4
<1>9. QED
  BY <1>2, <1>3, <1>5, <1>7, <1>8 DEF FilesSound, Unfinished, Sourced, Writer

\* The two locks: kept as they were, taken when free, or given back.
KeepsBackup(w, k) ==
  backupLock' = backupLock /\
  (k.pc \in InBackup => Backing(w) /\ k.lostBackup = job[w].lostBackup)
TakesBackup(w)    == backupLock = None /\ backupLock' = w
GivesBackup(w, k) == backupLock' = Released(backupLock, w) /\ k.pc \notin InBackup

RestoringJob(k) == k.pc \in InRestore \/ k.restoring
KeepsRestore(w, k) ==
  restoreLock' = restoreLock /\
  (RestoringJob(k) => Restoring(w) /\ k.lostRestore = job[w].lostRestore)
TakesRestore(w)    == restoreLock = None /\ restoreLock' = w
GivesRestore(w, k) == restoreLock' = Released(restoreLock, w) /\ ~RestoringJob(k)

LEMMA LocksStep ==
  ASSUME MaintTypeOK, LocksHeld, NEW w \in Workers, NEW k \in JobRow, OneMoves(w, k),
         KeepsBackup(w, k) \/ TakesBackup(w) \/ GivesBackup(w, k),
         KeepsRestore(w, k) \/ TakesRestore(w) \/ GivesRestore(w, k)
  PROVE  LocksHeld'
<1>1. None \notin Workers
  BY MaintenanceAssumption
<1> SUFFICES ASSUME NEW v \in Workers
             PROVE  /\ (Backing(v)' /\ ~job'[v].lostBackup) => backupLock' = v
                    /\ (Restoring(v)' /\ ~job'[v].lostRestore) => restoreLock' = v
  BY DEF LocksHeld
<1>2. CASE v = w
  <2>1. job'[v] = k
    BY <1>2 DEF OneMoves
  <2>2. (k.pc \in InBackup /\ ~k.lostBackup) => backupLock' = v
    BY <1>2 DEF KeepsBackup, TakesBackup, GivesBackup, LocksHeld
  <2>3. (RestoringJob(k) /\ ~k.lostRestore) => restoreLock' = v
    BY <1>2 DEF KeepsRestore, TakesRestore, GivesRestore, LocksHeld
  <2>4. QED
    BY <2>1, <2>2, <2>3 DEF Backing, Restoring, RestoringJob
<1>3. CASE v # w
  <2>1. Renewed(v)
    BY <1>3 DEF OneMoves
  <2>2. /\ (Backing(v)' /\ ~job'[v].lostBackup) => backupLock = v
        /\ (Restoring(v)' /\ ~job'[v].lostRestore) => restoreLock = v
    BY <2>1 DEF Renewed, LocksHeld, Backing, Restoring
  <2>3. backupLock = v => backupLock' = v
    BY <1>1, <1>3 DEF KeepsBackup, TakesBackup, GivesBackup, Released
  <2>4. restoreLock = v => restoreLock' = v
    BY <1>1, <1>3 DEF KeepsRestore, TakesRestore, GivesRestore, Released
  <2>5. QED
    BY <2>2, <2>3, <2>4
<1>4. QED
  BY <1>2, <1>3

\* A restore that has neither lost its lock nor company is the only one.
LEMMA OnlyRestore ==
  ASSUME LocksHeld, OverrunSound, ~overrun, NEW v \in Workers, NEW w \in Workers,
         Restoring(v), Restoring(w)
  PROVE  v = w
  BY DEF LocksHeld, OverrunSound

DbStep(w) ==
  db' = db \/ job[w].pc \in {"restore.drop", "restore.import", "restore.imported"}

LEMMA BackupsStep ==
  ASSUME MaintTypeOK, FilesSound, JobsSound, Exclusive, LocksHeld, OverrunSound, BackupsSound,
         NEW w \in Workers, NEW k \in JobRow, OneMoves(w, k), DiskStep(w), DbStep(w),
         overrun' = overrun, BackedUp(job[w])'
  PROVE  BackupsSound'
<1> SUFFICES ASSUME NEW v \in Workers, v # w PROVE BackedUp(job[v])'
  BY DEF BackupsSound
<1> SUFFICES ASSUME ~overrun PROVE BackedUp(job[v])'
  BY DEF BackedUp
<1>1. Renewed(v) /\ BackedUp(job[v])
  BY DEF OneMoves, BackupsSound
<1>2. /\ job[v] \in JobRow /\ made \in Nat /\ Backups \subseteq Nat
      /\ job[v].id # 0 => job[v].id \in Backups
      /\ job[v].pre # 0 => job[v].pre \in Backups
      /\ job[v].id <= made /\ job[v].pre <= made
      /\ job[v].id \in Nat /\ job[v].pre \in Nat
  BY MadeNumber, RowNumbers DEF FilesSound
<1>3. (job[v].restoring \/ job[v].pc = "restore.drop") => db' = db
  <2> SUFFICES ASSUME job[v].restoring \/ job[v].pc = "restore.drop",
                      job[w].pc \in {"restore.drop", "restore.import", "restore.imported"}
               PROVE  FALSE
    BY DEF DbStep
  <2>1. Restoring(v) /\ Restoring(w)
    BY DEF Restoring, InRestore
  <2>2. QED
    BY <2>1, OnlyRestore
\* What another writes into is not finished, and not this one's.
<1>4. ASSUME NEW b \in Backups, b <= made, disk[b] \in {None, Copy}
      PROVE  disk'[b] \in {None, Copy}
  <2>1. b # made + 1
    BY <1>2, <1>4
  <2>2. CASE Writer(job[w]) /\ b = job[w].id /\ disk[b] # None
    BY <1>4, <2>2 DEF FilesSound, Unfinished, Copy
  <2>3. QED
    BY <1>4, <2>1, <2>2 DEF DiskStep
<1>5. ASSUME job[v].pc = "backup.gzip", job[v].restoring
      PROVE  job[v].cap = Dumped(db)'
  BY <1>1, <1>3, <1>5 DEF BackedUp
<1>6. ASSUME job[v].pc = "backup.tar", job[v].restoring
      PROVE  disk'[job[v].id] = None \/ disk'[job[v].id].db = Dumped(db)'
  <2>1. Writer(job[v]) /\ job[v].id \in Backups
    BY <1>2, <1>6 DEF Writer, Writers, JobsSound, JobSound
  <2>2. job[v].id # made + 1 /\ ~(Writer(job[w]) /\ job[v].id = job[w].id)
    BY <1>2, <2>1 DEF Exclusive
  <2>3. disk'[job[v].id] \in {disk[job[v].id], None}
    BY <2>1, <2>2 DEF DiskStep
  <2>4. QED
    BY <1>1, <1>3, <1>6, <2>3 DEF BackedUp
<1>7. ASSUME job[v].pc = "backup.release", job[v].restoring, job[v].id # 0
      PROVE  disk'[job[v].id] \in {None, Copy'}
  <2>1. disk'[job[v].id] \in {None, Copy}
    BY <1>1, <1>2, <1>4, <1>7 DEF BackedUp
  <2>2. QED
    BY <1>3, <1>7, <2>1 DEF Copy
<1>8. ASSUME job[v].pc = "restore.drop"
      PROVE  job[v].pre # 0 /\ disk'[job[v].pre] \in {None, Copy'}
  <2>1. job[v].pre # 0 /\ disk'[job[v].pre] \in {None, Copy}
    BY <1>1, <1>2, <1>4, <1>8 DEF BackedUp
  <2>2. QED
    BY <1>3, <1>8, <2>1 DEF Copy
<1>9. QED
  BY <1>1, <1>5, <1>6, <1>7, <1>8 DEF BackedUp, Renewed

\* The guards stand still, and the flag is not switched off.
LEMMA QuietStep ==
  ASSUME MaintTypeOK, QuietSound, NEW w \in Workers, NEW k \in JobRow, Goto(w, k),
         cache' = cache, guest' = guest, mode' # "off" \/ mode' = mode,
         k.held => job[w].held /\ job[w].stale \subseteq k.stale
  PROVE  QuietSound'
  BY GotoMoves DEF QuietSound, Quiet, OneMoves

LEMMA WorkerStep ==
  ASSUME MaintSound, NEW w \in Workers, NEW k \in JobRow, OneMoves(w, k), MaintTypeOK',
         JobSound(k), DiskStep(w), OwnFiles(w, k),
         KeepsBackup(w, k) \/ TakesBackup(w) \/ GivesBackup(w, k),
         KeepsRestore(w, k) \/ TakesRestore(w) \/ GivesRestore(w, k),
         k.lostRestore => job[w].lostRestore, overrun' = overrun,
         DbStep(w), QuietSound', BackedUp(job[w])'
  PROVE  MaintSound'
<1>1. JobsSound' /\ FilesSound' /\ Exclusive' /\ LocksHeld' /\ BackupsSound'
  BY JobsStep, FilesStep, LocksStep, BackupsStep DEF MaintSound
<1>2. OverrunSound'
  BY DEF MaintSound, OverrunSound, OneMoves, Renewed
<1>3. QED
  BY <1>1, <1>2 DEF MaintSound

\* Steps that change nothing but what the request knows.
Copying == {"backup.gzip", "backup.tar", "backup.release", "restore.drop"}

LEMMA Uncopied ==
  ASSUME NEW w \in Workers, job'[w].pc \notin Copying
  PROVE  BackedUp(job[w])'
  BY DEF BackedUp, Copying

LEMMA JobOnly ==
  ASSUME MaintSound, NEW w \in Workers, NEW k \in JobRow, Goto(w, k), JobSound(k),
         UNCHANGED <<redisVars, dataVars, guardVars, overrun>>, faults' \in 0 .. MaxFaults,
         k.id \in {0, job[w].id}, k.pre \in {0, job[w].pre, job[w].id},
         k.src \in {0, job[w].src} \/ disk[k.src] \in WholeArchives,
         Writer(k) => Writer(job[w]) /\ k.id = job[w].id,
         k.pc \in InBackup => Backing(w) /\ k.lostBackup = job[w].lostBackup,
         RestoringJob(k) => Restoring(w) /\ k.lostRestore = job[w].lostRestore,
         k.lostRestore => job[w].lostRestore,
         k.held => job[w].held /\ job[w].stale \subseteq k.stale,
         BackedUp(job[w])'
  PROVE  MaintSound'
<1>1. OneMoves(w, k) /\ MaintTypeOK
  BY GotoMoves DEF MaintSound
<1>2. /\ mode' = mode /\ backupLock' = backupLock /\ restoreLock' = restoreLock
      /\ db' = db /\ disk' = disk /\ made' = made /\ cache' = cache /\ guest' = guest
  BY DEF redisVars, dataVars, guardVars
<1>3. MaintTypeOK'
  BY <1>1, <1>2 DEF MaintTypeOK, OneMoves
<1>4. QuietSound'
  BY <1>1, <1>2, QuietStep DEF MaintSound
<1>5. DiskStep(w) /\ DbStep(w) /\ KeepsBackup(w, k) /\ KeepsRestore(w, k)
  BY <1>2 DEF DiskStep, DbStep, KeepsBackup, KeepsRestore
<1>6. OwnFiles(w, k)
  BY <1>2 DEF OwnFiles, MaintSound, FilesSound, Unfinished
<1>7. QED
  BY <1>1, <1>3, <1>4, <1>5, <1>6, WorkerStep

\* The request goes on to a step that relies on nothing new.
Plain == JobSteps \ (Writers \cup Copying \cup
                       {"restore.imported", "restore.lock", "restore.on", "restore.expire",
                        "restore.drain"})

LEMMA GoOnly ==
  ASSUME MaintSound, NEW w \in Workers, NEW pc \in Plain, Go(w, pc),
         UNCHANGED <<redisVars, dataVars, guardVars, overrun>>, faults' \in 0 .. MaxFaults,
         pc \in InBackup => Backing(w), pc \in InRestore => Restoring(w)
  PROVE  MaintSound'
<1> DEFINE j == job[w]
           k == [j EXCEPT !.pc = pc]
<1>1. j \in JobRow /\ JobSound(j) /\ pc \in JobSteps
  BY DEF MaintSound, MaintTypeOK, JobsSound, Plain
<1>2. /\ k \in JobRow /\ k.pc = pc
      /\ k.src = j.src /\ k.id = j.id /\ k.pre = j.pre /\ k.cap = j.cap
      /\ k.restoring = j.restoring /\ k.held = j.held /\ k.stale = j.stale
      /\ k.lostBackup = j.lostBackup /\ k.lostRestore = j.lostRestore
  BY <1>1, GoRow
<1>3. Goto(w, k)
  BY DEF Go
<1> HIDE DEF k
<1>4. ~Writer(k) /\ RestoringJob(k) => Restoring(w)
  BY <1>2 DEF RestoringJob, Restoring
<1>5. JobSound(k) /\ ~Writer(k)
  BY <1>1, <1>2 DEF Plain, JobSound, Writer, Writers, Copying, Restoring, InRestore
<1>6. BackedUp(job[w])'
  BY <1>2, <1>3, GotoMoves, Uncopied DEF OneMoves, MaintSound, Plain
<1>7. QED
  BY <1>2, <1>3, <1>4, <1>5, <1>6, JobOnly

LEMMA EndOnly ==
  ASSUME MaintSound, NEW w \in Workers, Goto(w, Idle),
         UNCHANGED <<redisVars, dataVars, guardVars, overrun>>, faults' \in 0 .. MaxFaults
  PROVE  MaintSound'
<1>1. BackedUp(job[w])'
  BY IdleRow, GotoMoves, Uncopied DEF OneMoves, MaintSound, Copying
<1>2. /\ ~Writer(Idle) /\ Idle.pc \notin InBackup /\ ~RestoringJob(Idle)
  BY IdleRow DEF Writer, Writers, InBackup, RestoringJob, InRestore
<1>3. QED
  BY <1>1, <1>2, IdleRow, JobOnly

LEMMA FaultCounted ==
  ASSUME MaintSound, Faulty
  PROVE  faults' \in 0 .. MaxFaults
  BY MaintenanceAssumption DEF Faulty, MaintSound, MaintTypeOK

LEMMA CheckSound ==
  ASSUME MaintSound, NEW w \in Workers,
         \/ ModeOffCheck(w) \/ ModeOffUnchecked(w)
         \/ BackupCheckMode(w) \/ BackupCheckRestore(w) \/ Deleted(w)
         \/ RestoreUploads(w) \/ RestoreCheck(w)
  PROVE  MaintSound'
<1>1. UNCHANGED <<redisVars, dataVars, guardVars, overrun>> /\ faults' \in 0 .. MaxFaults
  BY FaultCounted
  DEF ModeOffCheck, ModeOffUnchecked, BackupCheckMode, BackupCheckRestore, Deleted,
      RestoreUploads, RestoreCheck, OnlyJob, faultVars, MaintSound, MaintTypeOK
<1>2. {"mode.off", "backup.check", "backup.lock", "backup.failed", "restore.release",
       "restore.failed", "restore.off"} \subseteq Plain
  BY DEF Plain, JobSteps, InBackup, InRestore, Writers, Copying
<1>3. CASE ModeOffCheck(w) \/ ModeOffUnchecked(w)
  <2>1. Go(w, "mode.off")
    BY <1>3 DEF ModeOffCheck, ModeOffUnchecked
  <2>2. QED
    BY <1>1, <1>2, <2>1, GoOnly DEF InBackup, InRestore
<1>4. CASE BackupCheckMode(w)
  <2>1. Go(w, "backup.check")
    BY <1>4 DEF BackupCheckMode
  <2>2. QED
    BY <1>1, <1>2, <2>1, GoOnly DEF InBackup, InRestore
<1>5. CASE BackupCheckRestore(w)
  <2>1. Go(w, "backup.lock") \/ Goto(w, Idle)
    BY <1>5 DEF BackupCheckRestore, Go
  <2>2. QED
    BY <1>1, <1>2, <2>1, GoOnly, EndOnly DEF InBackup, InRestore
<1>6. CASE Deleted(w)
  <2>1. Go(w, "backup.failed") /\ Backing(w)
    BY <1>6 DEF Deleted, Backing, InBackup
  <2>2. QED
    BY <1>1, <1>2, <2>1, GoOnly DEF InRestore
<1>7. CASE RestoreUploads(w)
  <2>1. (Go(w, "restore.release") \/ Go(w, "restore.failed")) /\ Restoring(w)
    BY <1>7 DEF RestoreUploads, Restoring, InRestore, At
  <2>2. QED
    BY <1>1, <1>2, <2>1, GoOnly DEF InBackup
<1>8. CASE RestoreCheck(w)
  <2>1. Go(w, "restore.off") \/ Go(w, "restore.failed")
    BY <1>8 DEF RestoreCheck
  <2>2. QED
    BY <1>1, <1>2, <2>1, GoOnly DEF InBackup, InRestore
<1>9. QED
  BY <1>3, <1>4, <1>5, <1>6, <1>7, <1>8

LEMMA ValidateSound ==
  ASSUME MaintSound, NEW w \in Workers, RestoreValidate(w)
  PROVE  MaintSound'
<1>1. PICK b \in Backups : /\ Restorable(b) /\ Goto(w, [Idle EXCEPT !.pc = "restore.lock", !.src = b])
                           /\ OnlyJob
  BY DEF RestoreValidate
<1> DEFINE k == [Idle EXCEPT !.pc = "restore.lock", !.src = b]
<1>2. /\ k \in JobRow /\ k.pc = "restore.lock" /\ k.src = b /\ k.id = 0 /\ k.pre = 0
      /\ k.restoring = FALSE /\ k.held = FALSE /\ k.lostRestore = FALSE
  <2>1. b \in 0 .. MaxBackups /\ "restore.lock" \in JobSteps
    BY MaintenanceAssumption DEF JobSteps, Backups
  <2>2. k \in JobRow
    BY <2>1, IdleRow DEF JobRow
  <2>3. QED
    BY <2>2 DEF Idle
<1>3. Goto(w, k)
  BY <1>1
<1> HIDE DEF k
<1>4. disk[b] \in WholeArchives /\ b # 0
  BY <1>1 DEF Restorable, MaintSound, MaintTypeOK, Archives, WholeArchives, Backups
<1>5. JobSound(k) /\ ~Writer(k) /\ k.pc \notin InBackup /\ ~RestoringJob(k)
  BY <1>2, <1>4 DEF JobSound, Writer, Writers, InBackup, InRestore, RestoringJob
<1>6. BackedUp(job[w])'
  BY <1>2, <1>3, GotoMoves, Uncopied DEF OneMoves, MaintSound, Copying
<1>7. UNCHANGED <<redisVars, dataVars, guardVars, overrun>> /\ faults' \in 0 .. MaxFaults
  BY <1>1 DEF OnlyJob, faultVars, MaintSound, MaintTypeOK
<1>8. QED
  BY <1>2, <1>3, <1>4, <1>5, <1>6, <1>7, JobOnly

LEMMA DrainSound ==
  ASSUME MaintSound, NEW w \in Workers, RestoreDrain(w)
  PROVE  MaintSound'
<1> DEFINE j == job[w]
           k == [j EXCEPT !.pc = "backup.lock", !.restoring = TRUE, !.stale = {}]
<1>1. /\ j \in JobRow /\ JobSound(j) /\ j.pc = "restore.drain" /\ MaintTypeOK
      /\ j.stale \cap Instances = {} /\ Goto(w, k)
      /\ mode' = mode /\ backupLock' = backupLock /\ restoreLock' = restoreLock
      /\ db' = db /\ disk' = disk /\ made' = made /\ cache' = cache
      /\ overrun' = overrun /\ faults' = faults /\ guest' = Outlived(j.stale)
  BY DEF RestoreDrain, At, Drained, MaintSound, MaintTypeOK, JobsSound, redisVars, dataVars,
         faultVars
<1>2. /\ k \in JobRow /\ k.pc = "backup.lock" /\ k.src = j.src /\ k.id = j.id /\ k.pre = j.pre
      /\ k.restoring = TRUE /\ k.held = j.held /\ k.stale = {}
      /\ k.lostRestore = j.lostRestore
  BY <1>1 DEF JobRow, JobSteps
<1> HIDE DEF k
<1>3. JobSound(k) /\ ~Writer(k) /\ k.pc \notin InBackup /\ Restoring(w)
  BY <1>1, <1>2 DEF JobSound, Writer, Writers, InBackup, InRestore, Restoring
<1>4. OneMoves(w, k) /\ \A v \in Workers : v # w => job'[v] = job[v]
  BY <1>1, <1>2, GotoMoves
<1>5. BackedUp(job[w])'
  BY <1>2, <1>4, Uncopied DEF OneMoves, Copying
<1>6. /\ guest' \in [Guests -> GuestRow]
      /\ \A g \in Guests : /\ guest'[g].pc = guest[g].pc /\ guest'[g].flag = guest[g].flag
                            /\ guest'[g].late = (guest[g].late \/ g \in j.stale)
  <2>1. \A x \in GuestRow :
          LET y == [x EXCEPT !.late = TRUE]
          IN  y \in GuestRow /\ y.pc = x.pc /\ y.flag = x.flag /\ y.late = TRUE
    BY DEF GuestRow
  <2>2. \A g \in Guests : guest[g] \in GuestRow /\ guest[g].late \in BOOLEAN
    BY <1>1 DEF MaintTypeOK, GuestRow
  <2>3. QED
    BY <1>1, <2>1, <2>2 DEF Outlived
<1>7. MaintTypeOK'
  BY <1>1, <1>4, <1>6 DEF MaintTypeOK, OneMoves
<1>8. QuietSound'
  <2> SUFFICES ASSUME NEW v \in Workers PROVE Quiet(job[v])'
    BY DEF QuietSound
  <2>1. Quiet(job[v])
    BY DEF MaintSound, QuietSound
  <2>2. CASE v = w
    BY <1>1, <1>2, <1>4, <1>6, <2>1, <2>2 DEF Quiet, OneMoves
  <2>3. CASE v # w
    BY <1>1, <1>4, <1>6, <2>1, <2>3 DEF Quiet
  <2>4. QED
    BY <2>2, <2>3
<1>9. DiskStep(w) /\ DbStep(w) /\ KeepsBackup(w, k) /\ KeepsRestore(w, k) /\ OwnFiles(w, k)
  BY <1>1, <1>2, <1>3
  DEF DiskStep, DbStep, KeepsBackup, KeepsRestore, OwnFiles, RestoringJob
<1>10. QED
  BY <1>1, <1>2, <1>3, <1>4, <1>5, <1>7, <1>8, <1>9, WorkerStep

-------------------------------------------------------------------------------
(* Steps that write the data.                                               *)

LEMMA DataStep ==
  ASSUME MaintSound, NEW w \in Workers, NEW k \in JobRow, Goto(w, k), OnlyData, JobSound(k),
         db' \in {"whole", "torn", "dropped", "importing"},
         disk' \in [Backups -> Archives \cup {None}], made' \in Backups,
         DiskStep(w), OwnFiles(w, k), DbStep(w),
         k.pc \in InBackup => Backing(w) /\ k.lostBackup = job[w].lostBackup,
         RestoringJob(k) => Restoring(w),
         k.lostRestore = job[w].lostRestore,
         k.held = job[w].held, k.stale = job[w].stale,
         BackedUp(job[w])'
  PROVE  MaintSound'
<1>1. OneMoves(w, k) /\ MaintTypeOK
  BY GotoMoves DEF MaintSound
<1>2. /\ mode' = mode /\ backupLock' = backupLock /\ restoreLock' = restoreLock
      /\ cache' = cache /\ guest' = guest /\ overrun' = overrun /\ faults' = faults
  BY DEF OnlyData, redisVars, guardVars, faultVars
<1>3. MaintTypeOK'
  BY <1>1, <1>2 DEF MaintTypeOK, OneMoves
<1>4. QuietSound'
  BY <1>1, <1>2, QuietStep DEF MaintSound
<1>5. KeepsBackup(w, k) /\ KeepsRestore(w, k)
  BY <1>2 DEF KeepsBackup, KeepsRestore
<1>6. QED
  BY <1>1, <1>2, <1>3, <1>4, <1>5, WorkerStep

LEMMA MakeSound ==
  ASSUME MaintSound, NEW w \in Workers, BackupDir(w)
  PROVE  MaintSound'
<1> DEFINE j == job[w]
           k == [j EXCEPT !.pc = "backup.dump", !.id = made + 1]
<1>1. /\ j \in JobRow /\ JobSound(j) /\ j.pc = "backup.dir" /\ OnlyData /\ db' = db
      /\ Goto(w, k) /\ made < MaxBackups /\ made' = made + 1
      /\ disk' = [disk EXCEPT ![made + 1] = Empty]
      /\ disk \in [Backups -> Archives \cup {None}] /\ made \in Backups
  BY DEF BackupDir, At, MaintSound, MaintTypeOK, JobsSound
<1>2. made + 1 \in Backups /\ made + 1 # 0 /\ Empty \in Archives /\ Empty.uploads = "none"
  BY <1>1, MaintenanceAssumption DEF Backups, Empty, Archives
<1>3. /\ k \in JobRow /\ k.pc = "backup.dump" /\ k.src = j.src /\ k.id = made + 1
      /\ k.pre = j.pre /\ k.cap = j.cap /\ k.restoring = j.restoring /\ k.held = j.held
      /\ k.stale = j.stale /\ k.lostBackup = j.lostBackup /\ k.lostRestore = j.lostRestore
  <2>1. made + 1 \in 0 .. MaxBackups /\ "backup.dump" \in JobSteps
    BY <1>2, MaintenanceAssumption DEF JobSteps, InBackup, Backups
  <2>2. QED
    BY <1>1, <2>1 DEF JobRow
<1> HIDE DEF k
<1>4. JobSound(k) /\ Backing(w) /\ (RestoringJob(k) => Restoring(w))
  BY <1>1, <1>2, <1>3
  DEF JobSound, Writer, Writers, InBackup, InRestore, RestoringJob, Restoring, Backing
<1>5. DiskStep(w) /\ DbStep(w)
  BY <1>1 DEF DiskStep, DbStep
<1>6. OwnFiles(w, k)
  BY <1>1, <1>2, <1>3 DEF OwnFiles
<1>7. BackedUp(job[w])'
  BY <1>1, <1>3, GotoMoves, Uncopied DEF OneMoves, MaintSound, Copying
<1>8. QED
  BY <1>1, <1>2, <1>3, <1>4, <1>5, <1>6, <1>7, DataStep DEF MaintSound, MaintTypeOK

\* A worker writes an archive into its directory.
LEMMA WriteStep ==
  ASSUME MaintSound, NEW w \in Workers, Writer(job[w]), disk[job[w].id] # None,
         NEW a \in Archives, disk' = [disk EXCEPT ![job[w].id] = a], made' = made
  PROVE  /\ job[w].id \in Backups /\ disk'[job[w].id] = a /\ DiskStep(w)
         /\ disk' \in [Backups -> Archives \cup {None}]
<1>1. disk \in [Backups -> Archives \cup {None}] /\ job[w] \in JobRow /\ JobSound(job[w])
  BY DEF MaintSound, MaintTypeOK, JobsSound
<1>2. job[w].id \in Backups
  BY <1>1, MaintenanceAssumption DEF JobSound, JobRow, Backups
<1>3. QED
  BY <1>1, <1>2 DEF DiskStep

LEMMA WritingFacts ==
  ASSUME MaintSound, NEW w \in Workers, Writer(job[w]), disk[job[w].id] # None
  PROVE  /\ job[w] \in JobRow /\ JobSound(job[w]) /\ BackedUp(job[w]) /\ Backing(w)
         /\ disk[job[w].id] \in Archives /\ disk[job[w].id].uploads # "whole"
<1>1. job[w].id \in Backups /\ disk \in [Backups -> Archives \cup {None}]
  BY MaintenanceAssumption
  DEF MaintSound, MaintTypeOK, JobsSound, JobSound, JobRow, Backups
<1>2. QED
  BY <1>1
  DEF MaintSound, MaintTypeOK, JobsSound, BackupsSound, FilesSound, Unfinished, Writer,
      Writers, Backing, InBackup

LEMMA DumpSound ==
  ASSUME MaintSound, NEW w \in Workers, BackupDump(w)
  PROVE  MaintSound'
<1> DEFINE j == job[w]
           a == [disk[j.id] EXCEPT !.db = "partial"]
           k == [j EXCEPT !.pc = "backup.gzip", !.cap = Dumped(db)]
<1>1. Writer(j) /\ j.pc = "backup.dump" /\ disk[j.id] # None /\ OnlyData
      /\ db' = db /\ made' = made
  BY DEF BackupDump, Writing, At, Writer, Writers
<1>2. /\ j \in JobRow /\ JobSound(j) /\ Backing(w)
      /\ disk[j.id] \in Archives /\ disk[j.id].uploads # "whole"
  BY <1>1, WritingFacts
<1>3. CASE Dumped(db) = None
  <2>1. Go(w, "backup.failed") /\ disk' = disk
    BY <1>3 DEF BackupDump
  <2>2. "backup.failed" \in Plain
    BY DEF Plain, JobSteps, InBackup, Writers, Copying
  <2>3. UNCHANGED <<redisVars, dataVars, guardVars, overrun>> /\ faults' \in 0 .. MaxFaults
    BY <1>1, <2>1 DEF OnlyData, dataVars, faultVars, MaintSound, MaintTypeOK
  <2>4. QED
    BY <1>2, <2>1, <2>2, <2>3, GoOnly DEF InRestore
<1>4. CASE Dumped(db) # None
  <2>1. Goto(w, k) /\ disk' = [disk EXCEPT ![j.id] = a]
    BY <1>1, <1>4 DEF BackupDump
  <2>2. a \in Archives /\ a.uploads # "whole"
    BY <1>2 DEF Archives
  <2> HIDE DEF a
  <2>3. j.id \in Backups /\ disk'[j.id] = a /\ DiskStep(w)
        /\ disk' \in [Backups -> Archives \cup {None}]
    BY <1>1, <2>1, <2>2, WriteStep
  <2>4. Dumped(db) \in {"whole", "torn"}
    BY <1>4 DEF Dumped
  <2>5. /\ k \in JobRow /\ k.pc = "backup.gzip" /\ k.src = j.src /\ k.id = j.id
        /\ k.pre = j.pre /\ k.cap = Dumped(db) /\ k.restoring = j.restoring
        /\ k.held = j.held /\ k.stale = j.stale /\ k.lostBackup = j.lostBackup
        /\ k.lostRestore = j.lostRestore
    <3>1. "backup.gzip" \in JobSteps
      BY DEF JobSteps, InBackup
    <3>2. QED
      BY <1>2, <2>4, <3>1 DEF JobRow
  <2> HIDE DEF k
  <2>6. JobSound(k) /\ (RestoringJob(k) => Restoring(w))
    BY <1>1, <1>2, <1>4, <2>5
    DEF JobSound, Writer, Writers, InRestore, RestoringJob, Restoring
  <2>7. OwnFiles(w, k) /\ DbStep(w)
    BY <1>1, <2>2, <2>3, <2>5 DEF OwnFiles, DbStep
  <2>8. BackedUp(job[w])'
    <3>1. job'[w] = k
      BY <2>1, <2>5, GotoMoves DEF OneMoves, MaintSound
    <3>2. QED
      BY <1>1, <2>5, <3>1 DEF BackedUp, Dumped
  <2>9. QED
    BY <1>1, <1>2, <2>1, <2>3, <2>5, <2>6, <2>7, <2>8, DataStep DEF MaintSound, MaintTypeOK
<1>5. QED
  BY <1>3, <1>4

LEMMA GzipSound ==
  ASSUME MaintSound, NEW w \in Workers, BackupGzip(w)
  PROVE  MaintSound'
<1> DEFINE j == job[w]
           a == [db |-> j.cap, uploads |-> "partial"]
           k == [j EXCEPT !.pc = "backup.tar", !.cap = None]
<1>1. /\ Writer(j) /\ j.pc = "backup.gzip" /\ disk[j.id] # None /\ OnlyData
      /\ db' = db /\ made' = made /\ Goto(w, k) /\ disk' = [disk EXCEPT ![j.id] = a]
  BY DEF BackupGzip, Writing, At, Writer, Writers
<1>2. /\ j \in JobRow /\ JobSound(j) /\ BackedUp(j) /\ Backing(w)
  BY <1>1, WritingFacts
<1>3. a \in Archives /\ a.uploads # "whole" /\ a.db = j.cap
  BY <1>1, <1>2 DEF Archives, JobSound, JobRow
<1> HIDE DEF a
<1>4. j.id \in Backups /\ disk'[j.id] = a /\ DiskStep(w)
      /\ disk' \in [Backups -> Archives \cup {None}]
  BY <1>1, <1>3, WriteStep
<1>5. /\ k \in JobRow /\ k.pc = "backup.tar" /\ k.src = j.src /\ k.id = j.id
      /\ k.pre = j.pre /\ k.restoring = j.restoring
      /\ k.held = j.held /\ k.stale = j.stale /\ k.lostBackup = j.lostBackup
      /\ k.lostRestore = j.lostRestore
  <2>1. "backup.tar" \in JobSteps
    BY DEF JobSteps, InBackup
  <2>2. QED
    BY <1>2, <2>1 DEF JobRow
<1> HIDE DEF k
<1>6. JobSound(k) /\ (RestoringJob(k) => Restoring(w))
  BY <1>1, <1>2, <1>5 DEF JobSound, Writer, Writers, InRestore, RestoringJob, Restoring
<1>7. OwnFiles(w, k) /\ DbStep(w)
  BY <1>1, <1>3, <1>4, <1>5 DEF OwnFiles, DbStep
<1>8. BackedUp(job[w])'
  <2>1. job'[w] = k /\ overrun' = overrun
    BY <1>1, <1>5, GotoMoves DEF OneMoves, MaintSound, OnlyData, faultVars
  <2>2. (~overrun /\ k.restoring) => a.db = Dumped(db)
    BY <1>1, <1>2, <1>3, <1>5 DEF BackedUp
  <2>3. QED
    BY <1>1, <1>4, <1>5, <2>1, <2>2 DEF BackedUp, Dumped
<1>9. QED
  BY <1>1, <1>2, <1>4, <1>5, <1>6, <1>7, <1>8, DataStep DEF MaintSound, MaintTypeOK

LEMMA TarSound ==
  ASSUME MaintSound, NEW w \in Workers, BackupTar(w)
  PROVE  MaintSound'
<1> DEFINE j == job[w]
           a == [disk[j.id] EXCEPT !.uploads = "whole"]
           k == [j EXCEPT !.pc = "backup.release"]
<1>1. /\ Writer(j) /\ j.pc = "backup.tar" /\ disk[j.id] # None /\ OnlyData
      /\ db' = db /\ made' = made /\ Goto(w, k) /\ disk' = [disk EXCEPT ![j.id] = a]
  BY DEF BackupTar, Writing, At, Writer, Writers, Go
<1>2. /\ j \in JobRow /\ JobSound(j) /\ BackedUp(j) /\ Backing(w) /\ disk[j.id] \in Archives
  BY <1>1, WritingFacts
<1>3. a \in Archives /\ a = [db |-> disk[j.id].db, uploads |-> "whole"]
  BY <1>2 DEF Archives
<1> HIDE DEF a
<1>4. j.id \in Backups /\ disk'[j.id] = a /\ DiskStep(w)
      /\ disk' \in [Backups -> Archives \cup {None}]
  BY <1>1, <1>3, WriteStep
<1>5. /\ k \in JobRow /\ k.pc = "backup.release" /\ k.src = j.src /\ k.id = j.id
      /\ k.pre = j.pre /\ k.restoring = j.restoring
      /\ k.held = j.held /\ k.stale = j.stale /\ k.lostBackup = j.lostBackup
      /\ k.lostRestore = j.lostRestore
  <2>1. "backup.release" \in JobSteps
    BY DEF JobSteps, InBackup
  <2>2. QED
    BY <1>2, <2>1 DEF JobRow
<1> HIDE DEF k
<1>6. JobSound(k) /\ (RestoringJob(k) => Restoring(w)) /\ ~Writer(k)
  BY <1>1, <1>2, <1>5 DEF JobSound, Writer, Writers, InRestore, RestoringJob, Restoring
<1>7. OwnFiles(w, k) /\ DbStep(w)
  BY <1>1, <1>5, <1>6 DEF OwnFiles, DbStep
<1>8. BackedUp(job[w])'
  <2>1. job'[w] = k /\ overrun' = overrun
    BY <1>1, <1>5, GotoMoves DEF OneMoves, MaintSound, OnlyData, faultVars
  <2>2. (~overrun /\ k.restoring) => a = Copy
    BY <1>1, <1>2, <1>3, <1>5 DEF BackedUp, Copy
  <2>3. QED
    BY <1>1, <1>4, <1>5, <2>1, <2>2 DEF BackedUp, Dumped, Copy
<1>9. QED
  BY <1>1, <1>2, <1>4, <1>5, <1>6, <1>7, <1>8, DataStep DEF MaintSound, MaintTypeOK

LEMMA FailedSound ==
  ASSUME MaintSound, NEW w \in Workers, BackupFailed(w)
  PROVE  MaintSound'
<1> DEFINE j == job[w]
           k == [j EXCEPT !.pc = "backup.release", !.id = 0, !.cap = None]
<1>1. /\ j.pc = "backup.failed" /\ OnlyData /\ db' = db /\ made' = made /\ Goto(w, k)
      /\ disk' = IF j.id = 0 THEN disk ELSE [disk EXCEPT ![j.id] = None]
      /\ j \in JobRow /\ JobSound(j) /\ Backing(w)
      /\ disk \in [Backups -> Archives \cup {None}]
  BY DEF BackupFailed, At, Backing, InBackup, MaintSound, MaintTypeOK, JobsSound
<1>2. /\ k \in JobRow /\ k.pc = "backup.release" /\ k.src = j.src /\ k.id = 0
      /\ k.pre = j.pre /\ k.restoring = j.restoring
      /\ k.held = j.held /\ k.stale = j.stale /\ k.lostBackup = j.lostBackup
      /\ k.lostRestore = j.lostRestore
  <2>1. "backup.release" \in JobSteps /\ 0 \in 0 .. MaxBackups
    BY MaintenanceAssumption DEF JobSteps, InBackup
  <2>2. QED
    BY <1>1, <2>1 DEF JobRow
<1> HIDE DEF k
<1>3. JobSound(k) /\ (RestoringJob(k) => Restoring(w)) /\ ~Writer(k)
  BY <1>1, <1>2 DEF JobSound, Writer, Writers, InRestore, RestoringJob, Restoring
<1>4. /\ disk' \in [Backups -> Archives \cup {None}]
      /\ \A b \in Backups : disk'[b] \in {disk[b], None}
  BY <1>1
<1>5. OwnFiles(w, k) /\ DbStep(w) /\ DiskStep(w)
  BY <1>1, <1>2, <1>3, <1>4 DEF OwnFiles, DbStep, DiskStep
<1>6. BackedUp(job[w])'
  <2>1. job'[w] = k
    BY <1>1, <1>2, GotoMoves DEF OneMoves, MaintSound
  <2>2. QED
    BY <1>2, <2>1 DEF BackedUp
<1>7. QED
  BY <1>1, <1>2, <1>3, <1>4, <1>5, <1>6, DataStep DEF MaintSound, MaintTypeOK

LEMMA DeleteSound ==
  ASSUME MaintSound, NEW w \in Workers, DeleteBackup(w)
  PROVE  MaintSound'
<1> DEFINE j == job[w]
<1>1. PICK b \in Backups : /\ disk' = [disk EXCEPT ![b] = None]
                           /\ OnlyData /\ UNCHANGED <<db, made, job>>
  BY DEF DeleteBackup
<1>2. /\ j \in JobRow /\ JobSound(j) /\ BackedUp(j) /\ Goto(w, j)
      /\ disk \in [Backups -> Archives \cup {None}]
  BY <1>1 DEF Goto, MaintSound, MaintTypeOK, JobsSound, BackupsSound
<1>3. /\ disk' \in [Backups -> Archives \cup {None}]
      /\ \A x \in Backups : disk'[x] \in {disk[x], None}
  BY <1>1, <1>2
<1>4. /\ j.id # 0 => disk'[j.id] \in {disk[j.id], None}
      /\ j.pre # 0 => disk'[j.pre] \in {disk[j.pre], None}
  BY <1>2, <1>3, MaintenanceAssumption DEF JobRow, Backups
<1>5. DbStep(w) /\ DiskStep(w) /\ (RestoringJob(j) => Restoring(w))
  BY <1>1, <1>3 DEF DbStep, DiskStep, RestoringJob, Restoring
<1>6. OwnFiles(w, j)
  <2>1. Writer(j) => disk'[j.id] = None \/ disk'[j.id].uploads # "whole"
    BY <1>2, <1>4 DEF JobSound, MaintSound, FilesSound, Unfinished
  <2>2. QED
    BY <2>1 DEF OwnFiles
<1>7. BackedUp(job[w])'
  <2>1. /\ j.pc = "backup.tar" => j.id # 0
        /\ Dumped(db)' = Dumped(db) /\ Copy' = Copy /\ overrun' = overrun
    BY <1>1, <1>2 DEF JobSound, Writer, Writers, Dumped, Copy, OnlyData, faultVars
  <2>2. QED
    BY <1>1, <1>2, <1>4, <2>1 DEF BackedUp
<1>8. QED
  BY <1>1, <1>2, <1>3, <1>5, <1>6, <1>7, DataStep DEF MaintSound, MaintTypeOK, Backing

\* A restore writes the schema, not the disk.
LEMMA SchemaStep ==
  ASSUME MaintSound, NEW w \in Workers, NEW k \in JobRow, Goto(w, k), OnlyData, JobSound(k),
         UNCHANGED <<disk, made>>, db' \in {"whole", "torn", "dropped", "importing"},
         job[w].pc \in {"restore.drop", "restore.import", "restore.imported"},
         k.pc \in {"restore.import", "restore.imported", "restore.uploads"},
         k.id = job[w].id, k.pre = job[w].pre, k.src = job[w].src,
         k.lostRestore = job[w].lostRestore, k.held = job[w].held, k.stale = job[w].stale
  PROVE  MaintSound'
<1>1. DiskStep(w) /\ DbStep(w)
  BY DEF DiskStep, DbStep
<1>2. ~Writer(k) /\ k.pc \notin InBackup /\ Restoring(w)
  BY DEF Writer, Writers, InBackup, InRestore, Restoring
<1>3. OwnFiles(w, k)
  BY <1>2 DEF OwnFiles
<1>4. BackedUp(job[w])'
  BY GotoMoves, Uncopied DEF OneMoves, MaintSound, Copying
<1>5. QED
  BY <1>1, <1>2, <1>3, <1>4, DataStep DEF MaintSound, MaintTypeOK

LEMMA RestoreDataSound ==
  ASSUME MaintSound, NEW w \in Workers,
         RestoreDrop(w) \/ RestoreImport(w) \/ RestoreImported(w)
  PROVE  MaintSound'
<1> DEFINE j == job[w]
           K(pc) == [j EXCEPT !.pc = pc]
<1>1. j \in JobRow /\ JobSound(j) /\ OnlyData /\ UNCHANGED <<disk, made>>
  BY DEF RestoreDrop, RestoreImport, RestoreImported, MaintSound, MaintTypeOK, JobsSound
<1>2. {"restore.import", "restore.imported", "restore.uploads"} \subseteq JobSteps
  BY DEF JobSteps, InRestore
<1>3. \A pc \in JobSteps :
        /\ K(pc) \in JobRow /\ K(pc).pc = pc
        /\ K(pc).src = j.src /\ K(pc).id = j.id /\ K(pc).pre = j.pre /\ K(pc).cap = j.cap
        /\ K(pc).restoring = j.restoring /\ K(pc).held = j.held /\ K(pc).stale = j.stale
        /\ K(pc).lostBackup = j.lostBackup /\ K(pc).lostRestore = j.lostRestore
  BY <1>1, GoRow
<1>4. \A pc \in JobSteps : Go(w, pc) => Goto(w, K(pc))
  BY DEF Go
<1> HIDE DEF K
<1>5. ASSUME j.pc \in {"restore.drop", "restore.import", "restore.imported"}
      PROVE  JobSound(K("restore.import")) /\ JobSound(K("restore.uploads")) /\ j.src # 0
  BY <1>1, <1>2, <1>3, <1>5 DEF JobSound, Writer, Writers, InRestore
\* The import could not begin, or the schema is another's.
<1>6. ASSUME Go(w, "restore.failed"), UNCHANGED db PROVE MaintSound'
  <2>1. "restore.failed" \in Plain /\ "restore.failed" \notin InBackup \cup InRestore
    BY DEF Plain, JobSteps, InBackup, InRestore, Writers, Copying
  <2>2. UNCHANGED <<redisVars, dataVars, guardVars, overrun>> /\ faults' \in 0 .. MaxFaults
    BY <1>1, <1>6 DEF OnlyData, dataVars, faultVars, MaintSound, MaintTypeOK
  <2>3. QED
    BY <1>6, <2>1, <2>2, GoOnly
<1>7. CASE RestoreDrop(w)
  <2>1. j.pc = "restore.drop" /\ db' = "dropped" /\ Goto(w, K("restore.import"))
    BY <1>2, <1>4, <1>7 DEF RestoreDrop, At
  <2>2. QED
    BY <1>1, <1>2, <1>3, <1>5, <2>1, SchemaStep
<1>8. CASE RestoreImport(w)
  <2>1. j.pc = "restore.import"
    BY <1>8 DEF RestoreImport, At
  <2>2. CASE disk[j.src] # None /\ db = "dropped"
    <3> DEFINE k == [j EXCEPT !.pc = "restore.imported", !.cap = disk[j.src].db]
    <3>1. db' = "importing" /\ Goto(w, k)
      BY <1>8, <2>2 DEF RestoreImport
    <3>2. disk[j.src].db \in {"whole", "torn"}
      BY <1>5, <2>1, <2>2 DEF MaintSound, FilesSound, Sourced, WholeArchives
    <3>3. /\ k \in JobRow /\ k.pc = "restore.imported" /\ k.src = j.src /\ k.id = j.id
          /\ k.pre = j.pre /\ k.cap = disk[j.src].db /\ k.restoring = j.restoring
          /\ k.held = j.held /\ k.stale = j.stale /\ k.lostRestore = j.lostRestore
      BY <1>1, <1>2, <3>2 DEF JobRow
    <3> HIDE DEF k
    <3>4. k.cap # None
      BY <3>2, <3>3, MaintenanceAssumption
    <3>5. JobSound(k)
      BY <1>1, <1>5, <2>1, <3>3, <3>4 DEF JobSound, Writer, Writers, InRestore
    <3>6. QED
      BY <1>1, <2>1, <3>1, <3>3, <3>5, SchemaStep
  <2>3. CASE ~(disk[j.src] # None /\ db = "dropped")
    BY <1>6, <1>8, <2>3 DEF RestoreImport
  <2>4. QED
    BY <2>2, <2>3
<1>9. CASE RestoreImported(w)
  <2>1. j.pc = "restore.imported"
    BY <1>9 DEF RestoreImported, At
  <2>2. CASE db = "importing"
    <3>1. db' = j.cap /\ Goto(w, K("restore.uploads"))
      BY <1>2, <1>4, <1>9, <2>2 DEF RestoreImported
    <3>2. j.cap \in {"whole", "torn"}
      BY <1>1, <2>1 DEF JobSound, JobRow
    <3>3. QED
      BY <1>1, <1>2, <1>3, <1>5, <2>1, <3>1, <3>2, SchemaStep
  <2>3. CASE db # "importing"
    BY <1>6, <1>9, <2>3 DEF RestoreImported
  <2>4. QED
    BY <2>2, <2>3
<1>10. QED
  BY <1>7, <1>8, <1>9

-------------------------------------------------------------------------------
(* Steps that take a lock or give it back.                                  *)

LEMMA LockStep ==
  ASSUME MaintSound, NEW w \in Workers, NEW k \in JobRow, Goto(w, k), JobSound(k),
         UNCHANGED <<mode, dataVars, guardVars, faultVars>>,
         k.id \in {0, job[w].id}, k.pre \in {0, job[w].pre, job[w].id},
         k.src \in {0, job[w].src}, ~Writer(k),
         KeepsBackup(w, k) \/ TakesBackup(w) \/ GivesBackup(w, k),
         KeepsRestore(w, k) \/ TakesRestore(w) \/ GivesRestore(w, k),
         k.lostRestore => job[w].lostRestore,
         k.held => job[w].held, k.held => job[w].stale \subseteq k.stale,
         BackedUp(job[w])'
  PROVE  MaintSound'
<1>1. OneMoves(w, k) /\ MaintTypeOK
  BY GotoMoves DEF MaintSound
<1>2. /\ mode' = mode /\ db' = db /\ disk' = disk /\ made' = made
      /\ cache' = cache /\ guest' = guest /\ overrun' = overrun /\ faults' = faults
  BY DEF dataVars, guardVars, faultVars
<1>3. backupLock' \in Workers \cup {None} /\ restoreLock' \in Workers \cup {None}
  BY <1>1 DEF KeepsBackup, TakesBackup, GivesBackup, KeepsRestore, TakesRestore, GivesRestore,
              Released, MaintTypeOK
<1>4. MaintTypeOK'
  BY <1>1, <1>2, <1>3 DEF MaintTypeOK, OneMoves
<1>5. QuietSound'
  BY <1>1, <1>2, QuietStep DEF MaintSound
<1>6. DiskStep(w) /\ DbStep(w) /\ OwnFiles(w, k)
  BY <1>2 DEF DiskStep, DbStep, OwnFiles
<1>7. QED
  BY <1>1, <1>2, <1>4, <1>5, <1>6, WorkerStep

LEMMA ThrownRow ==
  ASSUME MaintSound, NEW w \in Workers, ~Backing(w)
  PROVE  LET j == job[w]
             k == Thrown(j)
         IN  /\ k \in JobRow /\ JobSound(k) /\ k.pc \in {"idle", "restore.failed"}
             /\ k.id = 0 /\ k.pre \in {0, j.pre} /\ k.src \in {0, j.src}
             /\ k.restoring => j.restoring /\ k.lostRestore = j.lostRestore
             /\ k.lostRestore => j.lostRestore
             /\ k.held => j.held /\ j.stale \subseteq k.stale
<1> DEFINE j == job[w]
           k == [j EXCEPT !.pc = "restore.failed", !.id = 0, !.cap = None]
<1>1. j \in JobRow /\ JobSound(j)
  BY DEF MaintSound, MaintTypeOK, JobsSound
<1>2. "restore.failed" \in JobSteps /\ 0 \in 0 .. MaxBackups
  BY MaintenanceAssumption DEF JobSteps
<1>3. /\ k \in JobRow /\ k.pc = "restore.failed" /\ k.src = j.src /\ k.id = 0
      /\ k.pre = j.pre /\ k.restoring = j.restoring /\ k.held = j.held
      /\ k.stale = j.stale /\ k.lostRestore = j.lostRestore
  BY <1>1, <1>2 DEF JobRow
<1> HIDE DEF k
<1>4. JobSound(k)
  BY <1>1, <1>3 DEF JobSound, Writer, Writers, InRestore
<1>5. Thrown(j) = IF j.restoring THEN k ELSE Idle
  BY DEF Thrown, k
<1>6. QED
  BY <1>3, <1>4, <1>5, IdleRow

LEMMA AcquireSound ==
  ASSUME MaintSound, NEW w \in Workers, BackupAcquire(w) \/ RestoreAcquire(w)
  PROVE  MaintSound'
<1> DEFINE j == job[w]
           K(pc) == [j EXCEPT !.pc = pc]
<1>1. j \in JobRow /\ JobSound(j) /\ UNCHANGED <<mode, dataVars, guardVars, faultVars>>
  BY DEF BackupAcquire, RestoreAcquire, MaintSound, MaintTypeOK, JobsSound
<1>2. \A pc \in JobSteps :
        /\ K(pc) \in JobRow /\ K(pc).pc = pc
        /\ K(pc).src = j.src /\ K(pc).id = j.id /\ K(pc).pre = j.pre /\ K(pc).cap = j.cap
        /\ K(pc).restoring = j.restoring /\ K(pc).held = j.held /\ K(pc).stale = j.stale
        /\ K(pc).lostBackup = j.lostBackup /\ K(pc).lostRestore = j.lostRestore
  BY <1>1, GoRow
<1>3. \A pc \in JobSteps : Go(w, pc) => Goto(w, K(pc))
  BY DEF Go
<1> HIDE DEF K
<1>4. ASSUME NEW k \in JobRow, Goto(w, k), k.pc \notin Copying PROVE BackedUp(job[w])'
  BY <1>4, GotoMoves, Uncopied DEF OneMoves, MaintSound
<1>5. CASE BackupAcquire(w)
  <2>1. j.pc = "backup.lock" /\ restoreLock' = restoreLock /\ ~Backing(w)
    BY <1>5 DEF BackupAcquire, At, Backing, InBackup
  <2>2. CASE backupLock = None
    <3> DEFINE k == K("backup.dir")
    <3>1. "backup.dir" \in JobSteps
      BY DEF JobSteps, InBackup
    <3>2. Goto(w, k) /\ TakesBackup(w)
      BY <1>3, <1>5, <2>2, <3>1 DEF BackupAcquire, TakesBackup
    <3>3. k \in JobRow /\ k.pc = "backup.dir"
      BY <1>2, <3>1
    <3>4. KeepsRestore(w, k)
      BY <1>2, <2>1, <3>1 DEF KeepsRestore, RestoringJob, Restoring, InRestore
    <3>5. JobSound(k) /\ ~Writer(k)
      BY <1>1, <1>2, <2>1, <3>1 DEF JobSound, Writer, Writers, InRestore
    <3>6. BackedUp(job[w])'
      BY <1>4, <3>2, <3>3 DEF Copying
    <3>7. QED
      BY <1>1, <1>2, <3>1, <3>2, <3>3, <3>4, <3>5, <3>6, LockStep
  <2>3. CASE backupLock # None
    <3> DEFINE k == Thrown(j)
    <3>1. Goto(w, k) /\ backupLock' = backupLock
      BY <1>5, <2>3 DEF BackupAcquire
    <3>2. /\ k \in JobRow /\ JobSound(k) /\ k.pc \in {"idle", "restore.failed"}
          /\ k.id = 0 /\ k.pre \in {0, j.pre} /\ k.src \in {0, j.src}
          /\ k.restoring => j.restoring /\ k.lostRestore = j.lostRestore
          /\ k.lostRestore => j.lostRestore
          /\ k.held => j.held /\ j.stale \subseteq k.stale
      BY <2>1, ThrownRow
    <3> HIDE DEF k
    <3>3. KeepsBackup(w, k) /\ KeepsRestore(w, k) /\ ~Writer(k)
      BY <2>1, <3>1, <3>2
      DEF KeepsBackup, KeepsRestore, RestoringJob, Restoring, InBackup, InRestore,
          Writer, Writers
    <3>4. BackedUp(job[w])'
      BY <1>4, <3>1, <3>2 DEF Copying
    <3>5. QED
      BY <1>1, <3>1, <3>2, <3>3, <3>4, LockStep
  <2>4. QED
    BY <2>2, <2>3
<1>6. CASE RestoreAcquire(w)
  <2>1. j.pc = "restore.lock" /\ backupLock' = backupLock
    BY <1>6 DEF RestoreAcquire, At
  <2>2. CASE restoreLock = None
    <3> DEFINE k == K("restore.on")
    <3>1. "restore.on" \in JobSteps
      BY DEF JobSteps, InRestore
    <3>2. Goto(w, k) /\ TakesRestore(w)
      BY <1>3, <1>6, <2>2, <3>1 DEF RestoreAcquire, TakesRestore
    <3>3. k \in JobRow /\ k.pc = "restore.on"
      BY <1>2, <3>1
    <3>4. KeepsBackup(w, k)
      BY <2>1, <3>3 DEF KeepsBackup, InBackup
    <3>5. JobSound(k) /\ ~Writer(k)
      BY <1>1, <1>2, <2>1, <3>1 DEF JobSound, Writer, Writers, InRestore
    <3>6. BackedUp(job[w])'
      BY <1>4, <3>2, <3>3 DEF Copying
    <3>7. QED
      BY <1>1, <1>2, <3>1, <3>2, <3>3, <3>4, <3>5, <3>6, LockStep
  <2>3. CASE restoreLock # None
    <3>1. Goto(w, Idle) /\ restoreLock' = restoreLock
      BY <1>6, <2>3 DEF RestoreAcquire
    <3>2. UNCHANGED <<redisVars, dataVars, guardVars, overrun>> /\ faults' \in 0 .. MaxFaults
      BY <1>1, <2>1, <3>1 DEF redisVars, faultVars, MaintSound, MaintTypeOK
    <3>3. QED
      BY <3>1, <3>2, EndOnly
  <2>4. QED
    BY <2>2, <2>3
<1>7. QED
  BY <1>5, <1>6

LEMMA AfterBackupRow ==
  ASSUME MaintSound, NEW w \in Workers, job[w].pc = "backup.release"
  PROVE  LET j == job[w]
             k == AfterBackup(j)
         IN  /\ k \in JobRow /\ JobSound(k)
             /\ k.pc \in {"idle", "restore.failed", "restore.drop"}
             /\ k.id = 0 /\ k.pre \in {0, j.id} /\ k.src \in {0, j.src}
             /\ RestoringJob(k) => Restoring(w) /\ k.lostRestore = j.lostRestore
             /\ k.lostRestore => j.lostRestore
             /\ k.held => j.held /\ j.stale \subseteq k.stale
             /\ k.pc = "restore.drop" => j.restoring /\ j.id # 0 /\ k.pre = j.id
<1> DEFINE j == job[w]
           pc == IF j.id = 0 THEN "restore.failed" ELSE "restore.drop"
           k == [j EXCEPT !.pc = pc, !.pre = j.id, !.id = 0, !.lostBackup = FALSE]
<1>1. j \in JobRow /\ JobSound(j)
  BY DEF MaintSound, MaintTypeOK, JobsSound
<1>2. pc \in JobSteps /\ 0 \in 0 .. MaxBackups /\ pc \in {"restore.failed", "restore.drop"}
  BY MaintenanceAssumption DEF JobSteps, InRestore
<1>3. pc = "restore.drop" => j.id # 0
  OBVIOUS
<1> HIDE DEF pc
<1>4. /\ k \in JobRow /\ k.pc = pc /\ k.src = j.src /\ k.id = 0
      /\ k.pre = j.id /\ k.restoring = j.restoring /\ k.held = j.held
      /\ k.stale = j.stale /\ k.lostRestore = j.lostRestore
  BY <1>1, <1>2 DEF JobRow
<1> HIDE DEF k
<1>5. ASSUME j.restoring PROVE JobSound(k)
  BY <1>1, <1>2, <1>4, <1>5 DEF JobSound, Writer, Writers, InRestore
<1>6. AfterBackup(j) = IF j.restoring THEN k ELSE Idle
  BY DEF AfterBackup, k, pc
<1>7. CASE j.restoring
  BY <1>2, <1>3, <1>4, <1>5, <1>6, <1>7 DEF Restoring
<1>8. CASE ~j.restoring
  BY <1>6, <1>8, IdleRow DEF RestoringJob, InRestore
<1>9. QED
  BY <1>7, <1>8

LEMMA DropBacked ==
  ASSUME MaintSound, NEW w \in Workers, job[w].pc = "backup.release", NEW k \in JobRow,
         Goto(w, k), k.pc \in {"idle", "restore.failed", "restore.drop"},
         k.pc = "restore.drop" => job[w].restoring /\ job[w].id # 0 /\ k.pre = job[w].id,
         UNCHANGED <<dataVars, overrun>>
  PROVE  BackedUp(job[w])'
<1>1. job'[w] = k /\ BackedUp(job[w]) /\ db' = db /\ disk' = disk /\ overrun' = overrun
  BY GotoMoves DEF OneMoves, MaintSound, BackupsSound, dataVars
<1>2. QED
  BY <1>1 DEF BackedUp, Copy, Dumped

LEMMA ReleaseSound ==
  ASSUME MaintSound, NEW w \in Workers,
         BackupRelease(w) \/ RestoreRelease(w) \/ RestoreFinally(w)
  PROVE  MaintSound'
<1> DEFINE j == job[w]
<1>1. j \in JobRow /\ JobSound(j) /\ UNCHANGED <<mode, dataVars, guardVars, faultVars>>
  BY DEF BackupRelease, RestoreRelease, RestoreFinally, MaintSound, MaintTypeOK, JobsSound
<1>2. CASE BackupRelease(w)
  <2> DEFINE k == AfterBackup(j)
  <2>1. /\ j.pc = "backup.release" /\ backupLock' = Released(backupLock, w)
        /\ restoreLock' = restoreLock /\ Goto(w, k)
    BY <1>2 DEF BackupRelease, At
  <2>2. /\ k \in JobRow /\ JobSound(k) /\ k.pc \in {"idle", "restore.failed", "restore.drop"}
        /\ k.id = 0 /\ k.pre \in {0, j.id} /\ k.src \in {0, j.src}
        /\ RestoringJob(k) => Restoring(w) /\ k.lostRestore = j.lostRestore
        /\ k.lostRestore => j.lostRestore
        /\ k.held => j.held /\ j.stale \subseteq k.stale
        /\ k.pc = "restore.drop" => j.restoring /\ j.id # 0 /\ k.pre = j.id
    BY <2>1, AfterBackupRow
  <2> HIDE DEF k
  <2>3. GivesBackup(w, k) /\ KeepsRestore(w, k) /\ ~Writer(k)
    BY <2>1, <2>2 DEF GivesBackup, KeepsRestore, InBackup, Writer, Writers
  <2>4. BackedUp(job[w])'
    BY <1>1, <2>1, <2>2, DropBacked DEF faultVars
  <2>5. QED
    BY <1>1, <2>1, <2>2, <2>3, <2>4, LockStep
<1>3. CASE RestoreRelease(w)
  <2> DEFINE k == [Idle EXCEPT !.pc = "restore.check"]
  <2>1. /\ restoreLock' = Released(restoreLock, w) /\ backupLock' = backupLock /\ Goto(w, k)
    BY <1>3 DEF RestoreRelease
  <2>2. "restore.check" \in JobSteps
    BY DEF JobSteps
  <2>3. /\ k \in JobRow /\ k.pc = "restore.check" /\ k.id = 0 /\ k.pre = 0 /\ k.src = 0
        /\ k.restoring = FALSE /\ k.lostRestore = FALSE /\ k.held = FALSE /\ k.cap = None
    BY <2>2, IdleRow, GoRow
  <2> HIDE DEF k
  <2>4. JobSound(k) /\ ~Writer(k) /\ GivesRestore(w, k) /\ KeepsBackup(w, k)
    BY <2>1, <2>3
    DEF JobSound, Writer, Writers, GivesRestore, RestoringJob, KeepsBackup, InBackup, InRestore
  <2>5. BackedUp(job[w])'
    BY <2>1, <2>3, GotoMoves, Uncopied DEF OneMoves, MaintSound, Copying
  <2>6. QED
    BY <1>1, <2>1, <2>3, <2>4, <2>5, LockStep
<1>4. CASE RestoreFinally(w)
  <2>1. /\ restoreLock' \in {restoreLock, Released(restoreLock, w)}
        /\ backupLock' = backupLock /\ Goto(w, Idle)
    BY <1>4 DEF RestoreFinally
  <2>2. /\ ~Writer(Idle) /\ KeepsBackup(w, Idle)
        /\ KeepsRestore(w, Idle) \/ GivesRestore(w, Idle)
    BY <2>1, IdleRow
    DEF Writer, Writers, GivesRestore, KeepsRestore, RestoringJob, KeepsBackup, InBackup,
        InRestore
  <2>3. BackedUp(job[w])'
    BY <2>1, IdleRow, GotoMoves, Uncopied DEF OneMoves, MaintSound, Copying
  <2>4. QED
    BY <1>1, <2>1, <2>2, <2>3, IdleRow, LockStep
<1>5. QED
  BY <1>2, <1>3, <1>4

-------------------------------------------------------------------------------
(* Steps that write the flag.                                               *)

LEMMA ModeStep ==
  ASSUME MaintSound, NEW w \in Workers, NEW k \in JobRow, OneMoves(w, k), JobSound(k),
         OnlyMode, mode' \in {"off", "on", "expiring"}, QuietSound',
         k.id \in {0, job[w].id}, k.pre \in {0, job[w].pre}, k.src \in {0, job[w].src},
         Writer(k) => Writer(job[w]) /\ k.id = job[w].id,
         k.pc \in InBackup => Backing(w) /\ k.lostBackup = job[w].lostBackup,
         RestoringJob(k) => Restoring(w) /\ k.lostRestore = job[w].lostRestore,
         k.lostRestore => job[w].lostRestore, BackedUp(job[w])'
  PROVE  MaintSound'
<1>1. /\ backupLock' = backupLock /\ restoreLock' = restoreLock
      /\ db' = db /\ disk' = disk /\ made' = made
      /\ cache' = cache /\ guest' = guest /\ overrun' = overrun /\ faults' = faults
  BY DEF OnlyMode, dataVars, guardVars, faultVars
<1>2. MaintTypeOK'
  BY <1>1 DEF MaintSound, MaintTypeOK, OneMoves
<1>3. DiskStep(w) /\ DbStep(w) /\ KeepsBackup(w, k) /\ KeepsRestore(w, k)
  BY <1>1 DEF DiskStep, DbStep, KeepsBackup, KeepsRestore
<1>4. OwnFiles(w, k)
  BY <1>1 DEF OwnFiles, MaintSound, FilesSound, Unfinished
<1>5. QED
  BY <1>1, <1>2, <1>3, <1>4, WorkerStep

\* The flag goes off, and with it every restore's hold of it.
LEMMA OffSound ==
  ASSUME MaintSound, NEW w \in Workers, ModeOff(w) \/ RestoreOff(w)
  PROVE  MaintSound'
<1>1. mode' = "off" /\ OnlyMode /\ job' = [NotHeld EXCEPT ![w] = Idle]
  BY DEF ModeOff, RestoreOff
<1>2. OneMoves(w, Idle) /\ \A v \in Workers : ~job'[v].held
  BY <1>1, NotHeldMoves DEF MaintSound
<1>3. QuietSound'
  BY <1>2 DEF QuietSound, Quiet
<1>4. BackedUp(job[w])'
  BY <1>2, IdleRow, Uncopied DEF OneMoves, Copying
<1>5. ~Writer(Idle) /\ Idle.pc \notin InBackup /\ ~RestoringJob(Idle)
  BY IdleRow DEF Writer, Writers, InBackup, RestoringJob, InRestore
<1>6. QED
  BY <1>1, <1>2, <1>3, <1>4, <1>5, IdleRow, ModeStep

LEMMA OnSound ==
  ASSUME MaintSound, NEW w \in Workers, ModeOn(w)
  PROVE  MaintSound'
<1> DEFINE j == job[w]
<1>1. mode' = "on" /\ OnlyMode /\ job' = job
  BY DEF ModeOn
<1>2. j \in JobRow /\ JobSound(j) /\ BackedUp(j)
  BY DEF MaintSound, MaintTypeOK, JobsSound, BackupsSound
<1>3. OneMoves(w, j)
  BY <1>1 DEF OneMoves, Renewed, MaintSound, MaintTypeOK
<1>4. QuietSound' /\ BackedUp(job[w])'
  BY <1>1, <1>2
  DEF MaintSound, QuietSound, Quiet, BackedUp, Copy, Dumped, OnlyMode, dataVars, guardVars,
      faultVars
<1>5. /\ j.pc \in InBackup => Backing(w)
      /\ RestoringJob(j) => Restoring(w)
  BY DEF Backing, Restoring, RestoringJob
<1>6. QED
  BY <1>1, <1>2, <1>3, <1>4, <1>5, ModeStep

LEMMA RestoreModeSound ==
  ASSUME MaintSound, NEW w \in Workers,
         RestoreModeOn(w) \/ RestoreExpire(w) \/ RestoreFailed(w)
  PROVE  MaintSound'
<1> DEFINE j == job[w]
           K(pc) == [j EXCEPT !.pc = pc]
<1>1. j \in JobRow /\ JobSound(j) /\ MaintTypeOK /\ OnlyMode
  BY DEF RestoreModeOn, RestoreExpire, RestoreFailed, MaintSound, MaintTypeOK, JobsSound
<1>2. \A pc \in JobSteps :
        /\ K(pc) \in JobRow /\ K(pc).pc = pc
        /\ K(pc).src = j.src /\ K(pc).id = j.id /\ K(pc).pre = j.pre /\ K(pc).cap = j.cap
        /\ K(pc).restoring = j.restoring /\ K(pc).held = j.held /\ K(pc).stale = j.stale
        /\ K(pc).lostBackup = j.lostBackup /\ K(pc).lostRestore = j.lostRestore
  BY <1>1, GoRow
<1>3. \A pc \in JobSteps : Go(w, pc) => Goto(w, K(pc))
  BY DEF Go
<1> HIDE DEF K
<1>4. ASSUME NEW k \in JobRow, Goto(w, k), k.pc \notin Copying
      PROVE  OneMoves(w, k) /\ BackedUp(job[w])' /\ \A v \in Workers : v # w => job'[v] = job[v]
  BY <1>1, <1>4, GotoMoves, Uncopied DEF OneMoves
<1>5. cache' = cache /\ guest' = guest
  BY <1>1 DEF OnlyMode, guardVars
<1>6. CASE RestoreModeOn(w)
  <2> DEFINE stale == {i \in Instances : cache[i] # None} \cup {g \in Guests : Asking(g)}
             k == [j EXCEPT !.pc = "restore.expire", !.held = TRUE, !.stale = stale]
  <2>1. j.pc = "restore.on" /\ mode' = "on" /\ Goto(w, k)
    BY <1>6 DEF RestoreModeOn, At
  <2>2. "restore.expire" \in JobSteps
    BY DEF JobSteps, InRestore
  <2>3. /\ k \in JobRow /\ k.pc = "restore.expire" /\ k.src = j.src /\ k.id = j.id
        /\ k.pre = j.pre /\ k.restoring = j.restoring /\ k.stale = stale
        /\ k.lostRestore = j.lostRestore
    BY <1>1, <2>2 DEF JobRow
  <2> HIDE DEF k
  <2>4. OneMoves(w, k) /\ BackedUp(job[w])' /\ \A v \in Workers : v # w => job'[v] = job[v]
    BY <1>4, <2>1, <2>3 DEF Copying
  <2>5. JobSound(k) /\ ~Writer(k) /\ k.pc \notin InBackup /\ Restoring(w)
    BY <1>1, <2>1, <2>3 DEF JobSound, Writer, Writers, InRestore, InBackup, Restoring
  <2>6. QuietSound'
    <3>1. /\ \A i \in Instances : cache'[i] = FALSE => i \in stale
          /\ \A g \in Guests : guest'[g].pc = "read" => g \in stale
      BY <1>5, MaintenanceAssumption DEF Asking
    <3>2. QED
      BY <1>5, <2>1, <2>3, <2>4, <3>1 DEF MaintSound, QuietSound, Quiet, OneMoves
  <2>7. QED
    BY <1>1, <2>1, <2>3, <2>4, <2>5, <2>6, ModeStep
<1>7. CASE RestoreExpire(w)
  <2> DEFINE k == K("restore.drain")
  <2>1. "restore.drain" \in JobSteps
    BY DEF JobSteps, InRestore
  <2>2. /\ j.pc = "restore.expire" /\ Goto(w, k) /\ k \in JobRow /\ k.pc = "restore.drain"
        /\ mode' = IF mode = "on" THEN "expiring" ELSE mode
    BY <1>2, <1>3, <1>7, <2>1 DEF RestoreExpire, At
  <2>3. OneMoves(w, k) /\ BackedUp(job[w])'
    BY <1>4, <2>2 DEF Copying
  <2>4. JobSound(k) /\ ~Writer(k) /\ k.pc \notin InBackup /\ Restoring(w)
    BY <1>1, <1>2, <2>1, <2>2 DEF JobSound, Writer, Writers, InRestore, InBackup, Restoring
  <2>5. mode' \in {"off", "on", "expiring"} /\ (mode' # "off" \/ mode' = mode)
    BY <1>1, <2>2 DEF MaintTypeOK
  <2>6. QuietSound'
    BY <1>1, <1>2, <1>5, <2>1, <2>2, <2>5, QuietStep DEF MaintSound
  <2>7. QED
    BY <1>1, <1>2, <2>1, <2>2, <2>3, <2>4, <2>5, <2>6, ModeStep
<1>8. CASE RestoreFailed(w)
  <2> DEFINE k == K("restore.finally")
  <2>1. "restore.finally" \in JobSteps
    BY DEF JobSteps
  <2>2. /\ j.pc = "restore.failed" /\ Goto(w, k) /\ k \in JobRow /\ k.pc = "restore.finally"
        /\ mode' = "on"
    BY <1>2, <1>3, <1>8, <2>1 DEF RestoreFailed, At
  <2>3. OneMoves(w, k) /\ BackedUp(job[w])'
    BY <1>4, <2>2 DEF Copying
  <2>4. /\ JobSound(k) /\ ~Writer(k) /\ k.pc \notin InBackup
        /\ RestoringJob(k) => Restoring(w)
    BY <1>1, <1>2, <2>1, <2>2
    DEF JobSound, Writer, Writers, InRestore, InBackup, Restoring, RestoringJob
  <2>5. QuietSound'
    BY <1>1, <1>2, <1>5, <2>1, <2>2, QuietStep DEF MaintSound
  <2>6. QED
    BY <1>1, <1>2, <2>1, <2>2, <2>3, <2>4, <2>5, ModeStep
<1>9. QED
  BY <1>6, <1>7, <1>8

-------------------------------------------------------------------------------
(* Faults of one request.                                                   *)

LEMMA FaultSound ==
  ASSUME MaintSound, NEW w \in Workers, Crash(w) \/ Fail(w) \/ RedisFails(w)
  PROVE  MaintSound'
<1> DEFINE j == job[w]
<1>1. /\ UNCHANGED <<redisVars, dataVars, guardVars, overrun>> /\ faults' \in 0 .. MaxFaults
      /\ j \in JobRow /\ JobSound(j)
  BY FaultCounted DEF Crash, Fail, RedisFails, MaintSound, MaintTypeOK, JobsSound
<1>2. /\ {"backup.failed", "restore.failed", "restore.off", "restore.finally", "restore.check"}
           \subseteq Plain
      /\ "backup.failed" \notin InRestore
      /\ {"restore.failed", "restore.off", "restore.finally", "restore.check"}
           \cap (InBackup \cup InRestore) = {}
  BY DEF Plain, JobSteps, InBackup, InRestore, Writers, Copying
<1>3. CASE Goto(w, Idle)
  BY <1>1, <1>3, EndOnly
<1>4. CASE Fail(w)
  <2>1. (Backing(w) /\ Go(w, "backup.failed")) \/ Go(w, "restore.failed")
    BY <1>4 DEF Fail
  <2>2. QED
    BY <1>1, <1>2, <2>1, GoOnly
<1>5. CASE RedisFails(w)
  <2>1. Goto(w, WithoutRedis(j))
    BY <1>5 DEF RedisFails
  <2>2. CASE j.pc = "backup.release"
    <3> DEFINE k == AfterBackup(j)
    <3>1. Goto(w, k)
      BY <2>1, <2>2 DEF WithoutRedis
    <3>2. /\ k \in JobRow /\ JobSound(k) /\ k.pc \in {"idle", "restore.failed", "restore.drop"}
          /\ k.id = 0 /\ k.pre \in {0, j.id} /\ k.src \in {0, j.src}
          /\ RestoringJob(k) => Restoring(w) /\ k.lostRestore = j.lostRestore
          /\ k.lostRestore => j.lostRestore
          /\ k.held => j.held /\ j.stale \subseteq k.stale
          /\ k.pc = "restore.drop" => j.restoring /\ j.id # 0 /\ k.pre = j.id
      BY <2>2, AfterBackupRow
    <3> HIDE DEF k
    <3>3. BackedUp(job[w])'
      BY <1>1, <2>2, <3>1, <3>2, DropBacked
    <3>4. ~Writer(k) /\ k.pc \notin InBackup
      BY <3>2 DEF Writer, Writers, InBackup
    <3>5. QED
      BY <1>1, <3>1, <3>2, <3>3, <3>4, JobOnly
  <2>3. CASE j.pc = "restore.release"
    <3> DEFINE k == [Idle EXCEPT !.pc = "restore.check"]
    <3>1. Goto(w, k)
      BY <2>1, <2>3 DEF WithoutRedis
    <3>2. "restore.check" \in JobSteps
      BY DEF JobSteps
    <3>3. /\ k \in JobRow /\ k.pc = "restore.check" /\ k.id = 0 /\ k.pre = 0 /\ k.src = 0
          /\ k.restoring = FALSE /\ k.lostRestore = FALSE /\ k.held = FALSE
      BY <3>2, IdleRow, GoRow
    <3> HIDE DEF k
    <3>4. JobSound(k) /\ ~Writer(k) /\ k.pc \notin InBackup /\ ~RestoringJob(k)
      BY <3>3 DEF JobSound, Writer, Writers, RestoringJob, InBackup, InRestore
    <3>5. BackedUp(job[w])'
      BY <3>1, <3>3, GotoMoves, Uncopied DEF OneMoves, MaintSound, Copying
    <3>6. QED
      BY <1>1, <3>1, <3>3, <3>4, <3>5, JobOnly
  <2>4. CASE j.pc \in {"restore.check", "restore.off", "restore.failed"}
    <3>1. \/ Go(w, "restore.off") \/ Go(w, "restore.failed") \/ Go(w, "restore.finally")
      BY <2>1, <2>4 DEF WithoutRedis, Go
    <3>2. QED
      BY <1>1, <1>2, <3>1, GoOnly
  <2>5. CASE j.pc = "restore.finally"
    <3>1. Goto(w, Idle)
      BY <2>1, <2>5 DEF WithoutRedis
    <3>2. QED
      BY <1>3, <3>1
  <2>6. QED
    BY <1>5, <2>2, <2>3, <2>4, <2>5 DEF RedisFails
<1>6. QED
  BY <1>3, <1>4, <1>5 DEF Crash

-------------------------------------------------------------------------------
(* Steps of nobody's: the guards, and what expires.                         *)

LEMMA NobodyStep ==
  ASSUME MaintSound, MaintTypeOK', UNCHANGED dataVars, overrun => overrun',
         \A v \in Workers : Renewed(v)
  PROVE  JobsSound' /\ FilesSound' /\ Exclusive' /\ BackupsSound'
<1>1. db' = db /\ disk' = disk /\ made' = made
  BY DEF dataVars
<1>2. JobsSound'
  BY DEF MaintSound, JobsSound, JobSound, Renewed, Writer
<1>3. FilesSound'
  BY <1>1 DEF MaintSound, FilesSound, Unfinished, Sourced, Renewed, Writer
<1>4. Exclusive'
  BY DEF MaintSound, Exclusive, Renewed, Writer
<1>5. BackupsSound'
  BY <1>1 DEF MaintSound, BackupsSound, BackedUp, Renewed, Copy, Dumped
<1>6. QED
  BY <1>2, <1>3, <1>4, <1>5

\* The guard steps that touch no cache and no request of an administrator.
LEMMA GuestOnly ==
  ASSUME MaintSound, UNCHANGED <<redisVars, dataVars, job, cache, faultVars>>,
         NEW g \in Guests, NEW r \in GuestRow, guest' = [guest EXCEPT ![g] = r],
         (r.pc = "read" /\ ~r.flag) => mode = "off"
  PROVE  MaintSound'
<1>1. /\ mode' = mode /\ backupLock' = backupLock /\ restoreLock' = restoreLock
      /\ db' = db /\ disk' = disk /\ made' = made /\ job' = job /\ cache' = cache
      /\ overrun' = overrun /\ faults' = faults /\ MaintTypeOK
  BY DEF redisVars, dataVars, faultVars, MaintSound
<1>2. MaintTypeOK'
  BY <1>1 DEF MaintTypeOK
<1>3. \A v \in Workers : Renewed(v)
  BY <1>1 DEF Renewed
<1>4. JobsSound' /\ FilesSound' /\ Exclusive' /\ BackupsSound'
  BY <1>1, <1>2, <1>3, NobodyStep DEF dataVars
<1>5. LocksHeld' /\ OverrunSound'
  BY <1>1 DEF MaintSound, LocksHeld, Backing, Restoring, OverrunSound
<1>6. QuietSound'
  <2> SUFFICES ASSUME NEW v \in Workers PROVE Quiet(job[v])'
    BY DEF QuietSound
  <2>1. Quiet(job[v])
    BY DEF MaintSound, QuietSound
  <2>2. \A h \in Guests : guest'[h] = IF h = g THEN r ELSE guest[h]
    BY <1>1 DEF MaintTypeOK
  <2>3. QED
    BY <1>1, <2>1, <2>2 DEF Quiet
<1>7. QED
  BY <1>2, <1>4, <1>5, <1>6 DEF MaintSound

LEMMA GuestRows ==
  /\ \A pc \in {"none", "admitted", "passed"} :
       [NoRequest EXCEPT !.pc = pc] \in GuestRow /\ [NoRequest EXCEPT !.pc = pc].pc = pc
  /\ \A i \in Instances :
       LET r == [NoRequest EXCEPT !.pc = "asked", !.at = i] IN r \in GuestRow /\ r.pc = "asked"
  /\ NoRequest \in GuestRow /\ NoRequest.pc = "none"
  BY DEF NoRequest, GuestRow

LEMMA GuestSound ==
  ASSUME MaintSound, NEW g \in Guests,
         Exempt(g) \/ GuardCached(g) \/ GuardAsks(g) \/ MgetReads(g) \/ Served(g)
  PROVE  MaintSound'
<1>1. CASE Exempt(g) \/ GuardCached(g) \/ Served(g)
  <2>1. PICK r \in GuestRow : guest' = [guest EXCEPT ![g] = r] /\ r.pc # "read"
    BY <1>1, GuestRows DEF Exempt, GuardCached, Served, Passes, Guest
  <2>2. QED
    BY <1>1, <2>1, GuestOnly DEF Exempt, GuardCached, Served, OnlyGuest
<1>2. CASE GuardAsks(g)
  <2>1. PICK r \in GuestRow : guest' = [guest EXCEPT ![g] = r] /\ r.pc # "read"
    BY <1>2, GuestRows DEF GuardAsks, Guest
  <2>2. QED
    BY <1>2, <2>1, GuestOnly DEF GuardAsks, OnlyGuest
<1>3. CASE MgetReads(g)
  <2> DEFINE r == [guest[g] EXCEPT !.pc = "read", !.flag = (mode # "off")]
  <2>1. guest[g] \in GuestRow /\ guest[g].pc = "asked"
    BY <1>3 DEF MgetReads, MaintSound, MaintTypeOK
  <2>2. r \in GuestRow /\ r.flag = (mode # "off")
    BY <2>1 DEF GuestRow
  <2>3. guest' = [guest EXCEPT ![g] = r] /\ OnlyGuest
    BY <1>3 DEF MgetReads, Guest
  <2> HIDE DEF r
  <2>4. QED
    BY <2>2, <2>3, GuestOnly DEF OnlyGuest
<1>4. QED
  BY <1>1, <1>2, <1>3

\* The guard steps by which a cache or a question grows old, or one becomes the other.
LEMMA AgeStep ==
  ASSUME MaintSound, UNCHANGED <<redisVars, dataVars, overrun>>,
         NEW S \in [Workers -> SUBSET (Instances \cup Guests)],
         \A w \in Workers : job[w].stale = {} => S[w] = {},
         job' = [w \in Workers |-> [job[w] EXCEPT !.stale = S[w]]],
         cache' \in [Instances -> BOOLEAN \cup {None}], guest' \in [Guests -> GuestRow],
         faults' \in 0 .. MaxFaults
  PROVE  /\ QuietSound' => MaintSound'
         /\ mode' = mode
         /\ \A w \in Workers : job'[w].stale = S[w] /\ job'[w].held = job[w].held
<1>1. /\ mode' = mode /\ backupLock' = backupLock /\ restoreLock' = restoreLock
      /\ db' = db /\ disk' = disk /\ made' = made /\ overrun' = overrun /\ MaintTypeOK
  BY DEF redisVars, dataVars, MaintSound
<1>2. \A w \in Workers : job[w] \in JobRow
  BY <1>1 DEF MaintTypeOK
<1>3. \A j \in JobRow, T \in SUBSET (Instances \cup Guests) :
        LET k == [j EXCEPT !.stale = T]
        IN  /\ k \in JobRow /\ k.pc = j.pc /\ k.src = j.src /\ k.id = j.id /\ k.pre = j.pre
            /\ k.cap = j.cap /\ k.restoring = j.restoring /\ k.stale = T
            /\ k.held = j.held /\ k.lostBackup = j.lostBackup
            /\ k.lostRestore = j.lostRestore
  BY DEF JobRow
<1>4. /\ job' \in [Workers -> JobRow]
      /\ \A v \in Workers : Renewed(v) /\ job'[v].stale = S[v] /\ job'[v].held = job[v].held
  <2>1. \A w \in Workers : job'[w] = [job[w] EXCEPT !.stale = S[w]]
    OBVIOUS
  <2>2. \A w \in Workers : [job[w] EXCEPT !.stale = S[w]] \in JobRow
    BY <1>2, <1>3
  <2>3. job' \in [Workers -> JobRow]
    BY <2>2
  <2>4. \A v \in Workers : Renewed(v) /\ job'[v].stale = S[v] /\ job'[v].held = job[v].held
    <3> SUFFICES ASSUME NEW v \in Workers
                 PROVE  Renewed(v) /\ job'[v].stale = S[v] /\ job'[v].held = job[v].held
      OBVIOUS
    <3> DEFINE k == [job[v] EXCEPT !.stale = S[v]]
    <3>1. job'[v] = k
      BY <2>1
    <3>2. /\ k.pc = job[v].pc /\ k.src = job[v].src /\ k.id = job[v].id /\ k.pre = job[v].pre
          /\ k.cap = job[v].cap /\ k.restoring = job[v].restoring /\ k.stale = S[v]
          /\ k.held = job[v].held /\ k.lostBackup = job[v].lostBackup
          /\ k.lostRestore = job[v].lostRestore
      BY <1>2, <1>3
    <3> HIDE DEF k
    <3>3. QED
      BY <3>1, <3>2 DEF Renewed
  <2>5. QED
    BY <2>3, <2>4
<1>5. MaintTypeOK'
  BY <1>1, <1>4 DEF MaintTypeOK
<1>6. JobsSound' /\ FilesSound' /\ Exclusive' /\ BackupsSound'
  BY <1>1, <1>4, <1>5, NobodyStep DEF dataVars
<1>7. LocksHeld' /\ OverrunSound'
  BY <1>1, <1>4 DEF MaintSound, LocksHeld, Backing, Restoring, OverrunSound, Renewed
<1>8. QED
  BY <1>1, <1>4, <1>5, <1>6, <1>7 DEF MaintSound

LEMMA AnsweredSound ==
  ASSUME MaintSound, NEW g \in Guests, GuardAnswered(g)
  PROVE  MaintSound'
<1>1. PICK kept \in BOOLEAN :
        /\ guest[g].pc = "read" /\ (kept => ~guest[g].late)
        /\ cache' = [cache EXCEPT ![guest[g].at] = IF kept THEN guest[g].flag ELSE None]
        /\ job' = [w \in Workers |-> [job[w] EXCEPT !.stale = Aged(job[w].stale, g, kept)]]
        /\ IF guest[g].flag THEN Guest(g, NoRequest) ELSE Passes(g, "admitted")
        /\ UNCHANGED <<redisVars, dataVars, faultVars>>
  BY DEF GuardAnswered
<1> DEFINE at == guest[g].at
           S == [w \in Workers |-> Aged(job[w].stale, g, kept)]
<1>2. MaintTypeOK /\ guest[g] \in GuestRow
  BY DEF MaintSound, MaintTypeOK
<1>3. at \in Instances /\ guest[g].flag \in BOOLEAN
  BY <1>1, <1>2 DEF GuestRow
<1>4. PICK r \in GuestRow : guest' = [guest EXCEPT ![g] = r] /\ r.pc # "read"
  BY <1>1, GuestRows DEF Passes, Guest
<1>5. cache' \in [Instances -> BOOLEAN \cup {None}] /\ guest' \in [Guests -> GuestRow]
  BY <1>1, <1>2, <1>3, <1>4 DEF MaintTypeOK
<1>6. /\ S \in [Workers -> SUBSET (Instances \cup Guests)]
      /\ \A w \in Workers : job[w].stale = {} => S[w] = {}
  BY <1>2, <1>3 DEF Aged, MaintTypeOK, JobRow
<1>7. /\ faults' \in 0 .. MaxFaults /\ UNCHANGED <<redisVars, dataVars, overrun>>
      /\ job' = [w \in Workers |-> [job[w] EXCEPT !.stale = S[w]]]
  BY <1>1, <1>2 DEF faultVars, MaintTypeOK
<1> HIDE DEF S
<1>8. /\ QuietSound' => MaintSound'
      /\ mode' = mode
      /\ \A w \in Workers : job'[w].stale = S[w] /\ job'[w].held = job[w].held
  BY <1>5, <1>6, <1>7, AgeStep
<1>9. QuietSound'
  <2> SUFFICES ASSUME NEW v \in Workers, job[v].held
               PROVE  /\ mode # "off"
                      /\ \A i \in Instances : cache'[i] = FALSE => i \in S[v]
                      /\ \A h \in Guests : (guest'[h].pc = "read" /\ ~guest'[h].flag)
                                               => h \in S[v] \/ guest'[h].late
    BY <1>8 DEF QuietSound, Quiet
  <2>1. /\ mode # "off"
        /\ \A i \in Instances : cache[i] = FALSE => i \in job[v].stale
        /\ \A h \in Guests : (guest[h].pc = "read" /\ ~guest[h].flag)
                                 => h \in job[v].stale \/ guest[h].late
    BY DEF MaintSound, QuietSound, Quiet
  <2>2. \A i \in Instances : i \in S[v] <=> IF i = at THEN kept /\ g \in job[v].stale
                                                     ELSE i \in job[v].stale
    BY <1>3, MaintenanceAssumption DEF S, Aged
  <2>3. \A h \in Guests : h # g => (h \in S[v] <=> h \in job[v].stale)
    BY <1>3, MaintenanceAssumption DEF S, Aged
  <2>4. \A i \in Instances :
          cache'[i] = IF i # at THEN cache[i] ELSE IF kept THEN guest[g].flag ELSE None
    BY <1>1, <1>2, <1>3 DEF MaintTypeOK
  <2>5. \A i \in Instances : cache'[i] = FALSE => i \in S[v]
    BY <1>1, <1>3, <2>1, <2>2, <2>4, MaintenanceAssumption
  <2>6. \A h \in Guests : guest'[h] = IF h = g THEN r ELSE guest[h]
    BY <1>2, <1>4 DEF MaintTypeOK
  <2>7. QED
    BY <1>4, <2>1, <2>3, <2>5, <2>6
<1>10. QED
  BY <1>8, <1>9

LEMMA BlindSound ==
  ASSUME MaintSound, NEW g \in Guests, AdmitBlind(g)
  PROVE  MaintSound'
<1> DEFINE S == [w \in Workers |-> job[w].stale \ {g}]
<1>1. /\ UNCHANGED <<redisVars, dataVars, overrun>> /\ cache' = cache
      /\ job' = [w \in Workers |-> [job[w] EXCEPT !.stale = S[w]]]
      /\ faults' \in 0 .. MaxFaults /\ MaintTypeOK
  BY FaultCounted DEF AdmitBlind, MaintSound
<1>2. PICK r \in GuestRow : guest' = [guest EXCEPT ![g] = r] /\ r.pc # "read"
  BY GuestRows DEF AdmitBlind, Passes, Guest
<1>3. \A h \in Guests : guest'[h] = IF h = g THEN r ELSE guest[h]
  BY <1>1, <1>2 DEF MaintTypeOK
<1>4. guest' \in [Guests -> GuestRow] /\ cache' \in [Instances -> BOOLEAN \cup {None}]
  BY <1>1, <1>2 DEF MaintTypeOK
<1>5. /\ S \in [Workers -> SUBSET (Instances \cup Guests)]
      /\ \A w \in Workers : job[w].stale = {} => S[w] = {}
  BY <1>1 DEF MaintTypeOK, JobRow
<1>6. \A w \in Workers : \A x : x # g => (x \in S[w] <=> x \in job[w].stale)
  OBVIOUS
<1> HIDE DEF S
<1>7. /\ QuietSound' => MaintSound'
      /\ mode' = mode
      /\ \A w \in Workers : job'[w].stale = S[w] /\ job'[w].held = job[w].held
  BY <1>1, <1>4, <1>5, AgeStep
<1>8. \A i \in Instances : i # g
  BY MaintenanceAssumption
<1>9. QuietSound'
  BY <1>1, <1>2, <1>3, <1>6, <1>7, <1>8 DEF MaintSound, QuietSound, Quiet
<1>10. QED
  BY <1>7, <1>9

LEMMA CacheSound ==
  ASSUME MaintSound, NEW i \in Instances, CacheExpires(i)
  PROVE  MaintSound'
<1> DEFINE S == [w \in Workers |-> job[w].stale \ {i}]
<1>1. /\ UNCHANGED <<redisVars, dataVars, overrun>> /\ guest' = guest
      /\ job' = [w \in Workers |-> [job[w] EXCEPT !.stale = S[w]]]
      /\ cache' = [cache EXCEPT ![i] = None]
      /\ faults' \in 0 .. MaxFaults /\ MaintTypeOK
  BY DEF CacheExpires, faultVars, MaintSound, MaintTypeOK
<1>2. guest' \in [Guests -> GuestRow] /\ cache' \in [Instances -> BOOLEAN \cup {None}]
  BY <1>1 DEF MaintTypeOK
<1>3. /\ S \in [Workers -> SUBSET (Instances \cup Guests)]
      /\ \A w \in Workers : job[w].stale = {} => S[w] = {}
  BY <1>1 DEF MaintTypeOK, JobRow
<1>4. \A w \in Workers : \A x : x # i => (x \in S[w] <=> x \in job[w].stale)
  OBVIOUS
<1> HIDE DEF S
<1>5. /\ QuietSound' => MaintSound'
      /\ mode' = mode
      /\ \A w \in Workers : job'[w].stale = S[w] /\ job'[w].held = job[w].held
  BY <1>1, <1>2, <1>3, AgeStep
<1>6. \A x \in Instances : cache'[x] = FALSE => x # i /\ cache[x] = FALSE
  BY <1>1, MaintenanceAssumption DEF MaintTypeOK
<1>7. \A g \in Guests : g # i
  BY MaintenanceAssumption
<1>8. QuietSound'
  BY <1>1, <1>4, <1>5, <1>6, <1>7 DEF MaintSound, QuietSound, Quiet
<1>9. QED
  BY <1>5, <1>8

LEMMA GuardSound ==
  ASSUME MaintSound, NEW g \in Guests,
         \/ Exempt(g) \/ GuardCached(g) \/ GuardAsks(g) \/ MgetReads(g) \/ GuardAnswered(g)
         \/ AdmitBlind(g) \/ Served(g)
  PROVE  MaintSound'
  BY GuestSound, AnsweredSound, BlindSound

LEMMA ModeExpirySound ==
  ASSUME MaintSound, ModeExpires
  PROVE  MaintSound'
<1>1. /\ backupLock' = backupLock /\ restoreLock' = restoreLock
      /\ db' = db /\ disk' = disk /\ made' = made /\ cache' = cache /\ guest' = guest
      /\ overrun' = overrun /\ faults' = faults /\ mode' = "off" /\ job' = NotHeld
  BY DEF ModeExpires, OnlyMode, dataVars, guardVars, faultVars
<1>2. /\ job' \in [Workers -> JobRow]
      /\ \A v \in Workers : Renewed(v) /\ job'[v].held = FALSE
  BY <1>1, NotHeldRows DEF Renewed, MaintSound
<1>3. MaintTypeOK'
  BY <1>1, <1>2 DEF MaintSound, MaintTypeOK
<1>4. JobsSound' /\ FilesSound' /\ Exclusive' /\ BackupsSound'
  BY <1>1, <1>2, <1>3, NobodyStep DEF dataVars
<1>5. LocksHeld' /\ OverrunSound'
  BY <1>1, <1>2 DEF MaintSound, LocksHeld, Backing, Restoring, OverrunSound, Renewed
<1>6. QuietSound'
  BY <1>2 DEF QuietSound, Quiet
<1>7. QED
  BY <1>3, <1>4, <1>5, <1>6 DEF MaintSound

LEMMA LockExpirySound ==
  ASSUME MaintSound, BackupLockExpires \/ RestoreLockExpires
  PROVE  MaintSound'
<1>1. /\ mode' = mode /\ db' = db /\ disk' = disk /\ made' = made
      /\ cache' = cache /\ guest' = guest /\ faults' \in 0 .. MaxFaults
      /\ MaintTypeOK /\ overrun \in BOOLEAN
  BY FaultCounted
  DEF BackupLockExpires, RestoreLockExpires, dataVars, guardVars, MaintSound, MaintTypeOK
<1>2. \A j \in JobRow :
        /\ [j EXCEPT !.lostBackup = TRUE] \in JobRow
        /\ [j EXCEPT !.lostRestore = TRUE] \in JobRow
  BY DEF JobRow
<1>3. CASE BackupLockExpires
  <2>1. /\ backupLock \in Workers /\ backupLock' = None /\ restoreLock' = restoreLock
        /\ overrun' = overrun
        /\ job' = IF Backing(backupLock) THEN [job EXCEPT ![backupLock].lostBackup = TRUE]
                  ELSE job
    BY <1>1, <1>3 DEF BackupLockExpires, MaintTypeOK
  <2>2. /\ job' \in [Workers -> JobRow]
        /\ \A v \in Workers :
             /\ job'[v].pc = job[v].pc /\ job'[v].src = job[v].src /\ job'[v].id = job[v].id
             /\ job'[v].pre = job[v].pre /\ job'[v].cap = job[v].cap
             /\ job'[v].restoring = job[v].restoring /\ job'[v].stale = job[v].stale
             /\ job'[v].held = job[v].held /\ job'[v].lostRestore = job[v].lostRestore
             /\ job'[v].lostBackup = (job[v].lostBackup \/ (v = backupLock /\ Backing(v)))
    <3>1. \A v \in Workers : job[v] \in JobRow /\ job[v].lostBackup \in BOOLEAN
      BY <1>1 DEF MaintTypeOK, JobRow
    <3>2. \A v \in Workers :
            job'[v] = IF v = backupLock /\ Backing(v) THEN [job[v] EXCEPT !.lostBackup = TRUE]
                      ELSE job[v]
      BY <1>1, <2>1 DEF MaintTypeOK
    <3>3. job' \in [Workers -> JobRow]
      BY <1>1, <1>2, <2>1, <3>1 DEF MaintTypeOK
    <3>4. QED
      BY <3>1, <3>2, <3>3 DEF JobRow
  <2>3. MaintTypeOK'
    BY <1>1, <2>1, <2>2 DEF MaintTypeOK
  <2>4. JobsSound'
    BY <2>2 DEF MaintSound, JobsSound, JobSound, Writer
  <2>5. FilesSound'
    BY <1>1, <2>2 DEF MaintSound, FilesSound, Unfinished, Sourced, Writer
  <2>6. Exclusive'
    BY <2>2 DEF MaintSound, Exclusive, Writer
  <2>7. BackupsSound'
    BY <1>1, <2>1, <2>2 DEF MaintSound, BackupsSound, BackedUp, Copy, Dumped
  <2>8. LocksHeld' /\ OverrunSound' /\ QuietSound'
    BY <1>1, <2>1, <2>2
    DEF MaintSound, LocksHeld, Backing, Restoring, OverrunSound, QuietSound, Quiet
  <2>9. QED
    BY <2>3, <2>4, <2>5, <2>6, <2>7, <2>8 DEF MaintSound
<1>4. CASE RestoreLockExpires
  <2>1. /\ restoreLock \in Workers /\ restoreLock' = None /\ backupLock' = backupLock
        /\ overrun' \in BOOLEAN /\ (overrun => overrun')
        /\ Restoring(restoreLock) => overrun'
        /\ job' = IF Restoring(restoreLock) THEN [job EXCEPT ![restoreLock].lostRestore = TRUE]
                  ELSE job
    BY <1>1, <1>4 DEF RestoreLockExpires, MaintTypeOK
  <2>2. /\ job' \in [Workers -> JobRow]
        /\ \A v \in Workers :
             /\ job'[v].pc = job[v].pc /\ job'[v].src = job[v].src /\ job'[v].id = job[v].id
             /\ job'[v].pre = job[v].pre /\ job'[v].cap = job[v].cap
             /\ job'[v].restoring = job[v].restoring /\ job'[v].stale = job[v].stale
             /\ job'[v].held = job[v].held /\ job'[v].lostBackup = job[v].lostBackup
             /\ job'[v].lostRestore = (job[v].lostRestore \/ (v = restoreLock /\ Restoring(v)))
    <3>1. \A v \in Workers : job[v] \in JobRow /\ job[v].lostRestore \in BOOLEAN
      BY <1>1 DEF MaintTypeOK, JobRow
    <3>2. \A v \in Workers :
            job'[v] = IF v = restoreLock /\ Restoring(v)
                        THEN [job[v] EXCEPT !.lostRestore = TRUE] ELSE job[v]
      BY <1>1, <2>1 DEF MaintTypeOK
    <3>3. job' \in [Workers -> JobRow]
      BY <1>1, <1>2, <2>1, <3>1 DEF MaintTypeOK
    <3>4. QED
      BY <3>1, <3>2, <3>3 DEF JobRow
  <2>3. MaintTypeOK'
    BY <1>1, <2>1, <2>2 DEF MaintTypeOK
  <2>4. JobsSound'
    BY <2>2 DEF MaintSound, JobsSound, JobSound, Writer
  <2>5. FilesSound'
    BY <1>1, <2>2 DEF MaintSound, FilesSound, Unfinished, Sourced, Writer
  <2>6. Exclusive'
    BY <2>2 DEF MaintSound, Exclusive, Writer
  <2>7. BackupsSound'
    BY <1>1, <2>1, <2>2 DEF MaintSound, BackupsSound, BackedUp, Copy, Dumped
  <2>8. LocksHeld' /\ OverrunSound' /\ QuietSound'
    BY <1>1, <2>1, <2>2
    DEF MaintSound, LocksHeld, Backing, Restoring, OverrunSound, QuietSound, Quiet
  <2>9. QED
    BY <2>3, <2>4, <2>5, <2>6, <2>7, <2>8 DEF MaintSound
<1>5. QED
  BY <1>3, <1>4

-------------------------------------------------------------------------------
(* The theorems.                                                            *)

LEMMA MaintStepSound == MaintSound /\ [MaintNext]_maintVars => MaintSound'
<1> SUFFICES ASSUME MaintSound, [MaintNext]_maintVars PROVE MaintSound'
  OBVIOUS
<1>1. ASSUME NEW w \in Workers, Backup(w) PROVE MaintSound'
  BY <1>1, CheckSound, AcquireSound, MakeSound, DumpSound, GzipSound, TarSound, FailedSound,
     ReleaseSound, DeleteSound
  DEF Backup
<1>2. ASSUME NEW w \in Workers, Restore(w) PROVE MaintSound'
  BY <1>2, ValidateSound, AcquireSound, RestoreModeSound, DrainSound, RestoreDataSound,
     CheckSound, ReleaseSound, OffSound
  DEF Restore
<1>3. ASSUME NEW w \in Workers,
             ModeOn(w) \/ ModeOffCheck(w) \/ ModeOffUnchecked(w) \/ ModeOff(w)
      PROVE  MaintSound'
  BY <1>3, OnSound, OffSound, CheckSound
<1>4. ASSUME NEW w \in Workers, Crash(w) \/ Fail(w) \/ RedisFails(w) PROVE MaintSound'
  BY <1>4, FaultSound
<1>5. ASSUME \/ \E g \in Guests :
                   \/ Exempt(g) \/ GuardCached(g) \/ GuardAsks(g) \/ MgetReads(g)
                   \/ GuardAnswered(g) \/ AdmitBlind(g) \/ Served(g)
             \/ \E i \in Instances : CacheExpires(i)
      PROVE  MaintSound'
  BY <1>5, GuardSound, CacheSound
<1>6. ASSUME ModeExpires \/ BackupLockExpires \/ RestoreLockExpires PROVE MaintSound'
  BY <1>6, ModeExpirySound, LockExpirySound
<1>7. CASE UNCHANGED maintVars
  <2>1. /\ UNCHANGED <<mode, backupLock, restoreLock, db, disk, made, job, cache, guest,
                       overrun, faults>>
    BY <1>7 DEF maintVars, redisVars, dataVars, guardVars, faultVars
  <2>2. MaintTypeOK'
    BY <2>1 DEF MaintSound, MaintTypeOK
  <2>3. \A v \in Workers : Renewed(v)
    BY <2>1 DEF Renewed
  <2>4. JobsSound' /\ FilesSound' /\ Exclusive' /\ BackupsSound'
    BY <2>1, <2>2, <2>3, NobodyStep DEF dataVars
  <2>5. LocksHeld' /\ OverrunSound' /\ QuietSound'
    BY <2>1 DEF MaintSound, LocksHeld, Backing, Restoring, OverrunSound, QuietSound, Quiet
  <2>6. QED
    BY <2>2, <2>4, <2>5 DEF MaintSound
<1>8. QED
  BY <1>1, <1>2, <1>3, <1>4, <1>5, <1>6, <1>7 DEF MaintNext

\* The inductive invariant holds in every state that backups, restores, the switch of the
\* maintenance flag, guards, expiring keys and crashes can reach.
THEOREM MaintSoundness == MaintSpec => []MaintSound
  BY MaintInitSound, MaintStepSound, PTL DEF MaintSpec

\* Every variable keeps its type, and an archive holds what backups write.
THEOREM MaintTypeCorrect == MaintSpec => []MaintTypeOK
<1>1. MaintSound => MaintTypeOK
  BY DEF MaintSound
<1>2. QED
  BY <1>1, MaintSoundness, PTL

\* Neither lock is taken over: who backs up, or restores, holds its lock until it gives it
\* back, unless the lock has expired under it.
THEOREM LocksCorrect == MaintSpec => []LocksHeld
<1>1. MaintSound => LocksHeld
  BY DEF MaintSound
<1>2. QED
  BY <1>1, MaintSoundness, PTL

\* A restore never drops the schema for a source of which an archive is half written.
THEOREM SourceCorrect == MaintSpec => []SourceComplete
<1>1. MaintSound => SourceComplete
  <2> SUFFICES ASSUME MaintSound, NEW w \in Workers,
                      job[w].pc \in {"restore.drop", "restore.import"}
               PROVE  disk[job[w].src] \in {None} \cup WholeArchives
    BY DEF SourceComplete, WholeArchives
  <2>1. JobSound(job[w]) /\ Sourced(job[w])
    BY DEF MaintSound, JobsSound, FilesSound
  <2>2. job[w].src # 0
    BY <2>1 DEF JobSound, InRestore
  <2>3. QED
    BY <2>1, <2>2 DEF Sourced
<1>2. QED
  BY <1>1, MaintSoundness, PTL

DropBody ==
  \A w \in Workers :
    (At(w, "restore.drop") /\ db' = "dropped" /\ job'[w].pc = "restore.import" /\ ~overrun)
      => /\ job[w].pre # 0
         /\ disk[job[w].pre] \in {None, [db |-> Dumped(db), uploads |-> "whole"]}

\* What the drop of the schema destroys is in the backup that the restore made before.
THEOREM DropBackedCorrect == MaintSpec => DropIsBackedUp
<1>1. MaintSound /\ [MaintNext]_maintVars => [DropBody]_maintVars
  <2> SUFFICES ASSUME MaintSound, NEW w \in Workers, At(w, "restore.drop"), ~overrun
               PROVE  job[w].pre # 0 /\ disk[job[w].pre] \in {None, Copy}
    BY DEF DropBody, Copy
  <2>1. BackedUp(job[w])
    BY DEF MaintSound, BackupsSound
  <2>2. QED
    BY <2>1 DEF BackedUp, At
<1>2. MaintSpec => [][DropBody]_maintVars
  BY <1>1, MaintSoundness, PTL DEF MaintSpec
<1>3. QED
  BY <1>2 DEF DropIsBackedUp, DropBody

QuietBody ==
  \A g \in Guests :
    (guest[g].pc # "admitted" /\ guest'[g].pc = "admitted" /\ ~guest[g].late)
      => ~\E w \in Workers : job[w].restoring /\ job[w].held

LEMMA AdmitQuiet ==
  ASSUME MaintSound, NEW g \in Guests, NEW x \in Guests, GuardCached(x) \/ GuardAnswered(x),
         guest[g].pc # "admitted", guest'[g].pc = "admitted", ~guest[g].late,
         NEW w \in Workers, job[w].restoring, job[w].held
  PROVE  FALSE
<1>1. MaintTypeOK /\ JobSound(job[w]) /\ Quiet(job[w])
  BY DEF MaintSound, JobsSound, QuietSound
<1>2. /\ \A i \in Instances : cache[i] # FALSE
      /\ \A h \in Guests : (guest[h].pc = "read" /\ ~guest[h].flag) => guest[h].late
  BY <1>1 DEF JobSound, Quiet
<1>3. GuardAnswered(x)
  BY <1>2 DEF GuardCached
<1>4. PICK r \in GuestRow : guest' = [guest EXCEPT ![x] = r]
  BY <1>3, GuestRows DEF GuardAnswered, Passes, Guest
<1>5. x = g
  BY <1>1, <1>4 DEF MaintTypeOK
<1>6. guest[g].flag
  BY <1>2, <1>3, <1>5 DEF GuardAnswered
<1>7. guest' = [guest EXCEPT ![g] = NoRequest]
  BY <1>3, <1>5, <1>6 DEF GuardAnswered, Guest
<1>8. QED
  BY <1>1, <1>7, GuestRows DEF MaintTypeOK

LEMMA OnlyAdmits ==
  ASSUME MaintTypeOK, MaintNext, NEW g \in Guests, guest[g].pc # "admitted",
         guest'[g].pc = "admitted"
  PROVE  \E x \in Guests : GuardCached(x) \/ GuardAnswered(x)
<1>1. CASE \E w \in Workers : Backup(w)
  BY <1>1 DEF Backup, BackupCheckMode, BackupCheckRestore, BackupAcquire, BackupDir, BackupDump,
     BackupGzip, BackupTar, Deleted, BackupFailed, BackupRelease, DeleteBackup, OnlyJob,
     OnlyData, guardVars
<1>2. CASE \E w \in Workers : Restore(w) /\ ~RestoreDrain(w)
  BY <1>2 DEF Restore, RestoreValidate, RestoreAcquire, RestoreModeOn, RestoreExpire,
     RestoreDrop, RestoreImport, RestoreImported, RestoreUploads, RestoreRelease,
     RestoreCheck, RestoreOff, RestoreFailed, RestoreFinally, OnlyJob, OnlyData, OnlyMode,
     guardVars
<1>3. CASE \E w \in Workers : RestoreDrain(w)
  <2>1. guest'[g].pc = guest[g].pc
    <3>1. guest[g] \in GuestRow
      BY DEF MaintTypeOK
    <3>2. [guest[g] EXCEPT !.late = TRUE].pc = guest[g].pc
      BY <3>1 DEF GuestRow
    <3>3. QED
      BY <1>3, <3>2 DEF RestoreDrain, Outlived
  <2>2. QED
    BY <2>1
<1>4. CASE \E w \in Workers : \/ ModeOn(w) \/ ModeOffCheck(w) \/ ModeOffUnchecked(w) \/ ModeOff(w)
                              \/ Crash(w) \/ Fail(w) \/ RedisFails(w)
  BY <1>4 DEF ModeOn, ModeOffCheck, ModeOffUnchecked, ModeOff, Crash, Fail, RedisFails, OnlyJob,
     OnlyMode, guardVars
<1>5. CASE \E x \in Guests : Exempt(x) \/ GuardAsks(x) \/ MgetReads(x) \/ AdmitBlind(x) \/ Served(x)
  <2>1. PICK x \in Guests :
          Exempt(x) \/ GuardAsks(x) \/ MgetReads(x) \/ AdmitBlind(x) \/ Served(x)
    BY <1>5
  <2>2. guest[x] \in GuestRow
    BY DEF MaintTypeOK
  <2>3. [guest[x] EXCEPT !.pc = "read", !.flag = (mode # "off")].pc = "read"
    BY <2>2 DEF GuestRow
  <2>4. \E r : guest' = [guest EXCEPT ![x] = r] /\ r.pc # "admitted"
    BY <2>1, <2>3, GuestRows
    DEF Exempt, GuardAsks, MgetReads, AdmitBlind, Served, Passes, Guest
  <2>5. QED
    BY <2>4 DEF MaintTypeOK
<1>6. CASE \E i \in Instances : CacheExpires(i)
  BY <1>6 DEF CacheExpires
<1>7. CASE ModeExpires \/ BackupLockExpires \/ RestoreLockExpires
  BY <1>7 DEF ModeExpires, BackupLockExpires, RestoreLockExpires, OnlyMode, guardVars
<1>8. QED
  BY <1>1, <1>2, <1>3, <1>4, <1>5, <1>6, <1>7 DEF MaintNext

\* Once a restore has drained, no guard takes an end user's request by the flag it has
\* cached or by an answer of Redis, but by one that was on its way all through the drain.
THEOREM QuietCorrect == MaintSpec => QuietDuringRestore
<1>1. MaintSound /\ [MaintNext]_maintVars => [QuietBody]_maintVars
  <2> SUFFICES ASSUME MaintSound, MaintNext, NEW g \in Guests, guest[g].pc # "admitted",
                      guest'[g].pc = "admitted", ~guest[g].late,
                      NEW w \in Workers, job[w].restoring, job[w].held
               PROVE  FALSE
    BY DEF QuietBody
  <2>1. PICK x \in Guests : GuardCached(x) \/ GuardAnswered(x)
    BY OnlyAdmits DEF MaintSound
  <2>2. QED
    BY <2>1, AdmitQuiet
<1>2. MaintSpec => [][QuietBody]_maintVars
  BY <1>1, MaintSoundness, PTL DEF MaintSpec
<1>3. QED
  BY <1>2 DEF QuietDuringRestore, QuietBody
===============================================================================
