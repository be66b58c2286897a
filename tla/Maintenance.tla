------------------------------ MODULE Maintenance ------------------------------
(***************************************************************************)
(* MaintenanceService and MaintenanceGuard: the maintenance flag and the   *)
(* two locks in Redis, backups on disk, the restore that drops the schema  *)
(* and imports a backup, and the end users' requests the guard turns away. *)
(* An administrator's request is run by a worker; each call to Redis,      *)
(* PostgreSQL or the file system is a step.  Of the data, only whether it  *)
(* is whole is modelled.                                                   *)
(***************************************************************************)
EXTENDS Naturals, FiniteSets

CONSTANTS
  Workers,     \* administrators' requests in flight
  Instances,   \* API instances, each with a guard and its cache
  Guests,      \* end users' requests in flight
  None,
  MaxBackups,  \* bound: backup directories ever made
  MaxFaults    \* bound: crashes, errors and stalls

\* What the two files of a backup directory can be.
Archives == [db : {"none", "partial", "whole", "torn"}, uploads : {"none", "partial", "whole"}]

ASSUME MaintenanceAssumption ==
  /\ MaxBackups \in Nat \ {0} /\ MaxFaults \in Nat
  /\ None \notin Workers \cup Nat \cup BOOLEAN \cup {"whole", "torn", "dropped"}
  /\ None \notin Archives
  /\ Instances \cap Guests = {} /\ None \notin Instances

Backups == 1 .. MaxBackups

VARIABLES
  mode,         \* maintenance:enabled: "off", "on", or "expiring" (on, with a time to live)
  backupLock,   \* maintenance:backup:lock: None, or the worker whose token it holds
  restoreLock,  \* maintenance:restore:lock
  db,           \* the schema: "whole", "torn" (tables are missing), "dropped", "importing"
  disk,         \* disk[b]: the two archives in backup directory b, or None
  made,         \* the number of directories made (ids are times, and not used twice)
  job,          \* job[w]: what worker w is doing and what it has read
  cache,        \* cache[i]: the flag cached by the guard of instance i, or None
  guest,        \* guest[g]: what the guard of an instance has found out for request g
  overrun,      \* history: a restore went on after its lock had expired
  faults

redisVars == <<mode, backupLock, restoreLock>>
dataVars  == <<db, disk, made>>
guardVars == <<cache, guest>>
faultVars == <<overrun, faults>>
maintVars == <<redisVars, dataVars, job, guardVars, faultVars>>

Idle ==
  [pc |-> "idle", src |-> 0, id |-> 0, pre |-> 0, restoring |-> FALSE, cap |-> None,
   stale |-> {},         \* caches filled, and questions asked, before the drain began
   held |-> FALSE,       \* history: the flag has been on since this restore set it
   lostBackup |-> FALSE, lostRestore |-> FALSE]  \* history: the lock expired under it

\* pc: "asked" and "read" while the guard awaits Redis, then how it was let in.
NoRequest == [pc |-> "none", at |-> None, flag |-> FALSE,
              late |-> FALSE]  \* history: the guard has waited for the whole of a drain

Empty    == [db |-> "none", uploads |-> "none"]
Complete == [db |-> "whole", uploads |-> "whole"]

MaintInit ==
  /\ mode = "off" /\ backupLock = None /\ restoreLock = None
  /\ db = "whole"
  /\ disk = [b \in Backups |-> IF b = 1 THEN Complete ELSE None]
  /\ made = 1
  /\ job = [w \in Workers |-> Idle]
  /\ cache = [i \in Instances |-> None]
  /\ guest = [g \in Guests |-> NoRequest]
  /\ overrun = FALSE /\ faults = 0

-------------------------------------------------------------------------------
At(w, pc)    == job[w].pc = pc
Goto(w, j)   == job' = [job EXCEPT ![w] = j]
Go(w, pc)    == Goto(w, [job[w] EXCEPT !.pc = pc])
OnlyJob      == UNCHANGED <<redisVars, dataVars, guardVars, faultVars>>
OnlyData     == UNCHANGED <<redisVars, guardVars, faultVars>>
OnlyMode     == UNCHANGED <<backupLock, restoreLock, dataVars, guardVars, faultVars>>

\* JwtStrategy reads the administrator's row: without the schema no request begins.
Begins(w) == At(w, "idle") /\ db # "dropped"

Faulty == faults < MaxFaults /\ faults' = faults + 1

\* The guard of an instance waits for Redis.
Asking(g) == guest[g].pc \in {"asked", "read"}

\* The flag is off: no restore has it on since its own beginning any more.
NotHeld == [w \in Workers |-> [job[w] EXCEPT !.held = FALSE]]

-------------------------------------------------------------------------------
(* setMaintenanceMode, asked for by an administrator.                       *)

ModeOn(w) ==
  /\ Begins(w)
  /\ mode' = "on"
  /\ OnlyMode /\ UNCHANGED job

ModeOffCheck(w) ==
  /\ Begins(w)
  /\ restoreLock = None
  /\ Go(w, "mode.off")
  /\ OnlyJob

\* Redis does not answer, and the check is passed.
ModeOffUnchecked(w) ==
  /\ Begins(w) /\ Faulty
  /\ Go(w, "mode.off")
  /\ UNCHANGED <<redisVars, dataVars, guardVars, overrun>>

ModeOff(w) ==
  /\ At(w, "mode.off")
  /\ mode' = "off"
  /\ job' = [NotHeld EXCEPT ![w] = Idle]
  /\ OnlyMode

-------------------------------------------------------------------------------
(* createBackup, asked for by an administrator or by a restore.             *)

BackupCheckMode(w) ==
  /\ Begins(w)
  /\ mode # "off"
  /\ Go(w, "backup.check")
  /\ OnlyJob

BackupCheckRestore(w) ==
  /\ At(w, "backup.check")
  /\ Goto(w, IF restoreLock = None THEN [job[w] EXCEPT !.pc = "backup.lock"] ELSE Idle)
  /\ OnlyJob

\* A createBackup that throws ends the request, or reaches the restore's catch.
Thrown(j) == IF j.restoring THEN [j EXCEPT !.pc = "restore.failed", !.id = 0, !.cap = None]
             ELSE Idle

\* acquireLock: SET NX.
BackupAcquire(w) ==
  /\ At(w, "backup.lock")
  /\ IF backupLock = None THEN backupLock' = w /\ Go(w, "backup.dir")
                          ELSE UNCHANGED backupLock /\ Goto(w, Thrown(job[w]))
  /\ UNCHANGED <<mode, restoreLock, dataVars, guardVars, faultVars>>

BackupDir(w) ==
  /\ At(w, "backup.dir") /\ made < MaxBackups
  /\ made' = made + 1
  /\ disk' = [disk EXCEPT ![made + 1] = Empty]
  /\ Goto(w, [job[w] EXCEPT !.pc = "backup.dump", !.id = made + 1])
  /\ OnlyData /\ UNCHANGED db

\* Faulty variant: a dump of nothing passes for a dump.
DumpedUnnoticed(d) == d

\* What pg_dump finds, or None when it fails.
Dumped(d) == IF d = "dropped" THEN None ELSE IF d = "whole" THEN "whole" ELSE "torn"

\* A step that writes into the backup's directory fails when somebody deleted it.
Writing(w, pc) == At(w, pc) /\ disk[job[w].id] # None
Deleted(w) ==
  /\ job[w].pc \in {"backup.dump", "backup.gzip", "backup.tar"}
  /\ disk[job[w].id] = None
  /\ Go(w, "backup.failed")
  /\ OnlyJob

\* pg_dump, and gzip begins.
BackupDump(w) ==
  /\ Writing(w, "backup.dump")
  /\ IF Dumped(db) = None
       THEN Go(w, "backup.failed") /\ UNCHANGED disk
       ELSE /\ disk' = [disk EXCEPT ![job[w].id].db = "partial"]
            /\ Goto(w, [job[w] EXCEPT !.pc = "backup.gzip", !.cap = Dumped(db)])
  /\ OnlyData /\ UNCHANGED <<db, made>>

\* gzip ends, and tar begins.
BackupGzip(w) ==
  /\ Writing(w, "backup.gzip")
  /\ disk' = [disk EXCEPT ![job[w].id] = [db |-> job[w].cap, uploads |-> "partial"]]
  /\ Goto(w, [job[w] EXCEPT !.pc = "backup.tar", !.cap = None])
  /\ OnlyData /\ UNCHANGED <<db, made>>

BackupTar(w) ==
  /\ Writing(w, "backup.tar")
  /\ disk' = [disk EXCEPT ![job[w].id].uploads = "whole"]
  /\ Go(w, "backup.release")
  /\ OnlyData /\ UNCHANGED <<db, made>>

BackupFailed(w) ==
  /\ At(w, "backup.failed")
  /\ disk' = IF job[w].id = 0 THEN disk ELSE [disk EXCEPT ![job[w].id] = None]
  /\ Goto(w, [job[w] EXCEPT !.pc = "backup.release", !.id = 0, !.cap = None])
  /\ OnlyData /\ UNCHANGED <<db, made>>

\* RELEASE_LOCK_SCRIPT.  Faulty variant: whoever holds it.
ReleasedByAnyone(key, w) == None
Released(key, w) == IF key = w THEN None ELSE key

\* Faulty variant: the restore goes on without its backup.
AfterBackupRegardless(j) ==
  IF ~j.restoring THEN Idle
  ELSE [j EXCEPT !.pc = "restore.drop", !.pre = j.id, !.id = 0, !.lostBackup = FALSE]

AfterBackup(j) ==
  IF ~j.restoring THEN Idle
  ELSE [j EXCEPT !.pc = IF j.id = 0 THEN "restore.failed" ELSE "restore.drop",
                 !.pre = j.id, !.id = 0, !.lostBackup = FALSE]

BackupRelease(w) ==
  /\ At(w, "backup.release")
  /\ backupLock' = Released(backupLock, w)
  /\ Goto(w, AfterBackup(job[w]))
  /\ UNCHANGED <<mode, restoreLock, dataVars, guardVars, faultVars>>

DeleteBackup(w) ==
  \E b \in Backups :
    /\ Begins(w)
    /\ disk[b] # None
    /\ disk' = [disk EXCEPT ![b] = None]
    /\ OnlyData /\ UNCHANGED <<db, made, job>>

-------------------------------------------------------------------------------
(* restoreBackup.                                                           *)

\* Faulty variant: the archives have to exist, nothing more.
Present(b) == disk[b] # None /\ disk[b].db # "none" /\ disk[b].uploads # "none"

\* Both archives exist and pass gzip -t.
Restorable(b) ==
  disk[b] # None /\ disk[b].db \in {"whole", "torn"} /\ disk[b].uploads = "whole"

RestoreValidate(w) ==
  \E b \in Backups :
    /\ Begins(w)
    /\ Restorable(b)
    /\ Goto(w, [Idle EXCEPT !.pc = "restore.lock", !.src = b])
    /\ OnlyJob

RestoreAcquire(w) ==
  /\ At(w, "restore.lock")
  /\ IF restoreLock = None THEN restoreLock' = w /\ Go(w, "restore.on")
                           ELSE UNCHANGED restoreLock /\ Goto(w, Idle)
  /\ UNCHANGED <<mode, backupLock, dataVars, guardVars, faultVars>>

RestoreModeOn(w) ==
  /\ At(w, "restore.on")
  /\ mode' = "on"
  /\ Goto(w, [job[w] EXCEPT !.pc = "restore.expire", !.held = TRUE,
                            !.stale = {i \in Instances : cache[i] # None}
                                        \cup {g \in Guests : Asking(g)}])
  /\ OnlyMode

RestoreExpire(w) ==
  /\ At(w, "restore.expire")
  /\ mode' = IF mode = "on" THEN "expiring" ELSE mode
  /\ Go(w, "restore.drain")
  /\ OnlyMode

\* Faulty variant: nobody waits.
DrainSkipped(w) == TRUE

\* drainTimeMs is longer than an entry of the guard's cache lives.
Drained(w) == job[w].stale \cap Instances = {}

\* So is a question older that is still under way: what it brings will not be kept.
Outlived(old) ==
  [g \in Guests |-> IF g \in old THEN [guest[g] EXCEPT !.late = TRUE] ELSE guest[g]]

RestoreDrain(w) ==
  /\ At(w, "restore.drain")
  /\ Drained(w)
  /\ Goto(w, [job[w] EXCEPT !.pc = "backup.lock", !.restoring = TRUE, !.stale = {}])
  /\ guest' = Outlived(job[w].stale)
  /\ UNCHANGED <<redisVars, dataVars, cache, faultVars>>

RestoreDrop(w) ==
  /\ At(w, "restore.drop")
  /\ db' = "dropped"
  /\ Go(w, "restore.import")
  /\ OnlyData /\ UNCHANGED <<disk, made>>

\* psql stops at the first error: over a schema that is there again it fails.
RestoreImport(w) ==
  /\ At(w, "restore.import")
  /\ IF disk[job[w].src] # None /\ db = "dropped"
       THEN /\ db' = "importing"
            /\ Goto(w, [job[w] EXCEPT !.pc = "restore.imported", !.cap = disk[job[w].src].db])
       ELSE UNCHANGED db /\ Go(w, "restore.failed")
  /\ OnlyData /\ UNCHANGED <<disk, made>>

RestoreImported(w) ==
  /\ At(w, "restore.imported")
  /\ IF db = "importing" THEN db' = job[w].cap /\ Go(w, "restore.uploads")
                         ELSE UNCHANGED db /\ Go(w, "restore.failed")
  /\ OnlyData /\ UNCHANGED <<disk, made>>

RestoreUploads(w) ==
  /\ At(w, "restore.uploads")
  /\ Go(w, IF disk[job[w].src] # None THEN "restore.release" ELSE "restore.failed")
  /\ OnlyJob

\* The lock goes first, because setMaintenanceMode(false) looks at it.
RestoreRelease(w) ==
  /\ At(w, "restore.release")
  /\ restoreLock' = Released(restoreLock, w)
  /\ Goto(w, [Idle EXCEPT !.pc = "restore.check"])
  /\ UNCHANGED <<mode, backupLock, dataVars, guardVars, faultVars>>

\* Somebody else's restore makes this one, which is complete, fail.
RestoreCheck(w) ==
  /\ At(w, "restore.check")
  /\ Go(w, IF restoreLock = None THEN "restore.off" ELSE "restore.failed")
  /\ OnlyJob

RestoreOff(w) ==
  /\ At(w, "restore.off")
  /\ mode' = "off"
  /\ job' = [NotHeld EXCEPT ![w] = Idle]
  /\ OnlyMode

\* catch: the system is held in maintenance, without a time to live.
RestoreFailed(w) ==
  /\ At(w, "restore.failed")
  /\ mode' = "on"
  /\ Go(w, "restore.finally")
  /\ OnlyMode

\* finally: the lock, unless this restore has given it back.
RestoreFinally(w) ==
  /\ At(w, "restore.finally")
  /\ restoreLock' = IF job[w].src = 0 THEN restoreLock ELSE Released(restoreLock, w)
  /\ Goto(w, Idle)
  /\ UNCHANGED <<mode, backupLock, dataVars, guardVars, faultVars>>

-------------------------------------------------------------------------------
(* MaintenanceGuard, for a request of an end user.                          *)

New(g)       == guest[g].pc = "none"
Guest(g, r)  == guest' = [guest EXCEPT ![g] = r]
Passes(g, how) == Guest(g, [NoRequest EXCEPT !.pc = how])
OnlyGuest    == UNCHANGED <<redisVars, dataVars, job, cache, faultVars>>

\* isAllowedDuringMaintenance, or a token that does not verify on a route where
\* JwtAuthGuard will refuse it.
Exempt(g) ==
  /\ New(g)
  /\ Passes(g, "passed")
  /\ OnlyGuest

GuardCached(g) ==
  \E i \in Instances :
    /\ New(g)
    /\ cache[i] = FALSE
    /\ Passes(g, "admitted")
    /\ OnlyGuest

\* The entry will live for two seconds from now, not from the answer.
GuardAsks(g) ==
  \E i \in Instances :
    /\ New(g)
    /\ cache[i] = None
    /\ Guest(g, [NoRequest EXCEPT !.pc = "asked", !.at = i])
    /\ OnlyGuest

MgetReads(g) ==
  /\ guest[g].pc = "asked"
  /\ Guest(g, [guest[g] EXCEPT !.pc = "read", !.flag = (mode # "off")])
  /\ OnlyGuest

\* A cache entry is as old as the question it comes from.
Aged(old, g, kept) ==
  (old \ {g, guest[g].at}) \cup (IF kept /\ g \in old THEN {guest[g].at} ELSE {})

\* The cache is overwritten whoever filled it meanwhile, and is empty when two seconds
\* have passed since the question.
GuardAnswered(g) ==
  \E kept \in BOOLEAN :
    /\ guest[g].pc = "read"
    /\ kept => ~guest[g].late
    /\ cache' = [cache EXCEPT ![guest[g].at] = IF kept THEN guest[g].flag ELSE None]
    /\ job' = [w \in Workers |-> [job[w] EXCEPT !.stale = Aged(@, g, kept)]]
    /\ IF guest[g].flag THEN Guest(g, NoRequest) ELSE Passes(g, "admitted")
    /\ UNCHANGED <<redisVars, dataVars, faultVars>>

\* Redis does not answer: the guard lets the request pass.
AdmitBlind(g) ==
  /\ Asking(g) /\ Faulty
  /\ Passes(g, "passed")
  /\ job' = [w \in Workers |-> [job[w] EXCEPT !.stale = @ \ {g}]]
  /\ UNCHANGED <<redisVars, dataVars, cache, overrun>>

\* The request has been served.
Served(g) ==
  /\ ~New(g) /\ ~Asking(g)
  /\ Guest(g, NoRequest)
  /\ OnlyGuest

\* Two seconds have passed.
CacheExpires(i) ==
  /\ cache[i] # None
  /\ cache' = [cache EXCEPT ![i] = None]
  /\ job' = [w \in Workers |-> [job[w] EXCEPT !.stale = @ \ {i}]]
  /\ UNCHANGED <<redisVars, dataVars, guest, faultVars>>

-------------------------------------------------------------------------------
(* Time and faults.                                                         *)

InBackup  == {"backup.dir", "backup.dump", "backup.gzip", "backup.tar", "backup.failed",
              "backup.release"}
InRestore == {"restore.on", "restore.expire", "restore.drain", "restore.drop",
              "restore.import", "restore.imported", "restore.uploads", "restore.release"}
Backing(w)   == job[w].pc \in InBackup
Restoring(w) == job[w].pc \in InRestore \/ job[w].restoring

ModeExpires ==
  /\ mode = "expiring"
  /\ mode' = "off"
  /\ job' = NotHeld
  /\ OnlyMode

\* A holder renews its lock: the time runs out when it is gone, or stalled for long.
BackupLockExpires ==
  /\ backupLock # None
  /\ IF Backing(backupLock)
       THEN /\ Faulty
            /\ job' = [job EXCEPT ![backupLock].lostBackup = TRUE]
       ELSE UNCHANGED <<faults, job>>
  /\ backupLock' = None
  /\ UNCHANGED <<mode, restoreLock, dataVars, guardVars, overrun>>

RestoreLockExpires ==
  /\ restoreLock # None
  /\ IF Restoring(restoreLock)
       THEN /\ Faulty
            /\ job' = [job EXCEPT ![restoreLock].lostRestore = TRUE]
            /\ overrun' = TRUE
       ELSE UNCHANGED <<faults, job, overrun>>
  /\ restoreLock' = None
  /\ UNCHANGED <<mode, backupLock, dataVars, guardVars>>

\* The process dies; its keys stay, and what it left on disk.
Crash(w) ==
  /\ job[w].pc # "idle" /\ Faulty
  /\ Goto(w, Idle)
  /\ UNCHANGED <<redisVars, dataVars, guardVars, overrun>>

\* pg_dump, gzip, tar or psql fails.
Fail(w) ==
  /\ job[w].pc \in (InBackup \cup InRestore)
                     \ {"backup.failed", "backup.release", "restore.expire", "restore.drain",
                        "restore.release"}
  /\ Faulty
  /\ Go(w, IF Backing(w) THEN "backup.failed" ELSE "restore.failed")
  /\ UNCHANGED <<redisVars, dataVars, guardVars, overrun>>

\* What follows a call to Redis that fails, where the code goes on without it.
WithoutRedis(j) ==
  CASE j.pc = "backup.release"  -> AfterBackup(j)
    [] j.pc = "restore.release" -> [Idle EXCEPT !.pc = "restore.check"]
    [] j.pc = "restore.check"   -> [j EXCEPT !.pc = "restore.off"]
    [] j.pc = "restore.off"     -> [j EXCEPT !.pc = "restore.failed"]
    [] j.pc = "restore.failed"  -> [j EXCEPT !.pc = "restore.finally"]
    [] j.pc = "restore.finally" -> Idle

RedisFails(w) ==
  /\ job[w].pc \in {"backup.release", "restore.release", "restore.check", "restore.off",
                    "restore.failed", "restore.finally"}
  /\ Faulty
  /\ Goto(w, WithoutRedis(job[w]))
  /\ UNCHANGED <<redisVars, dataVars, guardVars, overrun>>

-------------------------------------------------------------------------------
Backup(w) ==
  \/ BackupCheckMode(w) \/ BackupCheckRestore(w) \/ BackupAcquire(w) \/ BackupDir(w)
  \/ BackupDump(w) \/ BackupGzip(w) \/ BackupTar(w) \/ Deleted(w) \/ BackupFailed(w)
  \/ BackupRelease(w) \/ DeleteBackup(w)

Restore(w) ==
  \/ RestoreValidate(w) \/ RestoreAcquire(w) \/ RestoreModeOn(w) \/ RestoreExpire(w)
  \/ RestoreDrain(w) \/ RestoreDrop(w) \/ RestoreImport(w) \/ RestoreImported(w)
  \/ RestoreUploads(w) \/ RestoreRelease(w) \/ RestoreCheck(w) \/ RestoreOff(w)
  \/ RestoreFailed(w) \/ RestoreFinally(w)

MaintNext ==
  \/ \E w \in Workers :
       \/ ModeOn(w) \/ ModeOffCheck(w) \/ ModeOffUnchecked(w) \/ ModeOff(w)
       \/ Backup(w) \/ Restore(w) \/ Crash(w) \/ Fail(w) \/ RedisFails(w)
  \/ \E g \in Guests :
       \/ Exempt(g) \/ GuardCached(g) \/ GuardAsks(g) \/ MgetReads(g) \/ GuardAnswered(g)
       \/ AdmitBlind(g) \/ Served(g)
  \/ \E i \in Instances : CacheExpires(i)
  \/ ModeExpires \/ BackupLockExpires \/ RestoreLockExpires

MaintSpec == MaintInit /\ [][MaintNext]_maintVars
-------------------------------------------------------------------------------
(* Properties.                                                              *)

JobSteps == InBackup \cup InRestore \cup
  {"idle", "mode.off", "backup.check", "backup.lock", "restore.lock", "restore.check",
   "restore.off", "restore.failed", "restore.finally"}

JobRow ==
  [pc : JobSteps, src : 0 .. MaxBackups, id : 0 .. MaxBackups, pre : 0 .. MaxBackups,
   restoring : BOOLEAN, cap : {"whole", "torn", None}, stale : SUBSET (Instances \cup Guests),
   held : BOOLEAN, lostBackup : BOOLEAN, lostRestore : BOOLEAN]

GuestRow ==
  [pc : {"asked", "read"}, at : Instances, flag : BOOLEAN, late : BOOLEAN]
    \cup [pc : {"none", "admitted", "passed"}, at : {None}, flag : {FALSE}, late : BOOLEAN]

\* The types, and what an archive can hold.
MaintTypeOK ==
  /\ mode \in {"off", "on", "expiring"}
  /\ backupLock \in Workers \cup {None} /\ restoreLock \in Workers \cup {None}
  /\ db \in {"whole", "torn", "dropped", "importing"}
  /\ disk \in [Backups -> Archives \cup {None}]
  /\ made \in Backups
  /\ job \in [Workers -> JobRow]
  /\ cache \in [Instances -> BOOLEAN \cup {None}]
  /\ guest \in [Guests -> GuestRow]
  /\ overrun \in BOOLEAN /\ faults \in 0 .. MaxFaults

\* README: the locks are "token-matched on renew/release so concurrent backup/restore
\* operations cannot take over each other's lock": between taking a lock and giving it
\* back it is held, unless it expired meanwhile.
LocksHeld ==
  \A w \in Workers :
    /\ (Backing(w) /\ ~job[w].lostBackup) => backupLock = w
    /\ (Restoring(w) /\ ~job[w].lostRestore) => restoreLock = w

\* A restore that has come as far as the drop has a source of two complete archives, or
\* none any more: one that is still being written, or that a crash left half written, is
\* never taken, though the source is looked at before the lock is taken and the lock is
\* not the one backups take.
SourceComplete ==
  \A w \in Workers :
    job[w].pc \in {"restore.drop", "restore.import"} =>
      disk[job[w].src] \in {None} \cup [db : {"whole", "torn"}, uploads : {"whole"}]

\* restoreDatabase: "a pre-restore backup was already created".  Whatever the drop of the
\* schema destroys is in a backup that this very restore completed before, unless an
\* administrator has deleted that one, or a restore has outlived its lock.
DropIsBackedUp ==
  [][\A w \in Workers :
       (At(w, "restore.drop") /\ db' = "dropped" /\ job'[w].pc = "restore.import" /\ ~overrun)
         => /\ job[w].pre # 0
            /\ disk[job[w].pre] \in {None, [db |-> Dumped(db), uploads |-> "whole"]}]_maintVars

\* Once a restore has drained, and as long as nobody has switched the flag off, the guard
\* takes no end user's request for one that comes while the system is open: neither by the
\* cached flag of any instance nor by an answer that was on its way.  Three exceptions: a
\* request whose question to Redis was under way for the whole of the drain, the requests
\* that pass whatever the flag says (Exempt), and those that pass because Redis does not
\* answer (AdmitBlind).
QuietDuringRestore ==
  [][\A g \in Guests :
       (guest[g].pc # "admitted" /\ guest'[g].pc = "admitted" /\ ~guest[g].late)
         => ~\E w \in Workers : job[w].restoring /\ job[w].held]_maintVars

\* setMaintenanceMode: "Cannot disable maintenance during active restore": an
\* administrator never switches it off under a restore that has switched it on, holds its
\* lock and goes on.
NeverOffDuringRestore ==
  [][\A w \in Workers : (At(w, "mode.off") /\ mode' = "off" /\ job'[w] = Idle)
       => ~\E x \in Workers : restoreLock = x /\ Restoring(x) /\ job[x].held]_maintVars
===============================================================================
