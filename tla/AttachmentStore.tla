---------------------------- MODULE AttachmentStore ----------------------------
(***************************************************************************)
(* AttachmentsService, CommentsService and what TicketsService.delete does *)
(* to attachments: files in the uploads directory and their rows in table  *)
(* attachments, which no transaction spans, and the six-hourly clean-up    *)
(* that every API instance runs.  Each call to PostgreSQL or to the file   *)
(* system is a step; a transaction's writes are one step, at its commit.   *)
(*                                                                         *)
(* File names are uuids: files are numbered in the order they are named.   *)
(***************************************************************************)
EXTENDS Naturals, FiniteSets

CONSTANTS
  Tickets,
  Requests,      \* uploads, comments and ticket deletions in flight
  Cleaners,      \* API instances, each with its cron job
  None,
  MaxPerTicket,  \* appConfig.fileUpload.maxFilesPerTicket
  CommentSizes,  \* bound: how many files a comment comes with (at most maxFilesPerComment)
  MaxFiles,      \* bound: files ever named
  MaxFaults      \* bound: crashes and errors

ASSUME StoreAssumption ==
  /\ MaxPerTicket \in Nat /\ MaxFiles \in Nat /\ MaxFaults \in Nat
  /\ CommentSizes \subseteq Nat \ {0}
  /\ None \notin Tickets

VARIABLES
  live,    \* the tickets that are there
  disk,    \* the files in the uploads directory
  row,     \* row[f]: the ticket that f's row in table attachments belongs to, or None
  named,   \* the number of files named so far
  req,     \* req[r]: what request r is doing and what it has read
  clean,   \* clean[c]: where the clean-up of instance c stands
  raced,   \* history: files that were saved and without a row while a clean-up was under way
  excused, \* history: files left by a fault, a failed comment, or under a deleted ticket
  faults

dbVars    == <<live, row>>
storeVars == <<live, disk, row, named, req, clean, raced, excused, faults>>

Files == 1 .. MaxFiles

Holding(pc, kind, t, n, files) ==
  [pc |-> pc, kind |-> kind, ticket |-> t, want |-> n, saved |-> files,
   conflict |-> FALSE]  \* another transaction wrote to what this one has counted
Idle   == Holding("idle", "none", None, 0, {})
Asleep == [pc |-> "idle", stored |-> {}, todo |-> {}]

StoreInit ==
  /\ live = Tickets
  /\ disk = {} /\ row = [f \in Files |-> None] /\ named = 0
  /\ req = [r \in Requests |-> Idle]
  /\ clean = [c \in Cleaners |-> Asleep]
  /\ raced = {} /\ excused = {} /\ faults = 0

-------------------------------------------------------------------------------
At(r, pc)  == req[r].pc = pc
Goto(r, q) == req' = [req EXCEPT ![r] = q]
Recorded   == {f \in Files : row[f] # None}
RowsOf(t)  == {f \in Files : row[f] = t}

\* A clean-up that has read the rows and has not finished.
Cleaning == \E c \in Cleaners : clean[c].pc # "idle"

Faulty == faults < MaxFaults /\ faults' = faults + 1

-------------------------------------------------------------------------------
(* POST /tickets/:id/attachments and POST /tickets/:id/comments.            *)

\* findUnique, the checks on the caller and the files, then the transaction begins.
Receive(r) ==
  \E t \in live, kind \in {"upload", "comment"} :
    \E n \in IF kind = "upload" THEN {1} ELSE CommentSizes :
      /\ At(r, "idle")
      /\ named + n <= MaxFiles
      /\ Goto(r, Holding("count", kind, t, n, {}))
      /\ UNCHANGED <<dbVars, disk, named, clean, raced, excused, faults>>

\* The limit: >= before one more for an upload, + files.length > for a comment.
Fits(r) == Cardinality(RowsOf(req[r].ticket)) + req[r].want <= MaxPerTicket

\* tx.attachment.count: the snapshot of the serializable transaction.
CountRows(r) ==
  /\ At(r, "count")
  /\ Goto(r, IF Fits(r) THEN [req[r] EXCEPT !.pc = "save"] ELSE Idle)
  /\ UNCHANGED <<dbVars, disk, named, clean, raced, excused, faults>>

\* storageService.save, one file after the other.
Save(r) ==
  LET q == req[r]
      f == named + 1
  IN  /\ At(r, "save")
      /\ named < MaxFiles
      /\ named' = f
      /\ disk' = disk \cup {f}
      /\ raced' = IF Cleaning THEN raced \cup {f} ELSE raced
      /\ Goto(r, [q EXCEPT !.saved = @ \cup {f},
                           !.pc = IF Cardinality(q.saved) + 1 = q.want THEN "commit" ELSE "save"])
      /\ UNCHANGED <<dbVars, clean, excused, faults>>

\* writeFile fails, with or without a part of the file on disk.  A comment removes the
\* files saved before; an upload removes what it was writing.
SaveFails(r) ==
  LET q == req[r]
      f == named + 1
  IN  /\ At(r, "save") /\ Faulty
      /\ named < MaxFiles
      /\ named' = f
      /\ \E part \in {{}, {f}} :
           /\ disk' = disk \cup part
           /\ raced' = IF Cleaning THEN raced \cup part ELSE raced
           /\ excused' = IF q.kind = "comment" THEN excused \cup part ELSE excused
           /\ Goto(r, [q EXCEPT !.pc = "unlink",
                                !.saved = IF q.kind = "upload" THEN part ELSE @])
      /\ UNCHANGED <<dbVars, clean>>

\* Faulty variant: under READ COMMITTED nobody minds what others wrote.
CommitsReadCommitted(r) == req[r].ticket \in live

\* Faulty variant: the rows of a deleted ticket can be written.
CommitsWithoutTicket(r) == ~req[r].conflict

\* The foreign key needs the ticket, and of two serializable transactions that have both
\* counted the rows of a ticket and both add some, only one commits.
Commits(r) == req[r].ticket \in live /\ ~req[r].conflict

\* Whoever has counted the rows of ticket t and has not finished.
Overtaken(t) == {x \in Requests : req[x].ticket = t /\ req[x].pc \in {"save", "commit"}}

Commit(r) ==
  LET q == req[r]
  IN  /\ At(r, "commit")
      /\ Commits(r)
      /\ row' = [f \in Files |-> IF f \in q.saved THEN q.ticket ELSE row[f]]
      /\ req' = [x \in Requests |->
                   IF x = r THEN Idle
                   ELSE IF x \in Overtaken(q.ticket) THEN [req[x] EXCEPT !.conflict = TRUE]
                   ELSE req[x]]
      /\ UNCHANGED <<live, disk, named, clean, raced, excused, faults>>

\* Faulty variant: the file stays when the transaction fails.
LeftByFailure(q) == q.saved

\* The files nobody removes when the transaction of q fails after they were saved: an
\* upload catches the error and deletes its file, a comment only catches errors of save.
LeftBehind(q) == IF q.kind = "comment" THEN q.saved ELSE {}

\* The transaction fails: by a constraint, for serialization, or with the connection.
Rollback(r) ==
  LET q == req[r]
  IN  /\ At(r, "commit")
      /\ IF Commits(r) THEN Faulty ELSE UNCHANGED faults
      /\ excused' = IF q.kind = "comment" THEN excused \cup q.saved ELSE excused
      /\ Goto(r, Holding("unlink", q.kind, None, 0, q.saved \ LeftBehind(q)))
      /\ UNCHANGED <<dbVars, disk, named, clean, raced>>

\* storageService.delete, file by file, best effort.
Unlink(r) ==
  LET q == req[r]
  IN  /\ At(r, "unlink") /\ q.saved # {}
      /\ \E f \in q.saved :
           /\ Goto(r, [q EXCEPT !.saved = @ \ {f}])
           /\ \/ disk' = disk \ {f} /\ UNCHANGED <<excused, faults>>
              \/ Faulty /\ excused' = excused \cup {f} /\ UNCHANGED disk
      /\ UNCHANGED <<dbVars, named, clean, raced>>

Answer(r) ==
  /\ At(r, "unlink") /\ req[r].saved = {}
  /\ Goto(r, Idle)
  /\ UNCHANGED <<dbVars, disk, named, clean, raced, excused, faults>>

-------------------------------------------------------------------------------
(* DELETE /tickets/:id: the paths are read, the rows go with the ticket     *)
(* (ON DELETE CASCADE), then the files are removed.                         *)

DeleteRead(r) ==
  \E t \in live :
    /\ At(r, "idle")
    /\ Goto(r, Holding("delete", "delete", t, 0, RowsOf(t)))
    /\ UNCHANGED <<dbVars, disk, named, clean, raced, excused, faults>>

DeleteCommit(r) ==
  LET q == req[r]
  IN  /\ At(r, "delete") /\ q.ticket \in live
      /\ live' = live \ {q.ticket}
      /\ row' = [f \in Files |-> IF row[f] = q.ticket THEN None ELSE row[f]]
      /\ excused' = excused \cup (RowsOf(q.ticket) \ q.saved)
      /\ Goto(r, [q EXCEPT !.pc = "unlink"])
      /\ UNCHANGED <<disk, named, clean, raced, faults>>

\* Somebody else deleted it, or the transaction fails.
DeleteAbort(r) ==
  /\ At(r, "delete")
  /\ IF req[r].ticket \in live THEN Faulty ELSE UNCHANGED faults
  /\ Goto(r, Idle)
  /\ UNCHANGED <<dbVars, disk, named, clean, raced, excused>>

-------------------------------------------------------------------------------
(* cleanupOrphanedFiles.                                                    *)

\* findAllPaths.
CleanRead(c) ==
  /\ clean[c].pc = "idle"
  /\ clean' = [clean EXCEPT ![c] = [Asleep EXCEPT !.pc = "list", !.stored = Recorded]]
  /\ raced' = raced \cup UNION {req[r].saved : r \in {x \in Requests : req[x].pc \in {"save", "commit"}}}
  /\ UNCHANGED <<dbVars, disk, named, req, excused, faults>>

\* Faulty variant: the names are not compared.
EveryFile(stored) == disk

\* Faulty variant: the difference is taken the wrong way round.
RowsWithoutFile(stored) == stored \ disk

\* The entries that have no row among those read before.
Orphaned(stored) == disk \ stored

\* readdir.
CleanList(c) ==
  /\ clean[c].pc = "list"
  /\ clean' = [clean EXCEPT ![c] = [Asleep EXCEPT !.pc = "unlink", !.todo = Orphaned(clean[c].stored)]]
  /\ UNCHANGED <<dbVars, disk, named, req, raced, excused, faults>>

\* One unlink; a failure is logged and the loop goes on.
CleanUnlink(c) ==
  /\ clean[c].pc = "unlink"
  /\ \E f \in clean[c].todo :
       /\ clean' = [clean EXCEPT ![c].todo = @ \ {f}]
       /\ \/ disk' = disk \ {f} /\ UNCHANGED faults
          \/ Faulty /\ UNCHANGED disk
  /\ UNCHANGED <<dbVars, named, req, raced, excused>>

CleanDone(c) ==
  /\ clean[c].pc = "unlink" /\ clean[c].todo = {}
  /\ clean' = [clean EXCEPT ![c] = Asleep]
  /\ UNCHANGED <<dbVars, disk, named, req, raced, excused, faults>>

\* The query or readdir fails, or the instance dies.
CleanFails(c) ==
  /\ clean[c].pc # "idle" /\ Faulty
  /\ clean' = [clean EXCEPT ![c] = Asleep]
  /\ UNCHANGED <<dbVars, disk, named, req, raced, excused>>

\* The process dies: what the request had saved or had to remove stays.
Crash(r) ==
  /\ ~At(r, "idle") /\ Faulty
  /\ excused' = excused \cup (IF At(r, "delete") THEN {} ELSE req[r].saved)
  /\ Goto(r, Idle)
  /\ UNCHANGED <<dbVars, disk, named, clean, raced>>

-------------------------------------------------------------------------------
Handler(r) ==
  \/ Receive(r) \/ CountRows(r) \/ Save(r) \/ SaveFails(r)
  \/ Commit(r) \/ Rollback(r) \/ Unlink(r) \/ Answer(r)
  \/ DeleteRead(r) \/ DeleteCommit(r) \/ DeleteAbort(r)
  \/ Crash(r)

CleanStep(c) == CleanList(c) \/ CleanUnlink(c) \/ CleanDone(c)
CleanUp(c)   == CleanRead(c) \/ CleanStep(c) \/ CleanFails(c)

StoreNext == (\E r \in Requests : Handler(r)) \/ (\E c \in Cleaners : CleanUp(c))

\* The cron job fires every six hours, on each instance, and a run goes on.
StoreFairness == \A c \in Cleaners : WF_storeVars(CleanRead(c)) /\ WF_storeVars(CleanStep(c))

StoreSpec == StoreInit /\ [][StoreNext]_storeVars /\ StoreFairness
-------------------------------------------------------------------------------
(* Properties.                                                              *)

RequestRow ==
  [pc : {"idle", "count", "save", "commit", "unlink", "delete"},
   kind : {"none", "upload", "comment", "delete"}, ticket : Tickets \cup {None},
   want : Nat, saved : SUBSET Files, conflict : BOOLEAN]

CleanRow == [pc : {"idle", "list", "unlink"}, stored : SUBSET Files, todo : SUBSET Files]

\* The types, and that a row belongs to a ticket that is there (the foreign key).
StoreTypeOK ==
  /\ live \subseteq Tickets /\ disk \subseteq 1 .. named
  /\ row \in [Files -> live \cup {None}]
  /\ named \in 0 .. MaxFiles
  /\ req \in [Requests -> RequestRow]
  /\ clean \in [Cleaners -> CleanRow]
  /\ raced \subseteq Files /\ excused \subseteq Files

\* README: "max 5/ticket".  The count is taken before files are saved and rows inserted;
\* concurrent uploads and comments together never exceed it.
PerTicketLimit == \A t \in Tickets : Cardinality(RowsOf(t)) <= MaxPerTicket

\* A recorded file is on disk, whatever failed and was cleaned up, unless a clean-up was
\* under way between its saving and its recording.
RecordedKept == Recorded \subseteq disk \cup raced

\* cleanupOrphanedFiles: "Removes files that exist on disk but have no corresponding DB
\* record": it never removes the file of a row.
OnlyOrphansRemoved ==
  [][\A c \in Cleaners :
       clean'[c] # clean[c] => \A f \in disk \ disk' : f \notin Recorded]_storeVars

\* upload: "If transaction fails after save, the catch block below cleans up".  A file with
\* neither a row nor a request at work on it was left by a fault, by a comment (whose
\* handler only cleans up after a failing save), or by an upload to a ticket while the
\* ticket was being deleted.
NothingLeftByUploads ==
  \A f \in disk :
    \/ f \in Recorded \/ f \in excused
    \/ \E r \in Requests : f \in req[r].saved /\ req[r].pc # "delete"

\* Whatever was left behind, the clean-up removes in the end: when the requests have come
\* to rest, every file in the directory has a row.
LeftoversRemoved == <>[](disk \subseteq Recorded)
===============================================================================
