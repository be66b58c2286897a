---------------------------- MODULE AttachmentProofs ----------------------------
(***************************************************************************)
(* The safety properties of AttachmentStore for any number of tickets,     *)
(* requests, instances, files and faults.                                  *)
(***************************************************************************)
EXTENDS AttachmentStore, FiniteSetTheorems, TLAPS

Writing(r) == req[r].pc \in {"save", "commit"}

\* What a request holds, by the step it is at.
RequestSound(q) ==
  /\ q.pc \in {"count", "save", "commit", "delete"} => q.ticket \in Tickets
  /\ q.pc \in {"idle", "count"} => q.saved = {}
  /\ q.pc \in {"count", "save", "commit"} => q.kind \in {"upload", "comment"}
  /\ (q.pc \in {"count", "save"} /\ q.kind = "upload") => q.saved = {} /\ q.want = 1
  /\ q.pc = "commit" => Cardinality(q.saved) <= q.want

RequestsSound == \A r \in Requests : RequestSound(req[r])

Typed == StoreTypeOK /\ RequestsSound

-------------------------------------------------------------------------------
(* Types.                                                                   *)

LEMMA IdleSound == Idle \in RequestRow /\ RequestSound(Idle) /\ Asleep \in CleanRow
  BY FS_EmptySet DEF Idle, Holding, RequestRow, RequestSound, Asleep, CleanRow

LEMMA TypedInit == StoreInit => Typed
  BY IdleSound, StoreAssumption DEF StoreInit, Typed, StoreTypeOK, RequestsSound, Files

\* Replacing what one request holds keeps all of them sound.
LEMMA RequestStep ==
  ASSUME Typed, NEW r \in Requests, NEW q \in RequestRow, RequestSound(q), Goto(r, q)
  PROVE  req' \in [Requests -> RequestRow] /\ RequestsSound'
  BY DEF Typed, StoreTypeOK, RequestsSound, Goto

LEMMA SubsetFinite == \A S \in SUBSET Files : IsFiniteSet(S) /\ Cardinality(S) \in Nat
<1>1. IsFiniteSet(Files)
  BY FS_Interval, StoreAssumption DEF Files
<1>2. QED
  BY <1>1, FS_Subset, FS_CardinalityType

LEMMA WriteTyped ==
  ASSUME Typed, NEW r \in Requests,
         Receive(r) \/ CountRows(r) \/ Save(r) \/ SaveFails(r)
  PROVE  Typed'
<1> DEFINE q == req[r]
<1>1. q \in RequestRow /\ RequestSound(q) /\ named \in Nat /\ MaxFiles \in Nat
  BY StoreAssumption DEF Typed, StoreTypeOK, RequestsSound
<1>2. CASE Receive(r)
  <2>1. PICK t \in live, kind \in {"upload", "comment"} :
          \E n \in IF kind = "upload" THEN {1} ELSE CommentSizes :
            Goto(r, Holding("count", kind, t, n, {}))
    BY <1>2 DEF Receive
  <2>2. PICK n \in IF kind = "upload" THEN {1} ELSE CommentSizes :
          Goto(r, Holding("count", kind, t, n, {}))
    BY <2>1
  <2>3. n \in Nat /\ (kind = "upload" => n = 1)
    BY <2>2, StoreAssumption
  <2>4. t \in Tickets /\ kind \in {"upload", "comment"}
    BY <2>1 DEF Typed, StoreTypeOK
  <2>5. Holding("count", kind, t, n, {}) \in RequestRow /\ RequestSound(Holding("count", kind, t, n, {}))
    BY <2>3, <2>4 DEF Holding, RequestRow, RequestSound
  <2>6. req' \in [Requests -> RequestRow] /\ RequestsSound'
    BY <2>2, <2>5, RequestStep
  <2>7. QED
    BY <1>2, <2>6 DEF Receive, Typed, StoreTypeOK, dbVars
<1>3. CASE CountRows(r)
  <2> DEFINE new == IF Fits(r) THEN [q EXCEPT !.pc = "save"] ELSE Idle
  <2>1. new \in RequestRow /\ RequestSound(new)
    BY <1>1, <1>3, IdleSound DEF CountRows, At, RequestRow, RequestSound
  <2>2. req' \in [Requests -> RequestRow] /\ RequestsSound'
    BY <1>3, <2>1, RequestStep DEF CountRows
  <2>3. QED
    BY <1>3, <2>2 DEF CountRows, Typed, StoreTypeOK, dbVars
<1>4. CASE Save(r)
  <2> DEFINE f == named + 1
             new == [q EXCEPT !.saved = @ \cup {f},
                       !.pc = IF Cardinality(q.saved) + 1 = q.want THEN "commit" ELSE "save"]
  <2>1. f \in Files /\ f \in 1 .. MaxFiles /\ 1 .. named \subseteq 1 .. f
    BY <1>1, <1>4 DEF Save, Files
  <2>2. IsFiniteSet(q.saved) /\ Cardinality(q.saved) \in Nat /\ q.saved \subseteq Files /\ q.want \in Nat
    BY <1>1, SubsetFinite DEF RequestRow
  <2>3. Cardinality(q.saved \cup {f}) <= Cardinality(q.saved) + 1
    BY <2>2, FS_AddElement
  <2>4. new \in RequestRow
    BY <1>1, <2>1, <2>2 DEF RequestRow
  <2>5. RequestSound(new)
    <3>1. q.kind = "upload" => q.saved = {} /\ q.want = 1
      BY <1>1, <1>4 DEF Save, At, RequestSound
    <3>a. new.pc = IF Cardinality(q.saved) + 1 = q.want THEN "commit" ELSE "save"
      BY <1>1 DEF RequestRow
    <3>b. Cardinality({}) + 1 = 1
      BY FS_EmptySet
    <3>2. q.kind = "upload" => new.pc = "commit"
      BY <3>1, <3>a, <3>b
    <3>3. new.pc = "commit" => Cardinality(new.saved) <= new.want
      BY <1>1, <2>2, <2>3 DEF RequestRow
    <3>4. QED
      BY <1>1, <1>4, <3>2, <3>3 DEF Save, At, RequestSound, RequestRow
  <2>6. req' \in [Requests -> RequestRow] /\ RequestsSound'
    BY <1>4, <2>4, <2>5, RequestStep DEF Save
  <2>7. QED
    BY <1>1, <1>4, <2>1, <2>6 DEF Save, Typed, StoreTypeOK, dbVars
<1>5. CASE SaveFails(r)
  <2> DEFINE f == named + 1
  <2>1. f \in Files /\ f \in 1 .. MaxFiles /\ 1 .. named \subseteq 1 .. f
    BY <1>1, <1>5 DEF SaveFails, Files
  <2>2. PICK part \in {{}, {f}} :
          /\ disk' = disk \cup part
          /\ raced' = IF Cleaning THEN raced \cup part ELSE raced
          /\ excused' = IF q.kind = "comment" THEN excused \cup part ELSE excused
          /\ Goto(r, [q EXCEPT !.pc = "unlink", !.saved = IF q.kind = "upload" THEN part ELSE @])
    BY <1>5 DEF SaveFails
  <2> DEFINE new == [q EXCEPT !.pc = "unlink", !.saved = IF q.kind = "upload" THEN part ELSE @]
  <2>3. new \in RequestRow /\ RequestSound(new)
    BY <1>1, <1>5, <2>1, <2>2 DEF SaveFails, At, RequestRow, RequestSound
  <2>4. req' \in [Requests -> RequestRow] /\ RequestsSound'
    BY <2>2, <2>3, RequestStep
  <2>5. QED
    BY <1>1, <1>5, <2>1, <2>2, <2>4 DEF SaveFails, Typed, StoreTypeOK, dbVars
<1>6. QED
  BY <1>2, <1>3, <1>4, <1>5

LEMMA CommitTyped ==
  ASSUME Typed, NEW r \in Requests, Commit(r)
  PROVE  Typed'
<1>1. req \in [Requests -> RequestRow] /\ \A x \in Requests : RequestSound(req[x])
  BY DEF Typed, StoreTypeOK, RequestsSound
<1>2. \A x \in Requests : [req[x] EXCEPT !.conflict = TRUE] \in RequestRow
                             /\ RequestSound([req[x] EXCEPT !.conflict = TRUE])
  BY <1>1 DEF RequestRow, RequestSound
<1>3. \A x \in Requests : \/ req'[x] = Idle
                           \/ req'[x] = [req[x] EXCEPT !.conflict = TRUE]
                           \/ req'[x] = req[x]
  BY DEF Commit
<1>4. \A x \in Requests : req'[x] \in RequestRow /\ RequestSound(req'[x])
  BY <1>1, <1>2, <1>3, IdleSound
<1>5. req' \in [Requests -> RequestRow] /\ RequestsSound'
  <2>1. req' = [x \in Requests |-> req'[x]]
    BY DEF Commit
  <2>2. QED
    BY <1>4, <2>1 DEF RequestsSound
<1>6. row' \in [Files -> live' \cup {None}]
  BY DEF Commit, Commits, Typed, StoreTypeOK
<1>7. QED
  BY <1>5, <1>6 DEF Commit, Typed, StoreTypeOK

LEMMA EndTyped ==
  ASSUME Typed, NEW r \in Requests,
         Rollback(r) \/ Unlink(r) \/ Answer(r)
  PROVE  Typed'
<1> DEFINE q == req[r]
<1>1. q \in RequestRow /\ RequestSound(q)
  BY DEF Typed, StoreTypeOK, RequestsSound
<1>2. CASE Rollback(r)
  <2> DEFINE new == Holding("unlink", q.kind, None, 0, q.saved \ LeftBehind(q))
  <2>1. new \in RequestRow /\ RequestSound(new)
    BY <1>1 DEF Holding, RequestRow, RequestSound
  <2>2. req' \in [Requests -> RequestRow] /\ RequestsSound'
    BY <1>2, <2>1, RequestStep DEF Rollback
  <2>3. QED
    BY <1>1, <1>2, <2>2 DEF Rollback, Typed, StoreTypeOK, dbVars, RequestRow
<1>3. CASE Unlink(r)
  <2>1. PICK f \in q.saved :
           /\ Goto(r, [q EXCEPT !.saved = @ \ {f}])
           /\ \/ disk' = disk \ {f} /\ UNCHANGED <<excused, faults>>
              \/ Faulty /\ excused' = excused \cup {f} /\ UNCHANGED disk
    BY <1>3 DEF Unlink
  <2> DEFINE new == [q EXCEPT !.saved = @ \ {f}]
  <2>2. new \in RequestRow /\ RequestSound(new)
    BY <1>1, <1>3 DEF Unlink, At, RequestRow, RequestSound
  <2>3. req' \in [Requests -> RequestRow] /\ RequestsSound'
    BY <2>1, <2>2, RequestStep
  <2>4. f \in Files
    BY <1>1, <2>1 DEF RequestRow
  <2>5. QED
    BY <1>3, <2>1, <2>3, <2>4 DEF Unlink, Typed, StoreTypeOK, dbVars
<1>4. CASE Answer(r)
  <2>1. req' \in [Requests -> RequestRow] /\ RequestsSound'
    BY <1>4, IdleSound, RequestStep DEF Answer
  <2>2. QED
    BY <1>4, <2>1 DEF Answer, Typed, StoreTypeOK, dbVars
<1>5. QED
  BY <1>2, <1>3, <1>4

LEMMA DeleteTyped ==
  ASSUME Typed, NEW r \in Requests,
         DeleteRead(r) \/ DeleteCommit(r) \/ DeleteAbort(r) \/ Crash(r)
  PROVE  Typed'
<1> DEFINE q == req[r]
<1>1. q \in RequestRow /\ RequestSound(q)
  BY DEF Typed, StoreTypeOK, RequestsSound
<1>2. CASE DeleteRead(r)
  <2>1. PICK t \in live : Goto(r, Holding("delete", "delete", t, 0, RowsOf(t)))
    BY <1>2 DEF DeleteRead
  <2>2. t \in Tickets /\ RowsOf(t) \subseteq Files
    BY DEF Typed, StoreTypeOK, RowsOf
  <2>3. Holding("delete", "delete", t, 0, RowsOf(t)) \in RequestRow
        /\ RequestSound(Holding("delete", "delete", t, 0, RowsOf(t)))
    BY <2>2 DEF Holding, RequestRow, RequestSound
  <2>4. req' \in [Requests -> RequestRow] /\ RequestsSound'
    BY <2>1, <2>3, RequestStep
  <2>5. QED
    BY <1>2, <2>4 DEF DeleteRead, Typed, StoreTypeOK, dbVars
<1>3. CASE DeleteCommit(r)
  <2> DEFINE new == [q EXCEPT !.pc = "unlink"]
  <2>1. new \in RequestRow /\ RequestSound(new)
    BY <1>1 DEF RequestRow, RequestSound
  <2>2. req' \in [Requests -> RequestRow] /\ RequestsSound'
    BY <1>3, <2>1, RequestStep DEF DeleteCommit
  <2>3. row' \in [Files -> live' \cup {None}]
    BY <1>3 DEF DeleteCommit, Typed, StoreTypeOK
  <2>4. QED
    BY <1>3, <2>2, <2>3 DEF DeleteCommit, Typed, StoreTypeOK, RowsOf
<1>4. CASE DeleteAbort(r) \/ Crash(r)
  <2>1. req' \in [Requests -> RequestRow] /\ RequestsSound'
    BY <1>4, IdleSound, RequestStep DEF DeleteAbort, Crash
  <2>2. QED
    BY <1>1, <1>4, <2>1 DEF DeleteAbort, Crash, Typed, StoreTypeOK, dbVars, RequestRow
<1>5. QED
  BY <1>2, <1>3, <1>4

LEMMA CleanTyped ==
  ASSUME Typed, NEW c \in Cleaners, CleanUp(c)
  PROVE  Typed'
<1>1. clean[c] \in CleanRow /\ disk \subseteq Files /\ Recorded \subseteq Files
  BY StoreAssumption DEF Typed, StoreTypeOK, Recorded, Files
<1>2. \A x \in Requests : req[x].saved \subseteq Files
  BY DEF Typed, StoreTypeOK, RequestRow
<1>3. clean' \in [Cleaners -> CleanRow]
  <2>1. CASE CleanRead(c)
    <3>1. [Asleep EXCEPT !.pc = "list", !.stored = Recorded] \in CleanRow
      BY <1>1 DEF Asleep, CleanRow
    <3>2. QED
      BY <2>1, <3>1 DEF CleanRead, Typed, StoreTypeOK
  <2>2. CASE CleanList(c)
    <3>1. [Asleep EXCEPT !.pc = "unlink", !.todo = Orphaned(clean[c].stored)] \in CleanRow
      BY <1>1 DEF Asleep, CleanRow, Orphaned
    <3>2. QED
      BY <2>2, <3>1 DEF CleanList, Typed, StoreTypeOK
  <2>3. CASE CleanUnlink(c)
    <3>1. PICK f \in clean[c].todo : clean' = [clean EXCEPT ![c].todo = @ \ {f}]
      BY <2>3 DEF CleanUnlink
    <3>2. [clean[c] EXCEPT !.todo = @ \ {f}] \in CleanRow
      BY <1>1 DEF CleanRow
    <3>3. QED
      BY <3>1, <3>2 DEF Typed, StoreTypeOK
  <2>4. CASE CleanDone(c) \/ CleanFails(c)
    BY <2>4, IdleSound DEF CleanDone, CleanFails, Typed, StoreTypeOK
  <2>5. QED
    BY <2>1, <2>2, <2>3, <2>4 DEF CleanUp, CleanStep
<1>4. raced' \subseteq Files
  BY <1>2 DEF CleanUp, CleanStep, CleanRead, CleanList, CleanUnlink, CleanDone, CleanFails,
              Typed, StoreTypeOK
<1>5. QED
  BY <1>1, <1>3, <1>4 DEF CleanUp, CleanStep, CleanRead, CleanList, CleanUnlink, CleanDone,
                     CleanFails, Typed, StoreTypeOK, RequestsSound, dbVars

LEMMA TypedNext ==
  ASSUME Typed, [StoreNext]_storeVars
  PROVE  Typed'
<1>1. CASE StoreNext
  BY <1>1, WriteTyped, CommitTyped, EndTyped, DeleteTyped, CleanTyped DEF StoreNext, Handler
<1>2. CASE UNCHANGED storeVars
  BY <1>2 DEF storeVars, Typed, StoreTypeOK, RequestsSound
<1>3. QED
  BY <1>1, <1>2

LEMMA AlwaysTyped == StoreSpec => []Typed
  BY TypedInit, TypedNext, PTL DEF StoreSpec

\* Types, and that a row of table attachments belongs to a ticket that is there.
THEOREM StoreTypeCorrect == StoreSpec => []StoreTypeOK
<1>1. Typed => StoreTypeOK
  BY DEF Typed
<1>2. QED
  BY <1>1, AlwaysTyped, PTL
-------------------------------------------------------------------------------
(* The limit per ticket.                                                    *)

\* What a transaction has counted is still true as long as nobody has written to it, so
\* there is room for what it wants to add.
Counted == \A r \in Requests : Writing(r) /\ ~req[r].conflict => Fits(r)

Limited == PerTicketLimit /\ Counted

LEMMA RowsFinite == \A t : RowsOf(t) \subseteq Files /\ IsFiniteSet(RowsOf(t)) /\ Cardinality(RowsOf(t)) \in Nat
  BY SubsetFinite DEF RowsOf

LEMMA LimitedInit == StoreInit => Limited
<1>1. SUFFICES ASSUME StoreInit PROVE Limited
  OBVIOUS
<1>2. \A t \in Tickets : RowsOf(t) = {}
  BY <1>1, StoreAssumption DEF StoreInit, RowsOf
<1>3. PerTicketLimit
  BY <1>2, FS_EmptySet, StoreAssumption DEF PerTicketLimit
<1>4. Counted
  BY <1>1 DEF StoreInit, Counted, Writing, Idle, Holding
<1>5. QED
  BY <1>3, <1>4 DEF Limited

\* A step that adds no row, and after which whoever is writing was writing before or has
\* just counted, keeps within the limit.
LEMMA Shrinking ==
  ASSUME Typed, Limited,
         \A t \in Tickets : RowsOf(t)' \subseteq RowsOf(t),
         \A x \in Requests : Writing(x)' =>
           /\ req'[x].ticket = req[x].ticket /\ req'[x].want = req[x].want
           /\ req'[x].conflict = req[x].conflict
           /\ Writing(x) \/ (At(x, "count") /\ Fits(x))
  PROVE  Limited'
<1>1. \A t \in Tickets : Cardinality(RowsOf(t)') <= Cardinality(RowsOf(t))
  BY RowsFinite, FS_Subset
<1>2. \A t \in Tickets : Cardinality(RowsOf(t)) \in Nat /\ Cardinality(RowsOf(t)') \in Nat
  <2>1. SUFFICES ASSUME NEW t \in Tickets
                 PROVE  Cardinality(RowsOf(t)) \in Nat /\ Cardinality(RowsOf(t)') \in Nat
    OBVIOUS
  <2>2. RowsOf(t) \subseteq Files /\ RowsOf(t)' \subseteq Files
    BY RowsFinite
  <2>3. QED
    BY <2>2, SubsetFinite
<1>3. PerTicketLimit'
  BY <1>1, <1>2, StoreAssumption DEF Limited, PerTicketLimit
<1>4. ASSUME NEW x \in Requests, Writing(x)', ~req'[x].conflict
      PROVE  Fits(x)'
  <2>1. req[x] \in RequestRow /\ req[x].ticket \in Tickets /\ req[x].want \in Nat
    BY <1>4 DEF Typed, StoreTypeOK, RequestsSound, RequestSound, RequestRow, Writing, At
  <2>2. Cardinality(RowsOf(req[x].ticket)) + req[x].want <= MaxPerTicket
    BY <1>4 DEF Limited, Counted, Fits
  <2>3. PICK t \in Tickets : t = req[x].ticket
    BY <2>1
  <2>4. Cardinality(RowsOf(t)') + req[x].want <= MaxPerTicket
    BY <1>1, <1>2, <2>1, <2>2, <2>3, StoreAssumption
  <2>5. req'[x].ticket = t /\ req'[x].want = req[x].want
    BY <1>4, <2>3
  <2>6. QED
    BY <2>4, <2>5 DEF Fits, RowsOf
<1>5. Counted'
  BY <1>4 DEF Counted
<1>6. QED
  BY <1>3, <1>5 DEF Limited
LEMMA WriteLimited ==
  ASSUME Typed, Limited, NEW r \in Requests,
         Receive(r) \/ CountRows(r) \/ Save(r) \/ SaveFails(r)
  PROVE  Limited'
<1>1. \A t \in Tickets : RowsOf(t)' \subseteq RowsOf(t)
  BY DEF Receive, CountRows, Save, SaveFails, dbVars, RowsOf
<1>2. req \in [Requests -> RequestRow]
  BY DEF Typed, StoreTypeOK
<1>3. \A x \in Requests : x # r => req'[x] = req[x]
  BY <1>2 DEF Receive, CountRows, Save, SaveFails, Goto
<1>4. Writing(r)' => /\ req'[r].ticket = req[r].ticket /\ req'[r].want = req[r].want
                     /\ req'[r].conflict = req[r].conflict
                     /\ Writing(r) \/ (At(r, "count") /\ Fits(r))
  <2>1. CASE Receive(r)
    <3>1. req'[r].pc = "count"
      BY <1>2, <2>1 DEF Receive, Goto, Holding
    <3>2. QED
      BY <3>1 DEF Writing
  <2>2. CASE CountRows(r)
    BY <1>2, <2>2 DEF CountRows, Goto, Writing, Idle, Holding, RequestRow
  <2>3. CASE Save(r)
    BY <1>2, <2>3 DEF Save, Goto, Writing, At, RequestRow
  <2>4. CASE SaveFails(r)
    BY <1>2, <2>4 DEF SaveFails, Goto, Writing, RequestRow
  <2>5. QED
    BY <2>1, <2>2, <2>3, <2>4
<1>5. \A x \in Requests : Writing(x)' =>
         /\ req'[x].ticket = req[x].ticket /\ req'[x].want = req[x].want
         /\ req'[x].conflict = req[x].conflict
         /\ Writing(x) \/ (At(x, "count") /\ Fits(x))
  BY <1>3, <1>4 DEF Writing
<1>6. QED
  BY <1>1, <1>5, Shrinking

LEMMA EndLimited ==
  ASSUME Typed, Limited, NEW r \in Requests,
         \/ Rollback(r) \/ Unlink(r) \/ Answer(r)
         \/ DeleteRead(r) \/ DeleteCommit(r) \/ DeleteAbort(r) \/ Crash(r)
  PROVE  Limited'
<1>1. \A t \in Tickets : RowsOf(t)' \subseteq RowsOf(t)
  BY StoreAssumption
  DEF Rollback, Unlink, Answer, DeleteRead, DeleteCommit, DeleteAbort, Crash, dbVars, RowsOf
<1>2. req \in [Requests -> RequestRow]
  BY DEF Typed, StoreTypeOK
<1>3. \A x \in Requests : x # r => req'[x] = req[x]
  BY <1>2 DEF Rollback, Unlink, Answer, DeleteRead, DeleteCommit, DeleteAbort, Crash, Goto
<1>4. req'[r].pc \in {"idle", "unlink", "delete"}
  BY <1>2 DEF Rollback, Unlink, Answer, DeleteRead, DeleteCommit, DeleteAbort, Crash, Goto,
              Idle, Holding, At, RequestRow
<1>5. \A x \in Requests : Writing(x)' => x # r /\ Writing(x)
  BY <1>3, <1>4 DEF Writing
<1>6. QED
  BY <1>1, <1>3, <1>5, Shrinking

LEMMA CommitLimited ==
  ASSUME Typed, Limited, NEW r \in Requests, Commit(r)
  PROVE  Limited'
<1> DEFINE q == req[r]
<1>1. q \in RequestRow /\ RequestSound(q) /\ q.pc = "commit" /\ ~q.conflict /\ q.ticket \in Tickets
  BY DEF Typed, StoreTypeOK, RequestsSound, RequestSound, Commit, Commits, At
<1>2. Cardinality(RowsOf(q.ticket)) + q.want <= MaxPerTicket
  BY <1>1 DEF Limited, Counted, Writing, Fits
<1>3. /\ q.saved \subseteq Files /\ Cardinality(q.saved) \in Nat /\ q.want \in Nat
      /\ Cardinality(q.saved) <= q.want
  BY <1>1, SubsetFinite DEF RequestRow, RequestSound
<1>4. \A t : RowsOf(t)' = {f \in Files : (IF f \in q.saved THEN q.ticket ELSE row[f]) = t}
  BY DEF RowsOf, Commit
<1>5. ASSUME NEW t \in Tickets, t # q.ticket
      PROVE  RowsOf(t)' \subseteq RowsOf(t)
  BY <1>4, <1>5 DEF RowsOf
<1>6. ASSUME NEW t \in Tickets, t = q.ticket
      PROVE  Cardinality(RowsOf(t)') <= MaxPerTicket
  <2>1. RowsOf(t)' = RowsOf(t) \cup q.saved
    BY <1>3, <1>4, <1>6 DEF RowsOf
  <2>2. /\ IsFiniteSet(RowsOf(t)) /\ Cardinality(RowsOf(t)) \in Nat
        /\ IsFiniteSet(q.saved)
    BY <1>3, RowsFinite, SubsetFinite
  <2>3. Cardinality(RowsOf(t) \cup q.saved)
          = Cardinality(RowsOf(t)) + Cardinality(q.saved) - Cardinality(RowsOf(t) \cap q.saved)
    BY <2>2, FS_Union
  <2>4. Cardinality(RowsOf(t) \cap q.saved) \in Nat
    BY <1>3, SubsetFinite
  <2>5. QED
    BY <1>2, <1>3, <1>6, <2>1, <2>2, <2>3, <2>4, StoreAssumption
<1>7. \A t \in Tickets : t # q.ticket => Cardinality(RowsOf(t)') <= Cardinality(RowsOf(t))
  BY <1>5, RowsFinite, FS_Subset
<1>8. \A t \in Tickets : t # q.ticket =>
         Cardinality(RowsOf(t)) \in Nat /\ Cardinality(RowsOf(t)') \in Nat
  BY <1>5, RowsFinite, SubsetFinite
<1>9. PerTicketLimit'
  <2>1. \A t \in Tickets : Cardinality(RowsOf(t)') <= MaxPerTicket
    BY <1>6, <1>7, <1>8, StoreAssumption DEF Limited, PerTicketLimit
  <2>2. QED
    BY <2>1 DEF PerTicketLimit
<1>10. ASSUME NEW x \in Requests, Writing(x)', ~req'[x].conflict
       PROVE  Fits(x)'
  <2>1. req \in [Requests -> RequestRow]
    BY DEF Typed, StoreTypeOK
  <2>2. req'[x] = IF x = r THEN Idle
                  ELSE IF x \in Overtaken(q.ticket) THEN [req[x] EXCEPT !.conflict = TRUE]
                  ELSE req[x]
    BY DEF Commit
  <2>3. x # r
    BY <1>10, <2>2 DEF Writing, Idle, Holding
  <2>4. x \notin Overtaken(q.ticket)
    BY <1>10, <2>1, <2>2, <2>3 DEF RequestRow
  <2>5. req'[x] = req[x] /\ Writing(x) /\ ~req[x].conflict
    BY <1>10, <2>2, <2>3, <2>4 DEF Writing
  <2>6. req[x].ticket \in Tickets /\ req[x].want \in Nat
    BY <2>1, <2>5 DEF Typed, RequestsSound, RequestSound, RequestRow, Writing
  <2>7. PICK t \in Tickets : t = req[x].ticket
    BY <2>6
  <2>8. t # q.ticket
    BY <2>4, <2>5, <2>7 DEF Overtaken, Writing
  <2>9. Cardinality(RowsOf(t)) + req[x].want <= MaxPerTicket
    BY <2>5, <2>7 DEF Limited, Counted, Fits
  <2>10. Cardinality(RowsOf(t)') + req[x].want <= MaxPerTicket
    BY <1>7, <1>8, <2>6, <2>8, <2>9, StoreAssumption
  <2>11. QED
    BY <2>5, <2>7, <2>10 DEF Fits, RowsOf
<1>11. QED
  BY <1>9, <1>10 DEF Limited, Counted

LEMMA LimitedNext ==
  ASSUME Typed, Limited, [StoreNext]_storeVars
  PROVE  Limited'
<1>1. CASE \E r \in Requests : Handler(r)
  BY <1>1, WriteLimited, CommitLimited, EndLimited DEF Handler
<1>2. CASE (\E c \in Cleaners : CleanUp(c)) \/ UNCHANGED storeVars
  <2>1. UNCHANGED <<row, req>>
    BY <1>2 DEF CleanUp, CleanStep, CleanRead, CleanList, CleanUnlink, CleanDone, CleanFails,
                dbVars, storeVars
  <2>2. QED
    BY <2>1 DEF Limited, PerTicketLimit, Counted, Writing, Fits, RowsOf
<1>3. QED
  BY <1>1, <1>2 DEF StoreNext

\* README: "max 5/ticket".  Each transaction counts the rows of the ticket before it saves
\* files and inserts rows; whatever uploads, comments and deletions run at the same time,
\* no ticket ever has more than the limit.
THEOREM LimitCorrect == StoreSpec => []PerTicketLimit
<1>1. Limited => PerTicketLimit
  BY DEF Limited
<1>2. QED
  BY <1>1, AlwaysTyped, LimitedInit, LimitedNext, PTL DEF StoreSpec
-------------------------------------------------------------------------------
(* What failures leave behind.                                              *)

\* A request answers for f.
Holds(r, f) == f \in req[r].saved /\ req[r].pc # "delete"

Accounted(f) == f \in Recorded \/ f \in excused \/ \E r \in Requests : Holds(r, f)

\* A step of r keeps f accounted for if it passes on what r answered for and what had a row.
LEMMA PassedOn ==
  ASSUME Typed, NEW r \in Requests, NEW f \in Files, Accounted(f),
         \A x \in Requests \ {r} : req'[x].saved = req[x].saved /\ req'[x].pc = req[x].pc,
         excused \subseteq excused',
         f \in Recorded => Accounted(f)',
         Holds(r, f) => Accounted(f)'
  PROVE  Accounted(f)'
<1>1. CASE f \in excused
  BY <1>1 DEF Accounted
<1>2. ASSUME NEW x \in Requests \ {r}, Holds(x, f) PROVE Accounted(f)'
  BY <1>2 DEF Accounted, Holds
<1>3. QED
  BY <1>1, <1>2 DEF Accounted

LEMMA NothingLeftStep ==
  ASSUME Typed, NothingLeftByUploads, NEW r \in Requests, Handler(r)
  PROVE  NothingLeftByUploads'
<1> DEFINE q == req[r]
<1>1. q \in RequestRow /\ RequestSound(q) /\ req \in [Requests -> RequestRow] /\ disk \subseteq Files
  BY StoreAssumption DEF Typed, StoreTypeOK, RequestsSound, Files
<1>2. \A f \in disk : f \in Files /\ Accounted(f)
  BY <1>1 DEF NothingLeftByUploads, Accounted, Holds
<1>3. SUFFICES ASSUME NEW f \in disk' PROVE Accounted(f)'
  BY DEF NothingLeftByUploads, Accounted, Holds
<1>4. CASE Receive(r) \/ CountRows(r) \/ Answer(r) \/ DeleteRead(r) \/ DeleteAbort(r)
  <2>1. UNCHANGED <<disk, row, excused>>
    BY <1>4 DEF Receive, CountRows, Answer, DeleteRead, DeleteAbort, dbVars
  <2>2. \A x \in Requests \ {r} : req'[x] = req[x]
    BY <1>1, <1>4 DEF Receive, CountRows, Answer, DeleteRead, DeleteAbort, Goto
  <2>3. Holds(r, f) => Holds(r, f)'
    <3>1. q.saved = {} \/ q.pc = "delete"
      BY <1>1, <1>4 DEF Receive, CountRows, Answer, DeleteRead, DeleteAbort, At, RequestSound
    <3>2. QED
      BY <3>1 DEF Holds
  <2>4. QED
    BY <1>2, <2>1, <2>2, <2>3, PassedOn DEF Accounted, Recorded
<1>5. CASE Save(r)
  <2>1. /\ disk' = disk \cup {named + 1} /\ UNCHANGED <<row, excused>>
        /\ Goto(r, [q EXCEPT !.saved = @ \cup {named + 1},
                     !.pc = IF Cardinality(q.saved) + 1 = q.want THEN "commit" ELSE "save"])
    BY <1>5 DEF Save, dbVars
  <2>2. req'[r].saved = q.saved \cup {named + 1} /\ req'[r].pc \in {"commit", "save"}
    BY <1>1, <2>1 DEF Goto, RequestRow
  <2>3. \A x \in Requests \ {r} : req'[x] = req[x]
    BY <1>1, <2>1 DEF Goto
  <2>4. CASE f = named + 1
    BY <2>2, <2>4 DEF Accounted, Holds
  <2>5. CASE f \in disk
    BY <1>2, <2>1, <2>2, <2>3, <2>5, PassedOn DEF Accounted, Recorded, Holds
  <2>6. QED
    BY <2>1, <2>4, <2>5
<1>6. CASE SaveFails(r)
  <2>1. PICK part \in {{}, {named + 1}} :
          /\ disk' = disk \cup part
          /\ excused' = IF q.kind = "comment" THEN excused \cup part ELSE excused
          /\ Goto(r, [q EXCEPT !.pc = "unlink", !.saved = IF q.kind = "upload" THEN part ELSE @])
    BY <1>6 DEF SaveFails
  <2>2. UNCHANGED row /\ q.pc = "save"
    BY <1>6 DEF SaveFails, dbVars, At
  <2>3. req'[r].saved = (IF q.kind = "upload" THEN part ELSE q.saved) /\ req'[r].pc = "unlink"
    BY <1>1, <2>1 DEF Goto, RequestRow
  <2>4. \A x \in Requests \ {r} : req'[x] = req[x]
    BY <1>1, <2>1 DEF Goto
  <2>5. q.kind = "comment" \/ (q.kind = "upload" /\ q.saved = {})
    BY <1>1, <2>2 DEF RequestSound
  <2>6. CASE f \in part
    BY <2>1, <2>3, <2>5, <2>6 DEF Accounted, Holds
  <2>7. CASE f \in disk
    BY <1>2, <2>1, <2>2, <2>3, <2>4, <2>5, <2>7, PassedOn DEF Accounted, Recorded, Holds
  <2>8. QED
    BY <2>1, <2>6, <2>7
<1>7. CASE Commit(r)
  <2>1. /\ UNCHANGED <<disk, excused>> /\ q.ticket \in Tickets
        /\ row' = [x \in Files |-> IF x \in q.saved THEN q.ticket ELSE row[x]]
    BY <1>7 DEF Commit, Commits, Typed, StoreTypeOK
  <2>2. \A x \in Requests \ {r} : req'[x].saved = req[x].saved /\ req'[x].pc = req[x].pc
    BY <1>1, <1>7 DEF Commit, RequestRow
  <2>3. f \in Recorded \/ f \in q.saved => f \in Recorded'
    BY <1>2, <2>1, StoreAssumption DEF Recorded
  <2>4. QED
    BY <1>2, <2>1, <2>2, <2>3, PassedOn DEF Accounted, Holds
<1>8. CASE Rollback(r)
  <2>1. /\ UNCHANGED <<disk, row>>
        /\ excused' = IF q.kind = "comment" THEN excused \cup q.saved ELSE excused
        /\ Goto(r, Holding("unlink", q.kind, None, 0, q.saved \ LeftBehind(q)))
    BY <1>8 DEF Rollback, dbVars
  <2>2. req'[r].saved = q.saved \ LeftBehind(q) /\ req'[r].pc = "unlink"
    BY <1>1, <2>1 DEF Goto, Holding
  <2>3. \A x \in Requests \ {r} : req'[x] = req[x]
    BY <1>1, <2>1 DEF Goto
  <2>4. QED
    BY <1>2, <2>1, <2>2, <2>3, PassedOn DEF Accounted, Recorded, Holds, LeftBehind
<1>9. CASE Unlink(r)
  <2>1. PICK g \in q.saved :
           /\ Goto(r, [q EXCEPT !.saved = @ \ {g}])
           /\ \/ disk' = disk \ {g} /\ UNCHANGED <<excused, faults>>
              \/ Faulty /\ excused' = excused \cup {g} /\ UNCHANGED disk
    BY <1>9 DEF Unlink
  <2>2. UNCHANGED row /\ q.pc = "unlink"
    BY <1>9 DEF Unlink, dbVars, At
  <2>3. req'[r].saved = q.saved \ {g} /\ req'[r].pc = "unlink"
    BY <1>1, <2>1, <2>2 DEF Goto, RequestRow
  <2>4. \A x \in Requests \ {r} : req'[x] = req[x]
    BY <1>1, <2>1 DEF Goto
  <2>5. f \in disk /\ (f = g => f \in excused')
    BY <2>1
  <2>6. excused \subseteq excused'
    BY <2>1
  <2>7. QED
    BY <1>2, <2>2, <2>3, <2>4, <2>5, <2>6, PassedOn DEF Accounted, Recorded, Holds
<1>10. CASE DeleteCommit(r)
  <2>1. /\ UNCHANGED disk /\ excused' = excused \cup (RowsOf(q.ticket) \ q.saved)
        /\ row' = [x \in Files |-> IF row[x] = q.ticket THEN None ELSE row[x]]
        /\ Goto(r, [q EXCEPT !.pc = "unlink"]) /\ q.pc = "delete"
    BY <1>10 DEF DeleteCommit, At
  <2>2. req'[r].saved = q.saved /\ req'[r].pc = "unlink"
    BY <1>1, <2>1 DEF Goto, RequestRow
  <2>3. \A x \in Requests \ {r} : req'[x] = req[x]
    BY <1>1, <2>1 DEF Goto
  <2>4. f \in Recorded => f \in Recorded' \/ f \in excused' \/ Holds(r, f)'
    BY <2>1, <2>2 DEF Recorded, RowsOf, Holds
  <2>5. QED
    BY <1>2, <2>1, <2>2, <2>3, <2>4, PassedOn DEF Accounted, Holds
<1>11. CASE Crash(r)
  <2>1. /\ UNCHANGED <<disk, row>> /\ Goto(r, Idle)
        /\ excused' = excused \cup (IF q.pc = "delete" THEN {} ELSE q.saved)
    BY <1>11 DEF Crash, dbVars, At
  <2>2. \A x \in Requests \ {r} : req'[x] = req[x]
    BY <1>1, <2>1 DEF Goto
  <2>3. QED
    BY <1>2, <2>1, <2>2, PassedOn DEF Accounted, Recorded, Holds
<1>12. QED
  BY <1>4, <1>5, <1>6, <1>7, <1>8, <1>9, <1>10, <1>11 DEF Handler

LEMMA NothingLeftNext ==
  ASSUME Typed, NothingLeftByUploads, [StoreNext]_storeVars
  PROVE  NothingLeftByUploads'
<1>1. CASE (\E c \in Cleaners : CleanUp(c)) \/ UNCHANGED storeVars
  <2>1. UNCHANGED <<row, req, excused>> /\ disk' \subseteq disk
    BY <1>1 DEF CleanUp, CleanStep, CleanRead, CleanList, CleanUnlink, CleanDone, CleanFails,
                dbVars, storeVars
  <2>2. QED
    BY <2>1 DEF NothingLeftByUploads, Recorded
<1>2. QED
  BY <1>1, NothingLeftStep DEF StoreNext

\* upload: "If transaction fails after save, the catch block below cleans up".  Whatever
\* fails and in whichever order, a file with neither a row nor a request at work on it was
\* left by a fault, by a comment, or by an upload to a ticket that was being deleted.
THEOREM NothingLeftCorrect == StoreSpec => []NothingLeftByUploads
<1>1. StoreInit => NothingLeftByUploads
  BY DEF StoreInit, NothingLeftByUploads
<1>2. QED
  BY <1>1, AlwaysTyped, NothingLeftNext, PTL DEF StoreSpec
-------------------------------------------------------------------------------
(* Rows and their files.                                                    *)

\* What is saved or has a row was named: what is named next is new to everyone.
Named ==
  /\ \A r \in Requests : req[r].saved \subseteq 1 .. named
  /\ Recorded \subseteq 1 .. named

\* The files a request holds have no row before it commits or when it removes them; a
\* deletion holds files of its own ticket.
Unrecorded ==
  \A r \in Requests : \A f \in req[r].saved :
    IF req[r].pc = "delete" THEN row[f] \in {req[r].ticket, None} ELSE row[f] = None

\* What is being written is nobody else's.
Exclusive ==
  \A r, x \in Requests : r # x /\ Writing(r) => req[r].saved \cap req[x].saved = {}

\* What is being written is on disk, unless a clean-up is about that raced with it.
Present ==
  \A r \in Requests : Writing(r) =>
    /\ req[r].saved \subseteq disk \cup raced
    /\ Cleaning => req[r].saved \subseteq raced

\* A clean-up only comes upon the file of a row that it raced with.
Listed ==
  \A c \in Cleaners :
    /\ clean[c].pc = "list" => Recorded \ clean[c].stored \subseteq raced
    /\ clean[c].pc = "unlink" => clean[c].todo \cap Recorded \subseteq raced

Kept == Named /\ Unrecorded /\ Exclusive /\ Present /\ Listed /\ RecordedKept

LEMMA KeptInit == StoreInit => Kept
<1>1. SUFFICES ASSUME StoreInit PROVE Kept
  OBVIOUS
<1>2. /\ Recorded = {} /\ \A r \in Requests : req[r].saved = {}
      /\ \A c \in Cleaners : clean[c].pc = "idle"
  BY <1>1 DEF StoreInit, Recorded, Idle, Holding, Asleep
<1>3. QED
  BY <1>2 DEF Kept, Named, Unrecorded, Exclusive, Present, Listed, RecordedKept

\* A step of r that leaves rows and clean-ups alone, removes no file but what r removes,
\* and lets r hold no more than before and write nothing yet.
LEMMA KeptByRelease ==
  ASSUME Typed, Kept, NEW r \in Requests,
         UNCHANGED <<row, named, clean, raced>>,
         \A x \in Requests \ {r} : req'[x] = req[x],
         disk \ disk' \subseteq req[r].saved,
         disk = disk' \/ req[r].pc = "unlink",
         Writing(r)' => req'[r].saved = {},
         req'[r].saved \subseteq req[r].saved,
         req'[r].saved # {} => req[r].pc # "delete" /\ req'[r].pc # "delete"
  PROVE  Kept'
<1>1. Named'
  BY DEF Kept, Named, Recorded
<1>2. Unrecorded'
  BY DEF Kept, Unrecorded
<1>3. Exclusive'
  BY DEF Kept, Exclusive, Writing
<1>4. Present'
  BY DEF Kept, Present, Writing, Cleaning, Exclusive
<1>5. Listed'
  BY DEF Kept, Listed, Recorded
<1>6. RecordedKept'
  <2>1. \A f \in disk \ disk' : f \notin Recorded
    BY DEF Kept, Unrecorded, Recorded
  <2>2. QED
    BY <2>1 DEF Kept, RecordedKept, Recorded
<1>7. QED
  BY <1>1, <1>2, <1>3, <1>4, <1>5, <1>6 DEF Kept
LEMMA ReleaseKept ==
  ASSUME Typed, Kept, NEW r \in Requests,
         \/ Receive(r) \/ CountRows(r) \/ Rollback(r) \/ Unlink(r)
         \/ Answer(r) \/ DeleteAbort(r) \/ Crash(r)
  PROVE  Kept'
<1> DEFINE q == req[r]
<1>1. q \in RequestRow /\ RequestSound(q) /\ req \in [Requests -> RequestRow]
  BY DEF Typed, StoreTypeOK, RequestsSound
<1>2. UNCHANGED <<row, named, clean, raced>>
  BY DEF Receive, CountRows, Rollback, Unlink, Answer, DeleteAbort, Crash, dbVars
<1>3. \A x \in Requests \ {r} : req'[x] = req[x]
  BY <1>1 DEF Receive, CountRows, Rollback, Unlink, Answer, DeleteAbort, Crash, Goto
<1>4. CASE Receive(r) \/ CountRows(r) \/ Answer(r) \/ DeleteAbort(r) \/ Crash(r)
  <2>1. disk' = disk
    BY <1>4 DEF Receive, CountRows, Answer, DeleteAbort, Crash
  <2>2. req'[r].saved = {}
    <3>1. CASE Receive(r)
      BY <1>1, <3>1 DEF Receive, Goto, Holding
    <3>2. CASE CountRows(r)
      BY <1>1, <3>2 DEF CountRows, Goto, Idle, Holding, At, RequestSound, RequestRow
    <3>3. CASE Answer(r) \/ DeleteAbort(r) \/ Crash(r)
      BY <1>1, <3>3 DEF Answer, DeleteAbort, Crash, Goto, Idle, Holding
    <3>4. QED
      BY <1>4, <3>1, <3>2, <3>3
  <2>3. QED
    BY <1>2, <1>3, <2>1, <2>2, KeptByRelease
<1>5. CASE Rollback(r)
  <2>1. disk' = disk /\ q.pc = "commit"
    BY <1>5 DEF Rollback, At
  <2>2. req'[r].saved = q.saved \ LeftBehind(q) /\ req'[r].pc = "unlink"
    BY <1>1, <1>5 DEF Rollback, Goto, Holding
  <2>3. ~Writing(r)'
    BY <2>2 DEF Writing
  <2>4. QED
    BY <1>2, <1>3, <2>1, <2>2, <2>3, KeptByRelease
<1>6. CASE Unlink(r)
  <2>1. PICK f \in q.saved :
           /\ Goto(r, [q EXCEPT !.saved = @ \ {f}])
           /\ disk' = disk \ {f} \/ disk' = disk
    BY <1>6 DEF Unlink
  <2>2. q.pc = "unlink"
    BY <1>6 DEF Unlink, At
  <2>3. req'[r].saved = q.saved \ {f} /\ req'[r].pc = "unlink"
    BY <1>1, <2>1, <2>2 DEF Goto, RequestRow
  <2>4. ~Writing(r)'
    BY <2>3 DEF Writing
  <2>5. QED
    BY <1>2, <1>3, <2>1, <2>2, <2>3, <2>4, KeptByRelease
<1>7. QED
  BY <1>4, <1>5, <1>6

\* A step of r that names a file: r holds it, or what is left of it, and what r held
\* before; while a clean-up is under way the file counts as raced.
LEMMA KeptByNaming ==
  ASSUME Typed, Kept, NEW r \in Requests, NEW part \in {{}, {named + 1}},
         req[r].pc = "save", req'[r].pc # "delete",
         named < MaxFiles, named' = named + 1, UNCHANGED <<row, clean>>,
         \A x \in Requests \ {r} : req'[x] = req[x],
         disk' = disk \cup part,
         raced' = IF Cleaning THEN raced \cup part ELSE raced,
         req'[r].saved \subseteq req[r].saved \cup part
  PROVE  Kept'
<1>1. named \in Nat /\ part \subseteq {named + 1} /\ Writing(r)
  BY DEF Typed, StoreTypeOK, Writing
<1>2. 1 .. named \subseteq 1 .. named' /\ named + 1 \in 1 .. named' /\ named + 1 \notin 1 .. named
  BY <1>1
<1>3. named + 1 \notin Recorded /\ \A x \in Requests : named + 1 \notin req[x].saved
  BY <1>2 DEF Kept, Named
<1>4. \A f \in part : row[f] = None
  <2>1. named + 1 \in Files
    BY <1>1, StoreAssumption DEF Files
  <2>2. row[named + 1] = None
    BY <1>3, <2>1 DEF Recorded
  <2>3. QED
    BY <1>1, <2>2
<1>5. Named'
  <2>1. Recorded' = Recorded
    BY DEF Recorded
  <2>2. part \subseteq 1 .. named'
    BY <1>1, <1>2
  <2>3. req'[r].saved \subseteq 1 .. named'
    BY <1>2, <2>2 DEF Kept, Named
  <2>4. \A x \in Requests \ {r} : req'[x].saved \subseteq 1 .. named'
    BY <1>2 DEF Kept, Named
  <2>5. Recorded' \subseteq 1 .. named'
    BY <1>2, <2>1 DEF Kept, Named
  <2>6. QED
    BY <2>3, <2>4, <2>5 DEF Named
<1>6. Unrecorded'
  BY <1>4 DEF Kept, Unrecorded
<1>7. Exclusive'
  <2>1. \A x \in Requests \ {r} : req[r].saved \cap req[x].saved = {}
    BY <1>1 DEF Kept, Exclusive
  <2>2. \A x \in Requests \ {r} : req'[r].saved \cap req'[x].saved = {}
    BY <1>1, <1>3, <2>1
  <2>3. \A x, y \in Requests \ {r} : x # y /\ Writing(x)' => req'[x].saved \cap req'[y].saved = {}
    BY DEF Kept, Exclusive, Writing
  <2>4. QED
    BY <2>2, <2>3 DEF Exclusive
<1>8. Present'
  <2>1. Cleaning' = Cleaning
    BY DEF Cleaning
  <2>2. disk \cup raced \subseteq disk' \cup raced' /\ raced \subseteq raced' /\ part \subseteq disk'
        /\ (Cleaning => part \subseteq raced')
    OBVIOUS
  <2>3. \A x \in Requests \ {r} : Writing(x)' => Writing(x)
    BY DEF Writing
  <2>4. req[r].saved \subseteq disk \cup raced /\ (Cleaning => req[r].saved \subseteq raced)
    BY <1>1 DEF Kept, Present
  <2>5. \A x \in Requests \ {r} : Writing(x) =>
          req[x].saved \subseteq disk \cup raced /\ (Cleaning => req[x].saved \subseteq raced)
    BY DEF Kept, Present
  <2>6. QED
    BY <2>1, <2>2, <2>3, <2>4, <2>5 DEF Present
<1>9. Listed'
  BY DEF Kept, Listed, Recorded
<1>10. RecordedKept'
  BY DEF Kept, RecordedKept, Recorded
<1>11. QED
  BY <1>5, <1>6, <1>7, <1>8, <1>9, <1>10 DEF Kept

LEMMA NamingKept ==
  ASSUME Typed, Kept, NEW r \in Requests, Save(r) \/ SaveFails(r)
  PROVE  Kept'
<1> DEFINE q == req[r]
<1>1. q \in RequestRow /\ RequestSound(q) /\ req \in [Requests -> RequestRow]
  BY DEF Typed, StoreTypeOK, RequestsSound
<1>2. /\ q.pc = "save" /\ named < MaxFiles /\ named' = named + 1 /\ UNCHANGED <<row, clean>>
      /\ \A x \in Requests \ {r} : req'[x] = req[x]
  BY <1>1 DEF Save, SaveFails, Goto, At, dbVars
<1>3. CASE Save(r)
  <2>1. req'[r].saved = q.saved \cup {named + 1} /\ req'[r].pc \in {"commit", "save"}
    BY <1>1, <1>3 DEF Save, Goto, RequestRow
  <2>2. disk' = disk \cup {named + 1} /\ raced' = IF Cleaning THEN raced \cup {named + 1} ELSE raced
    BY <1>3 DEF Save
  <2>3. QED
    BY <1>2, <2>1, <2>2, KeptByNaming
<1>4. CASE SaveFails(r)
  <2>1. PICK part \in {{}, {named + 1}} :
          /\ disk' = disk \cup part
          /\ raced' = IF Cleaning THEN raced \cup part ELSE raced
          /\ Goto(r, [q EXCEPT !.pc = "unlink", !.saved = IF q.kind = "upload" THEN part ELSE @])
    BY <1>4 DEF SaveFails
  <2>2. req'[r].saved = (IF q.kind = "upload" THEN part ELSE q.saved) /\ req'[r].pc = "unlink"
    BY <1>1, <2>1 DEF Goto, RequestRow
  <2>3. QED
    BY <1>2, <2>1, <2>2, KeptByNaming
<1>5. QED
  BY <1>3, <1>4
LEMMA CommitKept ==
  ASSUME Typed, Kept, NEW r \in Requests, Commit(r)
  PROVE  Kept'
<1> DEFINE q == req[r]
<1>1. /\ q \in RequestRow /\ req \in [Requests -> RequestRow]
      /\ q.pc = "commit" /\ Writing(r) /\ q.ticket # None /\ q.saved \subseteq Files
  BY StoreAssumption DEF Typed, StoreTypeOK, Commit, Commits, At, Writing, RequestRow
<1>2. /\ row' = [f \in Files |-> IF f \in q.saved THEN q.ticket ELSE row[f]]
      /\ UNCHANGED <<disk, named, clean, raced>>
  BY DEF Commit
<1>3. /\ req'[r].pc = "idle" /\ req'[r].saved = {}
      /\ \A x \in Requests \ {r} : /\ req'[x].saved = req[x].saved /\ req'[x].pc = req[x].pc
                                  /\ req'[x].ticket = req[x].ticket
  BY <1>1 DEF Commit, Idle, Holding, RequestRow
<1>4. Recorded' = Recorded \cup q.saved
  BY <1>1, <1>2 DEF Recorded
<1>5. q.saved \subseteq disk \cup raced /\ (Cleaning => q.saved \subseteq raced)
  BY <1>1 DEF Kept, Present
<1>6. Named'
  BY <1>2, <1>3, <1>4 DEF Kept, Named
<1>7. Unrecorded'
  <2>1. ASSUME NEW x \in Requests, NEW f \in req'[x].saved
        PROVE  row'[f] = row[f] /\ x # r
    <3>1. x # r /\ f \in req[x].saved
      BY <1>3, <2>1
    <3>2. f \notin q.saved
      BY <1>1, <3>1 DEF Kept, Exclusive
    <3>3. f \in Files
      BY <1>1, <3>1 DEF RequestRow
    <3>4. QED
      BY <1>2, <3>1, <3>2, <3>3
  <2>2. QED
    BY <1>3, <2>1 DEF Kept, Unrecorded
<1>8. Exclusive'
  BY <1>3 DEF Kept, Exclusive, Writing
<1>9. Present'
  <2>1. Cleaning' = Cleaning
    BY <1>2 DEF Cleaning
  <2>2. QED
    BY <1>2, <1>3, <2>1 DEF Kept, Present, Writing
<1>10. Listed'
  <2>1. \A c \in Cleaners : clean[c].pc \in {"list", "unlink"} => q.saved \subseteq raced
    BY <1>5 DEF Cleaning
  <2>2. QED
    BY <1>2, <1>4, <2>1 DEF Kept, Listed
<1>11. RecordedKept'
  BY <1>2, <1>4, <1>5 DEF Kept, RecordedKept
<1>12. QED
  BY <1>6, <1>7, <1>8, <1>9, <1>10, <1>11 DEF Kept

LEMMA DeleteKept ==
  ASSUME Typed, Kept, NEW r \in Requests, DeleteRead(r) \/ DeleteCommit(r)
  PROVE  Kept'
<1> DEFINE q == req[r]
<1>1. q \in RequestRow /\ req \in [Requests -> RequestRow]
  BY DEF Typed, StoreTypeOK
<1>2. /\ UNCHANGED <<disk, named, clean, raced>>
      /\ \A x \in Requests \ {r} : req'[x] = req[x]
  BY <1>1 DEF DeleteRead, DeleteCommit, Goto, dbVars
<1>3. Cleaning' = Cleaning
  BY <1>2 DEF Cleaning
<1>4. CASE DeleteRead(r)
  <2>1. PICK t \in live : UNCHANGED row /\ Goto(r, Holding("delete", "delete", t, 0, RowsOf(t)))
    BY <1>4 DEF DeleteRead, dbVars
  <2>2. req'[r].pc = "delete" /\ req'[r].ticket = t /\ req'[r].saved = RowsOf(t)
    BY <1>1, <2>1 DEF Goto, Holding
  <2>3. RowsOf(t) \subseteq Recorded /\ \A f \in RowsOf(t) : row[f] = t
    BY StoreAssumption DEF Typed, StoreTypeOK, RowsOf, Recorded
  <2>4. Recorded' = Recorded
    BY <2>1 DEF Recorded
  <2>5. Named'
    BY <1>2, <2>2, <2>3, <2>4 DEF Kept, Named
  <2>6. Unrecorded'
    BY <1>2, <2>1, <2>2, <2>3 DEF Kept, Unrecorded
  <2>7. Exclusive'
    <3>1. \A x \in Requests : Writing(x) => req[x].saved \cap RowsOf(t) = {}
      BY <2>3 DEF Kept, Unrecorded, Writing, Recorded
    <3>2. QED
      BY <1>2, <2>2, <3>1 DEF Kept, Exclusive, Writing
  <2>8. Present'
    BY <1>2, <1>3, <2>2 DEF Kept, Present, Writing
  <2>9. Listed' /\ RecordedKept'
    BY <1>2, <2>4 DEF Kept, Listed, RecordedKept
  <2>10. QED
    BY <2>5, <2>6, <2>7, <2>8, <2>9 DEF Kept
<1>5. CASE DeleteCommit(r)
  <2>1. /\ row' = [f \in Files |-> IF row[f] = q.ticket THEN None ELSE row[f]]
        /\ Goto(r, [q EXCEPT !.pc = "unlink"]) /\ q.pc = "delete"
    BY <1>5 DEF DeleteCommit, At
  <2>2. req'[r].pc = "unlink" /\ req'[r].saved = q.saved
    BY <1>1, <2>1 DEF Goto, RequestRow
  <2>3. Recorded' \subseteq Recorded
    BY <2>1 DEF Recorded
  <2>4. Named'
    BY <1>2, <2>2, <2>3 DEF Kept, Named
  <2>5. Unrecorded'
    <3>1. \A x \in Requests : \A f \in req[x].saved : f \in Files
      BY <1>1 DEF RequestRow
    <3>2. \A f \in q.saved : row'[f] = None
      BY <2>1, <3>1 DEF Kept, Unrecorded
    <3>3. \A f \in Files : row'[f] = row[f] \/ row'[f] = None
      BY <2>1
    <3>4. QED
      BY <1>2, <2>2, <3>1, <3>2, <3>3 DEF Kept, Unrecorded
  <2>6. Exclusive' /\ Present'
    BY <1>2, <1>3, <2>2 DEF Kept, Exclusive, Present, Writing
  <2>7. Listed' /\ RecordedKept'
    BY <1>2, <2>3 DEF Kept, Listed, RecordedKept
  <2>8. QED
    BY <2>4, <2>5, <2>6, <2>7 DEF Kept
<1>6. QED
  BY <1>4, <1>5

LEMMA CleanKept ==
  ASSUME Typed, Kept, NEW c \in Cleaners, CleanUp(c)
  PROVE  Kept'
<1>1. UNCHANGED <<row, named, req>> /\ clean \in [Cleaners -> CleanRow]
  BY DEF CleanUp, CleanStep, CleanRead, CleanList, CleanUnlink, CleanDone, CleanFails, dbVars,
         Typed, StoreTypeOK
<1>2. Recorded' = Recorded /\ Named' /\ Unrecorded' /\ Exclusive'
  BY <1>1 DEF Kept, Named, Unrecorded, Exclusive, Writing, Recorded
<1>3. \A d \in Cleaners \ {c} : clean'[d] = clean[d]
  BY <1>1 DEF CleanUp, CleanStep, CleanRead, CleanList, CleanUnlink, CleanDone, CleanFails
<1>4. CASE CleanRead(c)
  <2>1. /\ clean'[c].pc = "list" /\ clean'[c].stored = Recorded /\ disk' = disk
        /\ raced' = raced \cup UNION {req[r].saved : r \in {x \in Requests : req[x].pc \in {"save", "commit"}}}
    BY <1>1, <1>4 DEF CleanRead, Asleep
  <2>2. raced \subseteq raced' /\ \A x \in Requests : Writing(x) => req[x].saved \subseteq raced'
    BY <2>1 DEF Writing
  <2>3. Present'
    BY <1>1, <2>1, <2>2 DEF Present, Writing
  <2>4. Listed' /\ RecordedKept'
    BY <1>2, <1>3, <2>1, <2>2 DEF Kept, Listed, RecordedKept
  <2>5. QED
    BY <1>2, <2>3, <2>4 DEF Kept
<1>5. CASE CleanList(c)
  <2>1. /\ clean[c].pc = "list" /\ clean'[c].pc = "unlink"
        /\ clean'[c].todo = disk \ clean[c].stored /\ UNCHANGED <<disk, raced>>
    BY <1>1, <1>5 DEF CleanList, Asleep, Orphaned
  <2>2. Cleaning
    BY <2>1 DEF Cleaning
  <2>3. Present'
    BY <1>1, <2>1, <2>2 DEF Kept, Present, Writing
  <2>4. Listed' /\ RecordedKept'
    BY <1>2, <1>3, <2>1 DEF Kept, Listed, RecordedKept
  <2>5. QED
    BY <1>2, <2>3, <2>4 DEF Kept
<1>6. CASE CleanUnlink(c)
  <2>1. PICK f \in clean[c].todo :
           /\ clean' = [clean EXCEPT ![c].todo = @ \ {f}]
           /\ disk' = disk \ {f} \/ disk' = disk
    BY <1>6 DEF CleanUnlink
  <2>2. clean[c].pc = "unlink" /\ UNCHANGED raced
    BY <1>6 DEF CleanUnlink
  <2>3. clean'[c].pc = "unlink" /\ clean'[c].todo \subseteq clean[c].todo
    BY <1>1, <2>1, <2>2 DEF CleanRow
  <2>4. Cleaning
    BY <2>2 DEF Cleaning
  <2>5. Present'
    BY <1>1, <2>2, <2>4 DEF Kept, Present, Writing
  <2>6. Listed'
    BY <1>2, <1>3, <2>2, <2>3 DEF Kept, Listed
  <2>7. f \in Recorded => f \in raced
    BY <2>1, <2>2 DEF Kept, Listed
  <2>8. RecordedKept'
    BY <1>2, <2>1, <2>2, <2>7 DEF Kept, RecordedKept
  <2>9. QED
    BY <1>2, <2>5, <2>6, <2>8 DEF Kept
<1>7. CASE CleanDone(c) \/ CleanFails(c)
  <2>1. clean'[c].pc = "idle" /\ UNCHANGED <<disk, raced>>
    BY <1>1, <1>7 DEF CleanDone, CleanFails, Asleep
  <2>2. Cleaning' => Cleaning
    BY <1>3, <2>1 DEF Cleaning
  <2>3. Present'
    BY <1>1, <2>1, <2>2 DEF Kept, Present, Writing
  <2>4. Listed' /\ RecordedKept'
    BY <1>2, <1>3, <2>1 DEF Kept, Listed, RecordedKept
  <2>5. QED
    BY <1>2, <2>3, <2>4 DEF Kept
<1>8. QED
  BY <1>4, <1>5, <1>6, <1>7 DEF CleanUp, CleanStep

LEMMA KeptNext ==
  ASSUME Typed, Kept, [StoreNext]_storeVars
  PROVE  Kept'
<1>1. CASE UNCHANGED storeVars
  BY <1>1 DEF storeVars, dbVars, Kept, Named, Unrecorded, Exclusive, Present, Listed,
              RecordedKept, Recorded, Writing, Cleaning
<1>2. CASE StoreNext
  BY <1>2, ReleaseKept, NamingKept, CommitKept, DeleteKept, CleanKept DEF StoreNext, Handler
<1>3. QED
  BY <1>1, <1>2

\* A recorded file is on disk, whatever failed, was deleted and was cleaned up in between,
\* unless a clean-up was under way while it was saved and not yet recorded.
THEOREM KeptCorrect == StoreSpec => []RecordedKept
<1>1. Kept => RecordedKept
  BY DEF Kept
<1>2. QED
  BY <1>1, AlwaysTyped, KeptInit, KeptNext, PTL DEF StoreSpec
===============================================================================
