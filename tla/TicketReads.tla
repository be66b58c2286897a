------------------------------ MODULE TicketReads ------------------------------
(***************************************************************************)
(* Reading tickets: the list in its two translations (the query builder's  *)
(* and, sorted by SLA status, hand-written SQL), one ticket, what is seen  *)
(* of its attachments, and the CSV export, which reads the list batch by   *)
(* batch while tickets come and go.                                        *)
(*                                                                         *)
(* Tickets are numbers, in the order of their ids. A filter left out is    *)
(* the empty set, as an empty list is; only `requester` tells the two      *)
(* apart. Columns, texts and the search are left out.                      *)
(***************************************************************************)
EXTENDS Naturals, FiniteSets, Sequences

CONSTANTS
  NoFilter,      \* requesterId is absent from the query
  MaxTicket,     \* tickets are 1 .. MaxTicket
  FirstTickets,  \* tickets that exist at the start
  Row0,          \* Row0[t]: requester, status and age of ticket t when it is filed
  Requesters,    \* end users
  BatchSize,     \* TICKET_EXPORT_BATCH_SIZE
  MaxExportRows, \* TICKET_MAX_EXPORT_ROWS
  MaxMoves       \* bound: tickets filed, deleted or rated anew

Shelf == 1 .. MaxTicket
Ratings == {"none", "OnTrack", "AtRisk", "Breached"}

ASSUME ReadsAssumption ==
  /\ MaxTicket \in Nat /\ {BatchSize, MaxExportRows} \subseteq Nat \ {0}
  /\ FirstTickets \subseteq Shelf /\ NoFilter \notin Requesters
  /\ \A t \in Shelf : Row0[t].requester \in Requesters /\ Row0[t].age \in Nat

VARIABLES
  present,   \* tickets there are
  rating,    \* rating[t]: slaStatus
  export,    \* an export under way
  disturbed, \* history: what happened to tickets since one began: "filed", "deleted", "rated"
  moves

readsVars == <<present, rating, export, disturbed, moves>>

NoExport == [pc |-> "none", bySla |-> FALSE, up |-> FALSE, offset |-> 0, page |-> <<>>,
             written |-> <<>>, aborted |-> FALSE]

ReadsInit ==
  /\ present = FirstTickets
  /\ rating \in [FirstTickets -> {"OnTrack", "Breached"}]
  /\ export = NoExport
  /\ disturbed = {}
  /\ moves = 0

\* The filter of an end user takes the place of their own id.
PrismaMatchesBug(t, f, role, user) ==
  /\ f.status # {} => Row0[t].status \in f.status
  /\ f.sla # {} => rating[t] \in f.sla
  /\ IF f.requester # NoFilter THEN Row0[t].requester \in f.requester
     ELSE role = "EndUser" => Row0[t].requester = user

\* buildTicketQueryInput, and buildTicketAccessWhere on top of it: an end user's own id
\* takes the place of any requester filter.
PrismaMatches(t, f, role, user) ==
  /\ f.status # {} => Row0[t].status \in f.status
  /\ f.sla # {} => rating[t] \in f.sla
  /\ (f.requester # NoFilter /\ role # "EndUser") => Row0[t].requester \in f.requester
  /\ role = "EndUser" => Row0[t].requester = user

\* The conditions of findManySortedBySlaStatus, which findAll hands the requester
\* filter for staff only.
SqlMatches(t, f, role, user) ==
  /\ role = "EndUser" => Row0[t].requester = user
  /\ f.status # {} => Row0[t].status \in f.status
  /\ f.sla # {} => rating[t] \in f.sla

\* A list of ids is cast to uuid[] and compared with a column of text: the database has
\* no such operator and refuses the query, of the list as of the export. Categories and
\* locations fare as requesters do.
SqlRefuses(f, role) == role # "EndUser" /\ f.requester \notin {NoFilter, {}}

\* findAll: the rows by either path, and the total by countForUser.
Listed(f, role, user, bySla) ==
  IF bySla THEN {t \in present : SqlMatches(t, f, role, user)}
           ELSE {t \in present : PrismaMatches(t, f, role, user)}
Total(f, role, user) == Cardinality({t \in present : PrismaMatches(t, f, role, user)})

\* buildPaginationMeta.
TotalPages(total, limit) == IF total = 0 THEN 1 ELSE (total + limit - 1) \div limit

\* findById: an end user opens their own ticket only.
MayOpen(t, role, user) == t \in present /\ (role = "EndUser" => Row0[t].requester = user)

\* Four translations of what an end user sees of attachments: the list's _count, the
\* policy's _count, its filter of rows, and its check of one attachment.
Attachments == [comment : {"none", "PUBLIC", "INTERNAL"}, visibility : {"PUBLIC", "INTERNAL"}]
CountWhereInList(a) == a.visibility = "PUBLIC" /\ (a.comment = "none" \/ a.comment = "PUBLIC")
VisibleCountWhere(a) == a.visibility = "PUBLIC" /\ a.comment \in {"none", "PUBLIC"}
VisibleWhere(a, role) == role = "EndUser" => a.visibility = "PUBLIC" /\ (a.comment = "none" \/ a.comment = "PUBLIC")
IsAttachmentVisible(a, role) == role = "EndUser" => a.visibility # "INTERNAL" /\ a.comment # "INTERNAL"

\* findByTicketId of comments: an end user sees the public ones, with their visible attachments.
CommentShows(a, role) == (role = "EndUser" => a.comment = "PUBLIC") /\ VisibleWhere(a, role)

\* Without the id as the last column.
BeforeBug(s, t) == Row0[s].age < Row0[t].age

\* The order of the export: the column, then the id.
Before(s, t) == Row0[s].age < Row0[t].age \/ (Row0[s].age = Row0[t].age /\ s < t)

\* The SQL's order: the rating's rank, then the due time; ties are in any order.
Rank == [r \in Ratings |-> CASE r = "Breached" -> 0 [] r = "AtRisk" -> 1 [] r = "OnTrack" -> 2 [] r = "none" -> 3]
SlaBefore(s, t) == \/ Rank[rating[s]] < Rank[rating[t]]
                   \/ Rank[rating[s]] = Rank[rating[t]] /\ Row0[s].age < Row0[t].age

Permutation(T) == {p \in [1 .. Cardinality(T) -> T] : \A i, j \in DOMAIN p : i # j => p[i] # p[j]}
Sorted(T, bySla, up) ==
  {p \in Permutation(T) : \A i, j \in DOMAIN p : i < j =>
     LET first == IF up THEN p[i] ELSE p[j]
         second == IF up THEN p[j] ELSE p[i]
     IN IF bySla THEN ~SlaBefore(second, first) ELSE ~Before(second, first)}

\* skip and take.
Page(order) ==
  LET left == MaxExportRows - Len(export.written)
      take == IF BatchSize < left THEN BatchSize ELSE left
      last == export.offset + take
  IN SubSeq(order, export.offset + 1, IF last < Len(order) THEN last ELSE Len(order))

\* exportCsvToResponse begins; only staff may.
BeginExport(bySla, up) ==
  /\ export.pc = "none"
  /\ export' = [NoExport EXCEPT !.pc = "batch", !.bySla = bySla, !.up = up]
  /\ disturbed' = {}
  /\ UNCHANGED <<present, rating, moves>>

\* The head of the loop, and the query of the next batch, or of its ids.
ReadPage ==
  /\ export.pc = "batch"
  /\ IF Len(export.written) >= MaxExportRows \/ export.aborted
     THEN export' = [export EXCEPT !.pc = "ended"]
     ELSE \E order \in Sorted(present, export.bySla, export.up) :
            export' = [export EXCEPT !.page = Page(order), !.pc = "write"]
  /\ UNCHANGED <<present, rating, disturbed, moves>>

\* Places of a page that have a row yet: sorted by SLA the rows come from a second query,
\* without those deleted since the first, in the order of the first.
Left == {i \in DOMAIN export.page : export.bySla => export.page[i] \in present}
InTurn(places) == {f \in Permutation(places) : \A i, j \in DOMAIN f : i < j => f[i] < f[j]}

\* The rows are written.
WritePage ==
  /\ export.pc = "write"
  /\ \E turn \in InTurn(Left) :
       LET batch == [n \in DOMAIN turn |-> export.page[turn[n]]]
           rows == IF export.aborted THEN <<>> ELSE batch
       IN export' = [export EXCEPT !.written = @ \o rows, !.offset = @ + Len(batch), !.page = <<>>,
                                   !.pc = IF Len(batch) < BatchSize THEN "ended" ELSE "batch"]
  /\ UNCHANGED <<present, rating, disturbed, moves>>

\* The client goes away.
CloseResponse ==
  /\ export.pc \in {"batch", "write"} /\ ~export.aborted
  /\ export' = [export EXCEPT !.aborted = TRUE]
  /\ UNCHANGED <<present, rating, disturbed, moves>>

Move(kind) ==
  /\ moves < MaxMoves /\ moves' = moves + 1
  /\ disturbed' = IF export.pc = "none" THEN disturbed ELSE disturbed \cup {kind}
  /\ UNCHANGED export

\* The ticket has no SLA status yet.
FileNextBug(t) ==
  /\ t \in Shelf \ DOMAIN rating /\ \A s \in Shelf \ DOMAIN rating : t <= s
  /\ present' = present \cup {t} /\ UNCHANGED rating
  /\ Move("filed")

FileNext(t) ==
  /\ t \in Shelf \ DOMAIN rating /\ \A s \in Shelf \ DOMAIN rating : t <= s
  /\ present' = present \cup {t}
  /\ rating' = [s \in DOMAIN rating \cup {t} |-> IF s = t THEN "none" ELSE rating[s]]
  /\ Move("filed")
DeleteTicket(t) == t \in present /\ present' = present \ {t} /\ UNCHANGED rating /\ Move("deleted")
Rate(t, r) ==
  /\ t \in present /\ rating[t] # r
  /\ rating' = [rating EXCEPT ![t] = r]
  /\ Move("rated") /\ UNCHANGED present

ReadsNext ==
  \/ \E bySla, up \in BOOLEAN : BeginExport(bySla, up)
  \/ ReadPage \/ WritePage \/ CloseResponse
  \/ \E t \in Shelf : FileNext(t) \/ DeleteTicket(t) \/ \E r \in {"AtRisk", "Breached"} : Rate(t, r)

ReadsSpec == ReadsInit /\ [][ReadsNext]_readsVars

\* Every variable has its type.
ReadsTypeOK ==
  /\ present \subseteq DOMAIN rating /\ DOMAIN rating \subseteq Shelf
  /\ \A t \in DOMAIN rating : rating[t] \in Ratings
  /\ export.pc \in {"none", "batch", "write", "ended"}
  /\ {export.written[i] : i \in DOMAIN export.written} \subseteq Shelf
  /\ disturbed \subseteq {"filed", "deleted", "rated"}

Filters == [status : {{}} \cup {{Row0[t].status} : t \in FirstTickets}, sla : {{}, {"Breached"}},
            requester : SUBSET Requesters \cup {NoFilter}]

\* The two translations of the list return the same tickets for every filter, and as many
\* as the total says, so that no sort order shows or hides a ticket; an end user gets
\* their own alone, whatever they filter by, and can open exactly those; and what is
\* counted, listed and let down of an attachment agrees. An empty requester list is
\* left out: the query builder takes it for nobody, the SQL for no filter. (Every set
\* of tickets is met while no export runs.)
ReadsAgree == export.pc = "none" =>
  /\ \A user \in Requesters, f \in Filters, role \in {"EndUser", "ITSupport"} :
       LET plain == Listed(f, role, user, FALSE) IN
       /\ (~SqlRefuses(f, role) /\ (f.requester # {} \/ role = "EndUser")) =>
            plain = Listed(f, role, user, TRUE)
       /\ Cardinality(plain) = Total(f, role, user)
       /\ role = "EndUser" => \A t \in plain : Row0[t].requester = user
       /\ \A limit \in 1 .. 3 : TotalPages(Total(f, role, user), limit) * limit >= Cardinality(plain)
  /\ \A user \in Requesters, t \in Shelf :
       MayOpen(t, "EndUser", user)
         <=> t \in Listed([status |-> {}, sla |-> {}, requester |-> NoFilter], "EndUser", user, FALSE)
  /\ \A a \in Attachments :
       LET seen == IsAttachmentVisible(a, "EndUser") IN
       /\ seen = CountWhereInList(a) /\ seen = VisibleCountWhere(a) /\ seen = VisibleWhere(a, "EndUser")
       /\ a.comment # "none" => (CommentShows(a, "EndUser") <=> seen)
       /\ VisibleWhere(a, "Admin") /\ IsAttachmentVisible(a, "Admin") /\ CommentShows(a, "Admin")

Tied == \E s, t \in DOMAIN rating : s # t /\ rating[s] = rating[t] /\ Row0[s].age = Row0[t].age
Twice == \E i, j \in DOMAIN export.written : i # j /\ export.written[i] = export.written[j]

\* An export that ends, with no ticket touched meanwhile, has written every ticket once
\* and in order, however the batches fall, up to the limit of rows; sorted by SLA it
\* needs that no two tickets tie, since the SQL leaves their order open. A ticket that is
\* only deleted meanwhile never makes another appear twice.
ExportComplete ==
  /\ (/\ export.pc = "ended" /\ disturbed = {} /\ ~export.aborted
      /\ ~(export.bySla /\ Tied)) =>
       \E order \in Sorted(present, export.bySla, export.up) :
         export.written = SubSeq(order, 1, IF Len(order) < MaxExportRows THEN Len(order) ELSE MaxExportRows)
  /\ (disturbed \subseteq {"deleted"} /\ ~(export.bySla /\ Tied)) => ~Twice
================================================================================
