------------------------------ MODULE MasterData ------------------------------
(***************************************************************************)
(* Categories, sub-categories, locations and FAQs, the administrators'     *)
(* screens that edit them, and the tickets and self-service sessions that  *)
(* refer to them.                                                          *)
(*                                                                         *)
(* An edit is three steps: a screen offers it, from the list as it was     *)
(* then; the service reads and decides; it writes, and the database's      *)
(* unique indexes and foreign keys have the last word. A ticket is checked *)
(* and inserted in steps of its own. A session of the form's suggestions   *)
(* is named by its filing. Texts are left out, and so is the ranking of    *)
(* suggestions (there are never more than the five it keeps).              *)
(***************************************************************************)
EXTENDS Naturals, FiniteSets

CONSTANTS
  Void,      \* no home, no field, no sub-category
  Cats, Subs, Locs, Faqs,  \* ids of rows
  ParentOf,    \* ParentOf[s]: the category of sub-category s
  FirstItems,  \* rows there are at the start
  Filings,     \* forms that file a ticket
  Desks,       \* browsers of administrators
  Names,       \* names of rows
  MaxEdits,    \* bound: edits begun
  MaxSlips     \* bound: interactions that fail to be recorded

Items == Cats \cup Subs \cup Locs \cup Faqs
KindSet == [category |-> Cats, sub |-> Subs, location |-> Locs, faq |-> Faqs]

ASSUME MasterAssumption ==
  /\ ParentOf \in [Subs -> Cats] /\ FirstItems \subseteq Items
  /\ \A s \in FirstItems \cap Subs : ParentOf[s] \in FirstItems
  /\ FirstItems \cap Faqs # {} => FirstItems \cap Subs # {}
  /\ \A k, j \in DOMAIN KindSet : k # j => KindSet[k] \cap KindSet[j] = {}
  /\ FirstItems # {} => Names # {}
  /\ Void \notin Items \cup Names

VARIABLES
  record,     \* record[i]: the row of id i in a set, or {}
  unused,     \* ids no row has had
  configured, \* categories with an SLA configuration
  ticketRow,  \* ticketRow[t]: the ticket of filing t in a set, or {}
  desk,       \* desk[d]: the edit under way
  draft,      \* draft[t]: the form of filing t
  events,     \* rows of FaqInteraction
  bereft,     \* history: tickets that lost a reference the delete should have counted
  unrecorded, \* history: filings whose ticket was not recorded in the session
  edits, slips

masterVars == <<record, unused, configured, ticketRow, desk, draft, events, bereft, unrecorded, edits, slips>>

Resting == [pc |-> "idle", op |-> "none", kind |-> "category", item |-> Void, name |-> Void,
            active |-> Void, home |-> Void, counted |-> {}]
EmptyForm == [pc |-> "none", cat |-> Void, sub |-> Void, loc |-> Void, offered |-> {}, shown |-> {}]
HomeAtFirst(i) == IF i \in Subs THEN ParentOf[i]
                  ELSE IF i \in Faqs THEN CHOOSE s \in Subs \cap FirstItems : TRUE ELSE Void

MasterInit ==
  /\ record = [i \in Items |-> IF i \in FirstItems
       THEN {[name |-> CHOOSE n \in Names : TRUE, active |-> TRUE, home |-> HomeAtFirst(i)]} ELSE {}]
  /\ unused = Items \ FirstItems
  /\ configured = {}
  /\ ticketRow = [t \in Filings |-> {}]
  /\ desk = [d \in Desks |-> Resting]
  /\ draft = [t \in Filings |-> EmptyForm]
  /\ events = {} /\ bereft = {} /\ unrecorded = {}
  /\ edits = 0 /\ slips = 0

Exists(i) == record[i] # {}
On(i) == \E r \in record[i] : r.active
\* The chain the queries of FaqRepository and requireActiveSubCategory ask for.
ActiveSubCategory(s) == \E r \in record[s] : r.active /\ On(r.home)
ActiveFaq(f) == \E r \in record[f] : r.active /\ ActiveSubCategory(r.home)

TicketsOf(i) == {t \in Filings : \E k \in ticketRow[t] : i \in {k.cat, k.sub, k.loc}}
ChildrenOf(i) == {j \in Items : \E r \in record[j] : r.home = i}

\* What keeps a row from being deleted, on the screens and in the services.
CategoryInUse(c) == TicketsOf(c) # {} \/ ChildrenOf(c) # {} \/ c \in configured
SubCategoryInUseBug(s) == ChildrenOf(s) # {}  \* the tickets are not counted
SubCategoryInUse(s) == TicketsOf(s) # {} \/ ChildrenOf(s) # {}
LocationInUse(l) == TicketsOf(l) # {}

Edit(op, kind, i, n, a, h) ==
  [pc |-> "form", op |-> op, kind |-> kind, item |-> i, name |-> n, active |-> a, home |-> h, counted |-> {}]
Present(S) == {i \in S : Exists(i)}

\* The edits each screen offers from the list it shows: add, rename, switch on or off,
\* delete. Renaming a sub-category sends its switch back as it was in the list.
CategoryScreen ==
  {Edit("create", "category", Void, n, Void, Void) : n \in Names}
    \cup {Edit("update", "category", i, n, Void, Void) : i \in Present(Cats), n \in Names}
    \cup {Edit("update", "category", i, Void, ~On(i), Void) : i \in Present(Cats)}
    \cup {Edit("delete", "category", i, Void, Void, Void) : i \in {c \in Present(Cats) : ~CategoryInUse(c)}}
SubCategoryScreen ==
  {Edit("create", "sub", Void, n, Void, c) : n \in Names, c \in Present(Cats)}
    \cup {Edit("update", "sub", i, n, On(i), Void) : i \in Present(Subs), n \in Names}
    \cup {Edit("update", "sub", i, Void, ~On(i), Void) : i \in Present(Subs)}
    \cup {Edit("delete", "sub", i, Void, Void, Void) : i \in {s \in Present(Subs) : ~SubCategoryInUse(s)}}
LocationScreen ==
  {Edit("create", "location", Void, n, Void, Void) : n \in Names}
    \cup {Edit("update", "location", i, n, Void, Void) : i \in Present(Locs), n \in Names}
    \cup {Edit("update", "location", i, Void, ~On(i), Void) : i \in Present(Locs)}
    \cup {Edit("delete", "location", i, Void, Void, Void) : i \in {l \in Present(Locs) : ~LocationInUse(l)}}
FaqScreen ==
  {Edit("create", "faq", Void, Void, a, s) : a \in BOOLEAN, s \in Present(Subs)}
    \cup {Edit("update", "faq", i, Void, a, s) : i \in Present(Faqs), a \in BOOLEAN, s \in Present(Subs)}
    \cup {Edit("update", "faq", i, Void, ~On(i), Void) : i \in Present(Faqs)}
    \cup {Edit("delete", "faq", i, Void, Void, Void) : i \in Present(Faqs)}

\* A dialog is opened, or a switch clicked; the list is the one of this moment.
OpenEdit(d) ==
  /\ desk[d].pc = "idle" /\ edits < MaxEdits
  /\ \E q \in CategoryScreen \cup SubCategoryScreen \cup LocationScreen \cup FaqScreen :
       desk' = [desk EXCEPT ![d] = q]
  /\ edits' = edits + 1
  /\ UNCHANGED <<record, unused, configured, ticketRow, draft, events, bereft, unrecorded, slips>>

\* Rows of the kind with the name: over all, or in the same category.
Namesakes(q) == {j \in KindSet[q.kind] : \E r \in record[j] : r.name = q.name
                                           /\ (q.kind = "sub" => r.home = q.home)}

\* What each service decides to do about a row of the same name.
CategoryCreate(q) == IF Namesakes(q) = {} THEN "insert"
                     ELSE IF \A j \in Namesakes(q) : ~On(j) THEN "reactivate" ELSE "refuse"
SubCategoryCreate(q) == IF ~Exists(q.home) THEN "refuse" ELSE CategoryCreate(q)
LocationCreate(q) == CategoryCreate(q)
FaqCreate(q) == IF Exists(q.home) THEN "insert" ELSE "refuse"

CategoryUpdate(q) == IF Exists(q.item) /\ Namesakes(q) \subseteq {q.item} THEN "update" ELSE "refuse"
SubCategoryUpdate(q) ==
  LET changes == \E r \in record[q.item] : q.name # Void /\ q.name # r.name
      same == {j \in Subs : \E r \in record[j] : r.name = q.name /\ r.home = ParentOf[q.item]}
  IN IF Exists(q.item) /\ (changes => same = {}) THEN "update" ELSE "refuse"
LocationUpdate(q) == CategoryUpdate(q)
FaqUpdate(q) == IF Exists(q.item) /\ (q.home # Void => Exists(q.home)) THEN "update" ELSE "refuse"

CategoryDelete(q) == IF ~Exists(q.item) THEN "refuse" ELSE IF CategoryInUse(q.item) THEN "deactivate" ELSE "remove"
SubCategoryDelete(q) == IF ~Exists(q.item) \/ SubCategoryInUse(q.item) THEN "refuse" ELSE "remove"
LocationDelete(q) == IF ~Exists(q.item) THEN "refuse" ELSE IF LocationInUse(q.item) THEN "deactivate" ELSE "remove"
FaqRemove(q) == IF Exists(q.item) THEN "remove" ELSE "refuse"

Decision(q) ==
  CASE q.op = "create" -> (CASE q.kind = "category" -> CategoryCreate(q) [] q.kind = "sub" -> SubCategoryCreate(q)
                             [] q.kind = "location" -> LocationCreate(q) [] q.kind = "faq" -> FaqCreate(q))
    [] q.op = "update" -> (CASE q.kind = "category" -> CategoryUpdate(q) [] q.kind = "sub" -> SubCategoryUpdate(q)
                             [] q.kind = "location" -> LocationUpdate(q) [] q.kind = "faq" -> FaqUpdate(q))
    [] q.op = "delete" -> (CASE q.kind = "category" -> CategoryDelete(q) [] q.kind = "sub" -> SubCategoryDelete(q)
                             [] q.kind = "location" -> LocationDelete(q) [] q.kind = "faq" -> FaqRemove(q))

\* The request arrives and the service reads; or the dialog is closed.
ReadEdit(d) ==
  LET q == desk[d]
      do == Decision(q)
      target == IF do = "reactivate" THEN CHOOSE j \in Namesakes(q) : TRUE ELSE q.item
  IN /\ q.pc = "form"
     /\ \/ do # "refuse" /\ desk' = [desk EXCEPT ![d] = [q EXCEPT !.pc = do, !.item = target,
                                                                   !.counted = {t \in Filings : ticketRow[t] # {}}]]
        \/ desk' = [desk EXCEPT ![d] = Resting]
     /\ UNCHANGED <<record, unused, configured, ticketRow, draft, events, bereft, unrecorded, edits, slips>>

\* The unique indexes: categories.name, locations.name, (categoryId, name).
Unique(i, r, kind) ==
  kind # "faq" => \A j \in KindSet[kind] \ {i} : \A x \in record[j] : x.name = r.name => x.home # r.home

Done(d) == desk' = [desk EXCEPT ![d] = Resting] /\ UNCHANGED <<configured, draft, unrecorded, edits, slips>>

\* create, which fails if the home is gone or the name taken since.
InsertRow(d) ==
  LET q == desk[d]  r == [name |-> q.name, active |-> q.active # FALSE, home |-> q.home] IN
  /\ q.pc = "insert"
  /\ \/ \E i \in unused \cap KindSet[q.kind] :
          /\ i \in Subs => ParentOf[i] = q.home
          /\ Unique(i, r, q.kind) /\ (q.home = Void \/ Exists(q.home))
          /\ record' = [record EXCEPT ![i] = {r}] /\ unused' = unused \ {i}
     \/ ~Unique(Void, r, q.kind) /\ UNCHANGED <<record, unused>>
     \/ q.home # Void /\ ~Exists(q.home) /\ UNCHANGED <<record, unused>>
  /\ Done(d) /\ UNCHANGED <<ticketRow, events, bereft>>

\* update by id of what was sent, of the switch alone to reactivate or deactivate.
UpdateRow(d) ==
  LET q == desk[d]
      to(r) == CASE q.pc = "reactivate" -> [r EXCEPT !.active = TRUE]
                 [] q.pc = "deactivate" -> [r EXCEPT !.active = FALSE]
                 [] q.pc = "update" -> [name |-> IF q.name = Void THEN r.name ELSE q.name,
                                        active |-> IF q.active = Void THEN r.active ELSE q.active,
                                        home |-> IF q.home = Void THEN r.home ELSE q.home]
      new == {to(r) : r \in record[q.item]}
      valid == \A r \in new : Unique(q.item, r, q.kind) /\ (r.home # Void => Exists(r.home))
  IN /\ q.pc \in {"reactivate", "deactivate", "update"}
     /\ record' = IF valid THEN [record EXCEPT ![q.item] = new] ELSE record
     /\ Done(d) /\ UNCHANGED <<unused, ticketRow, events, bereft>>

\* delete by id. A category in use and a sub-category with FAQs are kept (Restrict);
\* tickets lose their sub-category or location (SetNull), sessions their events (Cascade).
RemoveRow(d) ==
  LET q == desk[d]  i == q.item
      held == ChildrenOf(i) # {} \/ (i \in Cats /\ CategoryInUse(i))
      keep(x) == IF x = i THEN Void ELSE x
  IN /\ q.pc = "remove"
     /\ IF held \/ ~Exists(i)
        THEN UNCHANGED <<record, ticketRow, events, bereft>>
        ELSE /\ record' = [record EXCEPT ![i] = {}]
             /\ ticketRow' = [t \in Filings |->
                  {[cat |-> k.cat, sub |-> keep(k.sub), loc |-> keep(k.loc)] : k \in ticketRow[t]}]
             /\ events' = {e \in events : e.sub # i}
             /\ bereft' = bereft \cup (TicketsOf(i) \cap q.counted)
     /\ Done(d) /\ UNCHANGED unused

\* SlaService gives a category a configuration, or takes it away.
Configure(c) ==
  /\ Exists(c) /\ edits < MaxEdits
  /\ configured' = IF c \in configured THEN configured \ {c} ELSE configured \cup {c}
  /\ edits' = edits + 1
  /\ UNCHANGED <<record, unused, ticketRow, desk, draft, events, bereft, unrecorded, slips>>

formVarsKept == <<record, unused, configured, desk, bereft, edits>>
Filing(t, next) == draft' = [draft EXCEPT ![t] = next] /\ UNCHANGED formVarsKept

\* The selects list what is active; a new category clears the sub-category.
Pick(t, c, s, l) ==
  /\ draft[t].pc \in {"none", "form"}
  /\ On(c) /\ On(s) /\ ParentOf[s] = c /\ On(l)
  /\ Filing(t, [draft[t] EXCEPT !.pc = "form", !.cat = c, !.sub = s, !.loc = l, !.offered = {}])
  /\ UNCHANGED <<ticketRow, events, unrecorded, slips>>

\* getRecommendations.
Recommend(t) ==
  /\ draft[t].pc = "form" /\ ActiveSubCategory(draft[t].sub)
  /\ Filing(t, [draft[t] EXCEPT !.offered = {f \in Faqs : ActiveFaq(f) /\ \E r \in record[f] : r.home = draft[t].sub}])
  /\ UNCHANGED <<ticketRow, events, unrecorded, slips>>

Slip == slips < MaxSlips /\ slips' = slips + 1

\* RecommendationsShown, once for each sub-category; refused if it is inactive by now.
RecordShown(t) ==
  LET s == draft[t].sub IN
  /\ draft[t].pc = "form" /\ draft[t].offered # {} /\ s \notin draft[t].shown
  /\ Filing(t, [draft[t] EXCEPT !.shown = @ \cup {s}])
  /\ \/ /\ events' = IF ActiveSubCategory(s) THEN events \cup {[filing |-> t, sub |-> s, faq |-> Void, type |-> "shown"]}
                                             ELSE events
        /\ UNCHANGED slips
     \/ Slip /\ UNCHANGED events
  /\ UNCHANGED <<ticketRow, unrecorded>>

\* ProblemResolved, under the sub-category the FAQ has by now. (ArticleOpened is recorded
\* the same way and counts for nothing below.)
RecordResolved(t, f) ==
  /\ draft[t].pc = "form" /\ f \in draft[t].offered /\ draft[t].sub \in draft[t].shown
  /\ Filing(t, draft[t])
  /\ \/ /\ events' = events \cup {[filing |-> t, sub |-> r.home, faq |-> f, type |-> "resolved"] :
                                     r \in {x \in record[f] : ActiveFaq(f)}}
        /\ UNCHANGED slips
     \/ Slip /\ UNCHANGED events
  /\ UNCHANGED <<ticketRow, unrecorded>>

\* TicketsService.create reads the category and then the sub-category; the location is not read.
CheckCategory(t) ==
  /\ draft[t].pc = "form"
  /\ Filing(t, [draft[t] EXCEPT !.pc = IF On(draft[t].cat) THEN "sub" ELSE "form"])
  /\ UNCHANGED <<ticketRow, events, unrecorded, slips>>
CheckSubCategory(t) ==
  LET k == draft[t]  fits == \E r \in record[k.sub] : r.active /\ r.home = k.cat IN
  /\ k.pc = "sub"
  /\ Filing(t, [k EXCEPT !.pc = IF fits THEN "insert" ELSE "form"])
  /\ UNCHANGED <<ticketRow, events, unrecorded, slips>>

\* The insert connects three rows that must exist, active or not.
InsertTicket(t) ==
  LET k == draft[t]  connects == \A i \in {k.cat, k.sub, k.loc} : Exists(i) IN
  /\ k.pc = "insert"
  /\ ticketRow' = IF connects THEN [ticketRow EXCEPT ![t] = {[cat |-> k.cat, sub |-> k.sub, loc |-> k.loc]}] ELSE ticketRow
  /\ Filing(t, [k EXCEPT !.pc = IF connects THEN "record" ELSE "form"])
  /\ UNCHANGED <<events, unrecorded, slips>>

\* TicketCreated, once the ticket is there: a failure is logged.
RecordFiled(t) ==
  LET s == draft[t].sub IN
  /\ draft[t].pc = "record"
  /\ \/ /\ Exists(s)
        /\ events' = events \cup {[filing |-> t, sub |-> s, faq |-> Void, type |-> "filed"]}
        /\ UNCHANGED <<unrecorded, slips>>
     \/ /\ (~Exists(s) /\ UNCHANGED slips) \/ Slip
        /\ unrecorded' = unrecorded \cup {t} /\ UNCHANGED events
  /\ Filing(t, [draft[t] EXCEPT !.pc = "done"]) /\ UNCHANGED ticketRow

\* An administrator deletes the ticket.
DropTicket(t) ==
  /\ ticketRow[t] # {} /\ draft[t].pc = "done"
  /\ ticketRow' = [ticketRow EXCEPT ![t] = {}]
  /\ Filing(t, draft[t]) /\ UNCHANGED <<events, unrecorded, slips>>

MasterNext ==
  \/ \E d \in Desks : OpenEdit(d) \/ ReadEdit(d) \/ InsertRow(d) \/ UpdateRow(d) \/ RemoveRow(d)
  \/ \E c \in Cats : Configure(c)
  \/ \E t \in Filings :
       \/ \E c \in Cats, s \in Subs, l \in Locs : Pick(t, c, s, l)
       \/ Recommend(t) \/ RecordShown(t)
       \/ \E f \in Faqs : RecordResolved(t, f)
       \/ CheckCategory(t) \/ CheckSubCategory(t) \/ InsertTicket(t) \/ RecordFiled(t) \/ DropTicket(t)

MasterSpec == MasterInit /\ [][MasterNext]_masterVars

\* Every variable has its type.
MasterTypeOK ==
  /\ \A i \in Items : record[i] \subseteq [name : Names \cup {Void}, active : BOOLEAN, home : Items \cup {Void}]
  /\ unused \subseteq Items /\ configured \subseteq Cats
  /\ \A t \in Filings : ticketRow[t] \subseteq [cat : Cats, sub : Subs \cup {Void}, loc : Locs \cup {Void}]
  /\ \A d \in Desks : desk[d].pc \in {"idle", "form", "insert", "reactivate", "update", "deactivate", "remove"}
  /\ \A t \in Filings : draft[t].pc \in {"none", "form", "sub", "insert", "record", "done"}

\* getSummary, getTopResolvedFaqs and getSubCategoryStats: three queries of a session's end.
Has(t, type) == \E e \in events : e.filing = t /\ e.type = type
HasIn(t, s, type) == \E e \in events : e.filing = t /\ e.sub = s /\ e.type = type
Deflected(t) == Has(t, "shown") /\ Has(t, "resolved") /\ ~Has(t, "filed")
ResolvedBy(f) == {t \in Filings : /\ \E e \in events : e.filing = t /\ e.faq = f /\ e.type = "resolved"
                                  /\ ~\E e \in events : e.filing = t /\ e.type = "filed"}
DeflectedIn(s) == {t \in Filings : HasIn(t, s, "shown") /\ HasIn(t, s, "resolved") /\ ~HasIn(t, s, "filed")}

\* However edits and filings interleave between their checks and their writes: every
\* reference leads to a row, a ticket's sub-category is of its category, and a ticket a
\* delete could have counted never loses its sub-category or location to it (one filed after
\* the count does: its foreign key is set to null). A session whose ticket was recorded, and
\* whose sub-category was not deleted since with its events, is solved without a ticket
\* neither in the summary nor for any FAQ, nor under the sub-category the ticket was filed
\* under. The figures of sub-categories are kept per session and sub-category, so nothing
\* is said of another one: who resolved something there first, then changed the select
\* and filed, still counts as solved there (getSubCategoryStats).
MasterDataSound ==
  /\ \A i \in Items : \A r \in record[i] : r.home # Void => Exists(r.home)
  /\ \A t \in Filings : \A k \in ticketRow[t] :
       /\ \A i \in {k.cat, k.sub, k.loc} \ {Void} : Exists(i)
       /\ k.sub # Void => ParentOf[k.sub] = k.cat
  /\ bereft = {}
  /\ \A t \in Filings : (draft[t].pc = "done" /\ t \notin unrecorded /\ Exists(draft[t].sub)) =>
       /\ ~Deflected(t) /\ t \notin DeflectedIn(draft[t].sub)
       /\ \A f \in Faqs : t \notin ResolvedBy(f)
================================================================================
