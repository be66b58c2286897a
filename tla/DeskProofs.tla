------------------------------- MODULE DeskProofs ------------------------------
(*****************************************************************************)
(* Proofs about parts of Portal, for any rows, tickets, chats, requests and  *)
(* bounds: MasterDataSound of the master data, SettingsAndMessagesAgree of   *)
(* the Telegram settings and dispatches, ExportComplete and ReadsAgree of    *)
(* the lists and the export, and that a request of the browser is carried    *)
(* out once at most.                                                         *)
(*****************************************************************************)
EXTENDS MasterData, TelegramOutbox, TicketReads, RefreshClient, FiniteSetTheorems, SequenceTheorems,
        WellFoundedInduction, TLAPS

\* A set of numbers has a first one.
LEMMA Earliest ==
  ASSUME NEW K \in SUBSET Nat, K # {}
  PROVE  \E x \in K : \A y \in K : x <= y
<1>1. \E x \in K : \A y \in K : ~(<<y, x>> \in OpToRel(<, Nat))
  BY NatLessThanWellFounded, WFMin
<1>2. PICK x \in K : \A y \in K : ~(<<y, x>> \in OpToRel(<, Nat))
  BY <1>1
<1>3. \A y \in K : ~(y < x)
  BY <1>2 DEF OpToRel
<1>4. QED
  BY <1>3

-------------------------------------------------------------------------------
(* The master data.                                                          *)

MasterRows == [name : Names \cup {Void}, active : BOOLEAN, home : Items \cup {Void}]
FiledRows == [cat : Cats, sub : Subs \cup {Void}, loc : Locs \cup {Void}]
DeskStates == [pc : {"idle", "form", "insert", "reactivate", "update", "deactivate", "remove"},
               op : {"none", "create", "update", "delete"},
               kind : {"category", "sub", "location", "faq"}, item : Items \cup {Void},
               name : Names \cup {Void}, active : BOOLEAN \cup {Void}, home : Items \cup {Void},
               counted : SUBSET Filings]
DraftStates == [pc : {"none", "form", "sub", "insert", "record", "done"}, cat : Cats \cup {Void},
                sub : Subs \cup {Void}, loc : Locs \cup {Void}, offered : SUBSET Faqs,
                shown : SUBSET (Subs \cup {Void})]

\* Every variable is of its type throughout.
MasterTyped ==
  /\ record \in [Items -> SUBSET MasterRows]
  /\ unused \subseteq Items /\ configured \subseteq Cats
  /\ ticketRow \in [Filings -> SUBSET FiledRows]
  /\ desk \in [Desks -> DeskStates]
  /\ draft \in [Filings -> DraftStates]

\* An id nobody has used has no row, and the home of a row has one.
RecordsSound ==
  /\ \A i \in unused : record[i] = {}
  /\ \A i \in Items : \A r \in record[i] : r.home # Void => Exists(r.home)

\* A ticket refers to rows there are, and its sub-category is of its category.
TicketsSound ==
  \A t \in Filings : \A k \in ticketRow[t] :
    /\ \A i \in {k.cat, k.sub, k.loc} \ {Void} : Exists(i)
    /\ k.sub # Void => ParentOf[k.sub] = k.cat

\* An edit of a row names one, of its kind where the dialog was opened.
EditNamed(q) ==
  /\ q.pc = "form" => q.op # "none"
  /\ (q.pc = "form" /\ q.op # "create") => q.item \in KindSet[q.kind]
  /\ q.pc \in {"reactivate", "update", "deactivate", "remove"} => q.item \in Items

\* The tickets a delete has counted do not refer to what it removes, and have been filed.
CountHolds(q) ==
  q.pc = "remove" => \A t \in q.counted :
    /\ draft[t].pc \in {"record", "done"}
    /\ \A k \in ticketRow[t] : q.item \notin {k.cat, k.sub, k.loc}
DesksSound == \A d \in Desks : EditNamed(desk[d]) /\ CountHolds(desk[d])

\* What is picked stays picked, and a ticket there is was filed from its form.
DraftsSound ==
  \A t \in Filings :
    /\ draft[t].pc # "none" => /\ draft[t].cat \in Cats /\ draft[t].sub \in Subs /\ draft[t].loc \in Locs
                               /\ ParentOf[draft[t].sub] = draft[t].cat
    /\ ticketRow[t] # {} => draft[t].pc \in {"record", "done"}

\* The event of a filing, as RecordFiled inserts it.
FiledEvent(t) == [filing |-> t, sub |-> draft[t].sub, faq |-> Void, type |-> "filed"]

\* A filing that was recorded has its event, unless its sub-category is gone for good.
FiledSound ==
  \A t \in Filings : (draft[t].pc = "done" /\ t \notin unrecorded) =>
    FiledEvent(t) \in events \/ (~Exists(draft[t].sub) /\ draft[t].sub \notin unused)

MasterSound ==
  MasterTyped /\ RecordsSound /\ TicketsSound /\ DesksSound /\ DraftsSound /\ FiledSound /\ bereft = {}

LEMMA KindsOf ==
  /\ KindSet["category"] = Cats /\ KindSet["sub"] = Subs /\ KindSet["location"] = Locs /\ KindSet["faq"] = Faqs
  /\ Items = Cats \cup Subs \cup Locs \cup Faqs
BY DEF KindSet, Items

\* Rows of different kinds have different ids.
LEMMA KindsApart ==
  /\ Cats \cap Subs = {} /\ Cats \cap Locs = {} /\ Cats \cap Faqs = {}
  /\ Subs \cap Locs = {} /\ Subs \cap Faqs = {} /\ Locs \cap Faqs = {}
<1>1. DOMAIN KindSet = {"category", "sub", "location", "faq"} BY DEF KindSet
<1>2. QED BY <1>1, KindsOf, MasterAssumption

LEMMA FirstHome ==
  ASSUME NEW i \in FirstItems
  PROVE  HomeAtFirst(i) \in Items \cup {Void} /\ (HomeAtFirst(i) # Void => HomeAtFirst(i) \in FirstItems)
<1>1. CASE i \in Subs
  BY <1>1, KindsOf, MasterAssumption DEF HomeAtFirst
<1>2. CASE i \notin Subs /\ i \in Faqs
  <2>1. Subs \cap FirstItems # {} BY <1>2, MasterAssumption
  <2>2. (CHOOSE s \in Subs \cap FirstItems : TRUE) \in Subs \cap FirstItems BY <2>1
  <2>3. QED BY <1>2, <2>2, KindsOf DEF HomeAtFirst
<1>3. CASE i \notin Subs /\ i \notin Faqs
  BY <1>3 DEF HomeAtFirst
<1>4. QED BY <1>1, <1>2, <1>3

LEMMA MasterStarts == MasterInit => MasterSound
<1> SUFFICES ASSUME MasterInit PROVE MasterSound OBVIOUS
<1> USE DEF MasterInit
<1> DEFINE first(i) == [name |-> CHOOSE n \in Names : TRUE, active |-> TRUE, home |-> HomeAtFirst(i)]
<1>1. \A i \in Items : record[i] = IF i \in FirstItems THEN {first(i)} ELSE {}
  OBVIOUS
<1>2. \A i \in FirstItems : first(i) \in MasterRows
  BY FirstHome, MasterAssumption DEF MasterRows
<1>3. record \in [Items -> SUBSET MasterRows]
  BY <1>2
<1>4. desk \in [Desks -> DeskStates] /\ draft \in [Filings -> DraftStates]
  BY DEF Resting, EmptyForm, DeskStates, DraftStates
<1>5. MasterTyped
  BY <1>3, <1>4 DEF MasterTyped
<1>6. RecordsSound
  <2>1. \A i \in unused : record[i] = {} BY <1>1
  <2>2. ASSUME NEW i \in Items, NEW r \in record[i], r.home # Void PROVE Exists(r.home)
    <3>1. i \in FirstItems /\ r.home = HomeAtFirst(i) BY <1>1, <2>2
    <3>2. r.home \in FirstItems BY <3>1, <2>2, FirstHome
    <3>3. QED BY <3>2, <1>1, MasterAssumption DEF Exists
  <2>3. QED BY <2>1, <2>2 DEF RecordsSound
<1>7. TicketsSound /\ DesksSound /\ DraftsSound /\ FiledSound
  BY DEF TicketsSound, DesksSound, EditNamed, CountHolds, DraftsSound, FiledSound, Resting, EmptyForm
<1>8. QED BY <1>5, <1>6, <1>7 DEF MasterSound

\* What no row, no ticket and no unused id of is touched goes on being sound.
LEMMA SameRows ==
  ASSUME MasterSound, UNCHANGED <<record, unused, ticketRow>>
  PROVE  RecordsSound' /\ TicketsSound'
BY DEF MasterSound, RecordsSound, TicketsSound, Exists

\* What a dialog holds when it is opened.
Offered(q) ==
  /\ q \in DeskStates /\ q.pc = "form" /\ q.op # "none"
  /\ q.op # "create" => q.item \in KindSet[q.kind]

LEMMA EditOffered ==
  ASSUME NEW op \in {"create", "update", "delete"}, NEW kind \in {"category", "sub", "location", "faq"},
         NEW i \in Items \cup {Void}, NEW n \in Names \cup {Void}, NEW a \in BOOLEAN \cup {Void},
         NEW h \in Items \cup {Void}, op # "create" => i \in KindSet[kind]
  PROVE  Offered(Edit(op, kind, i, n, a, h))
<1>1. Edit(op, kind, i, n, a, h) \in DeskStates BY DEF Edit, DeskStates
<1>2. QED BY <1>1 DEF Offered, Edit

LEMMA SwitchOffered ==
  ASSUME NEW kind \in {"category", "sub", "location", "faq"}, NEW i \in KindSet[kind]
  PROVE  Offered(Edit("update", kind, i, Void, ~On(i), Void))
<1> DEFINE a == ~On(i)
<1>1. i \in Items \cup {Void} BY KindsOf
<1>2. a \in BOOLEAN \cup {Void} BY DEF On
<1> HIDE DEF a
<1>3. Offered(Edit("update", kind, i, Void, a, Void)) BY <1>1, <1>2, EditOffered
<1>4. QED BY <1>3 DEF a

LEMMA CreateOffered ==
  ASSUME NEW kind \in {"category", "sub", "location", "faq"}, NEW n \in Names \cup {Void},
         NEW a \in BOOLEAN \cup {Void}, NEW h \in Items
  PROVE  Offered(Edit("create", kind, Void, n, a, h))
BY EditOffered

LEMMA OpenEditSound ==
  ASSUME MasterSound, NEW d \in Desks, OpenEdit(d)
  PROVE  MasterSound'
<1> USE DEF OpenEdit
<1>1. PICK q \in CategoryScreen \cup SubCategoryScreen \cup LocationScreen \cup FaqScreen :
        desk' = [desk EXCEPT ![d] = q]
  OBVIOUS
<1>2. Offered(q)
  <2>1. \A i : On(i) \in BOOLEAN BY DEF On
  <2>2. \A S : Present(S) \subseteq S BY DEF Present
  <2>3. CASE q \in CategoryScreen
    <3>1. CASE \E n \in Names : q = Edit("create", "category", Void, n, Void, Void)
      BY <3>1, EditOffered
    <3>2. CASE \E i \in Present(Cats), n \in Names : q = Edit("update", "category", i, n, Void, Void)
      BY <3>2, <2>2, EditOffered, KindsOf
    <3>3. CASE \E i \in Present(Cats) : q = Edit("update", "category", i, Void, ~On(i), Void)
      BY <3>3, <2>2, SwitchOffered, KindsOf
    <3>4. CASE \E i \in Present(Cats) : q = Edit("delete", "category", i, Void, Void, Void)
      BY <3>4, <2>2, EditOffered, KindsOf
    <3>5. QED BY <2>3, <3>1, <3>2, <3>3, <3>4 DEF CategoryScreen
  <2>4. CASE q \in SubCategoryScreen
    <3>1. CASE \E n \in Names, c \in Present(Cats) : q = Edit("create", "sub", Void, n, Void, c)
      BY <3>1, <2>2, CreateOffered, KindsOf
    <3>2. CASE \E i \in Present(Subs), n \in Names : q = Edit("update", "sub", i, n, On(i), Void)
      BY <3>2, <2>1, <2>2, EditOffered, KindsOf
    <3>3. CASE \E i \in Present(Subs) : q = Edit("update", "sub", i, Void, ~On(i), Void)
      BY <3>3, <2>2, SwitchOffered, KindsOf
    <3>4. CASE \E i \in Present(Subs) : q = Edit("delete", "sub", i, Void, Void, Void)
      BY <3>4, <2>2, EditOffered, KindsOf
    <3>5. QED BY <2>4, <3>1, <3>2, <3>3, <3>4 DEF SubCategoryScreen
  <2>5. CASE q \in LocationScreen
    <3>1. CASE \E n \in Names : q = Edit("create", "location", Void, n, Void, Void)
      BY <3>1, EditOffered
    <3>2. CASE \E i \in Present(Locs), n \in Names : q = Edit("update", "location", i, n, Void, Void)
      BY <3>2, <2>2, EditOffered, KindsOf
    <3>3. CASE \E i \in Present(Locs) : q = Edit("update", "location", i, Void, ~On(i), Void)
      BY <3>3, <2>2, SwitchOffered, KindsOf
    <3>4. CASE \E i \in Present(Locs) : q = Edit("delete", "location", i, Void, Void, Void)
      BY <3>4, <2>2, EditOffered, KindsOf
    <3>5. QED BY <2>5, <3>1, <3>2, <3>3, <3>4 DEF LocationScreen
  <2>6. CASE q \in FaqScreen
    <3>1. CASE \E a \in BOOLEAN, s \in Present(Subs) : q = Edit("create", "faq", Void, Void, a, s)
      BY <3>1, <2>2, CreateOffered, KindsOf
    <3>2. CASE \E i \in Present(Faqs), a \in BOOLEAN, s \in Present(Subs) : q = Edit("update", "faq", i, Void, a, s)
      BY <3>2, <2>2, EditOffered, KindsOf
    <3>3. CASE \E i \in Present(Faqs) : q = Edit("update", "faq", i, Void, ~On(i), Void)
      BY <3>3, <2>2, SwitchOffered, KindsOf
    <3>4. CASE \E i \in Present(Faqs) : q = Edit("delete", "faq", i, Void, Void, Void)
      BY <3>4, <2>2, EditOffered, KindsOf
    <3>5. QED BY <2>6, <3>1, <3>2, <3>3, <3>4 DEF FaqScreen
  <2>7. QED BY <1>1, <2>3, <2>4, <2>5, <2>6
<1>3. MasterTyped' BY <1>1, <1>2 DEF MasterSound, MasterTyped, Offered
<1>4. DesksSound'
  <2> SUFFICES ASSUME NEW e \in Desks PROVE (EditNamed(desk[e]) /\ CountHolds(desk[e]))'
    BY DEF DesksSound
  <2>1. CASE e = d BY <2>1, <1>1, <1>2 DEF EditNamed, CountHolds, MasterSound, MasterTyped, Offered
  <2>2. CASE e # d
    <3>1. desk'[e] = desk[e] BY <1>1, <2>2 DEF MasterSound, MasterTyped
    <3>2. QED BY <3>1, SameRows DEF EditNamed, CountHolds, MasterSound, DesksSound
  <2>3. QED BY <2>1, <2>2
<1>5. DraftsSound' /\ FiledSound'
  BY DEF MasterSound, DraftsSound, FiledSound, FiledEvent, Exists
<1>6. QED BY <1>3, <1>4, <1>5, SameRows DEF MasterSound

\* A form that changes only itself: what is filed stays filed, what is picked fits, and
\* what has been recorded has its event.
LEMMA DraftMoves ==
  ASSUME MasterSound, NEW t \in Filings, NEW next \in DraftStates, Filing(t, next), UNCHANGED ticketRow,
         draft[t].pc \in {"record", "done"} => next.pc \in {"record", "done"},
         next.pc # "none" => /\ next.cat \in Cats /\ next.sub \in Subs /\ next.loc \in Locs
                             /\ ParentOf[next.sub] = next.cat,
         events \subseteq events', unrecorded \subseteq unrecorded',
         (next.pc = "done" /\ t \notin unrecorded') =>
            \/ [filing |-> t, sub |-> next.sub, faq |-> Void, type |-> "filed"] \in events'
            \/ draft[t].pc = "done" /\ next.sub = draft[t].sub
  PROVE  MasterSound'
<1> USE DEF Filing, formVarsKept
<1>1. /\ draft' \in [Filings -> DraftStates] /\ draft'[t] = next
      /\ \A u \in Filings \ {t} : draft'[u] = draft[u]
  BY DEF MasterSound, MasterTyped
<1>2. MasterTyped' BY <1>1 DEF MasterSound, MasterTyped
<1>3. DesksSound'
  <2> SUFFICES ASSUME NEW d \in Desks PROVE (EditNamed(desk[d]) /\ CountHolds(desk[d]))' BY DEF DesksSound
  <2>1. EditNamed(desk[d])' BY DEF MasterSound, DesksSound, EditNamed
  <2>2. ASSUME desk[d].pc = "remove"
        PROVE \A u \in desk[d].counted : draft'[u].pc \in {"record", "done"}
    <3>1. CountHolds(desk[d]) BY DEF MasterSound, DesksSound
    <3>2. \A u \in desk[d].counted : u \in Filings BY DEF MasterSound, MasterTyped, DeskStates
    <3>3. QED BY <2>2, <3>1, <3>2, <1>1 DEF CountHolds
  <2>3. CountHolds(desk[d])' BY <2>2 DEF CountHolds, MasterSound, DesksSound
  <2>4. QED BY <2>1, <2>3
<1>4. DraftsSound' BY <1>1 DEF MasterSound, DraftsSound
<1>5. FiledSound'
  <2> SUFFICES ASSUME NEW u \in Filings, draft'[u].pc = "done", u \notin unrecorded'
               PROVE FiledEvent(u)' \in events' \/ (~Exists(draft[u].sub)' /\ draft'[u].sub \notin unused')
    BY DEF FiledSound
  <2>1. CASE u = t /\ [filing |-> t, sub |-> next.sub, faq |-> Void, type |-> "filed"] \in events'
    BY <2>1, <1>1 DEF FiledEvent
  <2>2. CASE draft[u].pc = "done" /\ draft'[u].sub = draft[u].sub
    BY <2>2 DEF MasterSound, FiledSound, FiledEvent, Exists
  <2>3. QED BY <2>1, <2>2, <1>1
<1>6. QED BY <1>2, <1>3, <1>4, <1>5, SameRows DEF MasterSound

LEMMA PickSound ==
  ASSUME MasterSound, NEW t \in Filings, NEW c \in Cats, NEW s \in Subs, NEW l \in Locs, Pick(t, c, s, l)
  PROVE  MasterSound'
<1> DEFINE next == [draft[t] EXCEPT !.pc = "form", !.cat = c, !.sub = s, !.loc = l, !.offered = {}]
<1>1. draft[t] \in DraftStates BY DEF MasterSound, MasterTyped
<1>2. next \in DraftStates BY <1>1 DEF DraftStates
<1>3. next.pc = "form" /\ next.cat = c /\ next.sub = s /\ next.loc = l BY <1>1 DEF DraftStates
<1>4. Filing(t, next) /\ ParentOf[s] = c /\ draft[t].pc \in {"none", "form"} /\ UNCHANGED <<ticketRow, events, unrecorded>>
  BY DEF Pick
<1> HIDE DEF next
<1>5. QED BY <1>2, <1>3, <1>4, DraftMoves

\* The other steps of a form keep what is picked.
LEMMA DraftGoesOn ==
  ASSUME MasterSound, NEW t \in Filings, NEW next \in DraftStates, Filing(t, next), UNCHANGED ticketRow,
         draft[t].pc # "none", next.cat = draft[t].cat, next.sub = draft[t].sub, next.loc = draft[t].loc,
         draft[t].pc \in {"record", "done"} => next.pc \in {"record", "done"},
         events \subseteq events', unrecorded \subseteq unrecorded',
         (next.pc = "done" /\ t \notin unrecorded') =>
            \/ [filing |-> t, sub |-> next.sub, faq |-> Void, type |-> "filed"] \in events'
            \/ draft[t].pc = "done"
  PROVE  MasterSound'
<1>1. /\ draft[t].cat \in Cats /\ draft[t].sub \in Subs /\ draft[t].loc \in Locs
      /\ ParentOf[draft[t].sub] = draft[t].cat
  BY DEF MasterSound, DraftsSound
<1>2. QED BY <1>1, DraftMoves

LEMMA FormStepSound ==
  ASSUME MasterSound, NEW t \in Filings,
         \/ Recommend(t) \/ RecordShown(t) \/ \E f \in Faqs : RecordResolved(t, f)
         \/ CheckCategory(t) \/ CheckSubCategory(t) \/ RecordFiled(t)
  PROVE  MasterSound'
<1> DEFINE k == draft[t]
<1>1. k \in DraftStates BY DEF MasterSound, MasterTyped
<1>2. CASE Recommend(t)
  <2> DEFINE next == [k EXCEPT !.offered = {f \in Faqs : ActiveFaq(f) /\ \E r \in record[f] : r.home = k.sub}]
  <2>1. next \in DraftStates BY <1>1 DEF DraftStates
  <2>2. next.pc = "form" /\ next.cat = k.cat /\ next.sub = k.sub /\ next.loc = k.loc BY <1>1, <1>2 DEF DraftStates, Recommend
  <2>3. Filing(t, next) /\ k.pc = "form" /\ UNCHANGED <<ticketRow, events, unrecorded>> BY <1>2 DEF Recommend
  <2> HIDE DEF next
  <2>4. QED BY <2>1, <2>2, <2>3, DraftGoesOn
<1>3. CASE RecordShown(t)
  <2> DEFINE next == [k EXCEPT !.shown = @ \cup {k.sub}]
  <2>1. next \in DraftStates BY <1>1 DEF DraftStates
  <2>2. next.pc = "form" /\ next.cat = k.cat /\ next.sub = k.sub /\ next.loc = k.loc BY <1>1, <1>3 DEF DraftStates, RecordShown
  <2>3. Filing(t, next) /\ k.pc = "form" /\ UNCHANGED <<ticketRow, unrecorded>> /\ events \subseteq events' BY <1>3 DEF RecordShown
  <2> HIDE DEF next
  <2>4. QED BY <2>1, <2>2, <2>3, DraftGoesOn
<1>4. CASE \E f \in Faqs : RecordResolved(t, f)
  <2>1. Filing(t, k) /\ k.pc = "form" /\ UNCHANGED <<ticketRow, unrecorded>> /\ events \subseteq events' BY <1>4 DEF RecordResolved
  <2>2. QED BY <1>1, <2>1, DraftGoesOn
<1>5. CASE CheckCategory(t)
  <2> DEFINE next == [k EXCEPT !.pc = IF On(k.cat) THEN "sub" ELSE "form"]
  <2>1. next \in DraftStates BY <1>1 DEF DraftStates
  <2>2. next.pc \in {"sub", "form"} /\ next.cat = k.cat /\ next.sub = k.sub /\ next.loc = k.loc BY <1>1 DEF DraftStates
  <2>3. Filing(t, next) /\ k.pc = "form" /\ UNCHANGED <<ticketRow, events, unrecorded>> BY <1>5 DEF CheckCategory
  <2> HIDE DEF next
  <2>4. QED BY <2>1, <2>2, <2>3, DraftGoesOn
<1>6. CASE CheckSubCategory(t)
  <2> DEFINE next == [k EXCEPT !.pc = IF \E r \in record[k.sub] : r.active /\ r.home = k.cat THEN "insert" ELSE "form"]
  <2>1. next \in DraftStates BY <1>1 DEF DraftStates
  <2>2. next.pc \in {"insert", "form"} /\ next.cat = k.cat /\ next.sub = k.sub /\ next.loc = k.loc BY <1>1 DEF DraftStates
  <2>3. Filing(t, next) /\ k.pc = "sub" /\ UNCHANGED <<ticketRow, events, unrecorded>> BY <1>6 DEF CheckSubCategory
  <2> HIDE DEF next
  <2>4. QED BY <2>1, <2>2, <2>3, DraftGoesOn
<1>7. CASE RecordFiled(t)
  <2> DEFINE next == [k EXCEPT !.pc = "done"]
  <2>1. next \in DraftStates BY <1>1 DEF DraftStates
  <2>2. next.pc = "done" /\ next.cat = k.cat /\ next.sub = k.sub /\ next.loc = k.loc BY <1>1 DEF DraftStates
  <2>3. /\ Filing(t, next) /\ k.pc = "record" /\ UNCHANGED ticketRow /\ events \subseteq events' /\ unrecorded \subseteq unrecorded'
        /\ t \in unrecorded' \/ [filing |-> t, sub |-> k.sub, faq |-> Void, type |-> "filed"] \in events'
    BY <1>7 DEF RecordFiled
  <2> HIDE DEF next
  <2>4. QED BY <2>1, <2>2, <2>3, DraftGoesOn
<1>8. QED BY <1>2, <1>3, <1>4, <1>5, <1>6, <1>7

LEMMA InsertTicketSound ==
  ASSUME MasterSound, NEW t \in Filings, InsertTicket(t)
  PROVE  MasterSound'
<1> DEFINE k == draft[t]
           connects == \A i \in {k.cat, k.sub, k.loc} : Exists(i)
           row == [cat |-> k.cat, sub |-> k.sub, loc |-> k.loc]
           next == [k EXCEPT !.pc = IF connects THEN "record" ELSE "form"]
<1>1. k \in DraftStates BY DEF MasterSound, MasterTyped
<1>2. next \in DraftStates BY <1>1 DEF DraftStates
<1>3. next.pc = (IF connects THEN "record" ELSE "form") /\ next.cat = k.cat /\ next.sub = k.sub /\ next.loc = k.loc
  BY <1>1 DEF DraftStates
<1>4. /\ k.pc = "insert" /\ Filing(t, next) /\ UNCHANGED <<events, unrecorded>>
      /\ ticketRow' = IF connects THEN [ticketRow EXCEPT ![t] = {row}] ELSE ticketRow
  BY DEF InsertTicket
<1>5. k.cat \in Cats /\ k.sub \in Subs /\ k.loc \in Locs /\ ParentOf[k.sub] = k.cat
  BY <1>4 DEF MasterSound, DraftsSound
<1>6. CASE ~connects
  <2>1. UNCHANGED ticketRow /\ next.pc = "form" BY <1>3, <1>4, <1>6
  <2> HIDE DEF next
  <2>2. QED BY <1>2, <1>3, <1>4, <2>1, DraftGoesOn
<1>7. CASE connects
  <2>1. next.pc = "record" BY <1>3, <1>7
  <2>2. row \in FiledRows BY <1>5 DEF FiledRows
  <2>3. Exists(k.cat) /\ Exists(k.sub) /\ Exists(k.loc) BY <1>7
  <2>4. ticketRow' = [ticketRow EXCEPT ![t] = {row}] BY <1>4, <1>7
  <2> HIDE DEF next, connects
  <2>5. /\ ticketRow' \in [Filings -> SUBSET FiledRows] /\ ticketRow'[t] = {row}
        /\ \A u \in Filings \ {t} : ticketRow'[u] = ticketRow[u]
    BY <2>2, <2>4 DEF MasterSound, MasterTyped
  <2>6. /\ draft' \in [Filings -> DraftStates] /\ draft'[t] = next
        /\ \A u \in Filings \ {t} : draft'[u] = draft[u]
    BY <1>2, <1>4 DEF MasterSound, MasterTyped, Filing
  <2>7. UNCHANGED <<record, unused, configured, desk, bereft, edits, events, unrecorded>>
    BY <1>4 DEF Filing, formVarsKept
  <2>8. MasterTyped' BY <2>5, <2>6, <2>7 DEF MasterSound, MasterTyped
  <2>9. RecordsSound' BY <2>7 DEF MasterSound, RecordsSound, Exists
  <2>10. TicketsSound'
    <3> SUFFICES ASSUME NEW u \in Filings, NEW x \in ticketRow'[u]
                 PROVE /\ \A i \in {x.cat, x.sub, x.loc} \ {Void} : Exists(i)'
                       /\ x.sub # Void => ParentOf[x.sub] = x.cat
      BY DEF TicketsSound
    <3>1. \A i : Exists(i)' = Exists(i) BY <2>7 DEF Exists
    <3>2. CASE u = t BY <3>1, <3>2, <2>3, <2>5, <1>5
    <3>3. CASE u # t BY <3>1, <3>3, <2>5 DEF MasterSound, TicketsSound
    <3>4. QED BY <3>2, <3>3
  <2>11. DesksSound'
    <3> SUFFICES ASSUME NEW d \in Desks PROVE (EditNamed(desk[d]) /\ CountHolds(desk[d]))' BY DEF DesksSound
    <3>1. EditNamed(desk[d])' BY <2>7 DEF MasterSound, DesksSound, EditNamed
    <3>2. desk' = desk BY <2>7
    <3>3. ASSUME desk[d].pc = "remove"
          PROVE  \A u \in desk[d].counted :
                   /\ draft'[u].pc \in {"record", "done"}
                   /\ \A x \in ticketRow'[u] : desk[d].item \notin {x.cat, x.sub, x.loc}
      <4>1. CountHolds(desk[d]) BY DEF MasterSound, DesksSound
      <4>2. desk[d].counted \subseteq Filings BY DEF MasterSound, MasterTyped, DeskStates
      <4>3. t \notin desk[d].counted BY <4>1, <3>3, <1>4 DEF CountHolds
      <4>4. QED BY <4>1, <4>2, <4>3, <3>3, <2>5, <2>6 DEF CountHolds
    <3>4. CountHolds(desk[d])' BY <3>2, <3>3 DEF CountHolds
    <3>5. QED BY <3>1, <3>4
  <2>12. DraftsSound' BY <2>1, <2>5, <2>6, <1>3, <1>5 DEF MasterSound, DraftsSound
  <2>13. FiledSound'
    <3> SUFFICES ASSUME NEW u \in Filings, draft'[u].pc = "done", u \notin unrecorded'
                 PROVE FiledEvent(u)' \in events' \/ (~Exists(draft[u].sub)' /\ draft'[u].sub \notin unused')
      BY DEF FiledSound
    <3>1. u # t /\ draft'[u] = draft[u] BY <2>1, <2>6
    <3>2. QED BY <3>1, <2>7 DEF MasterSound, FiledSound, FiledEvent, Exists
  <2>14. QED BY <2>7, <2>8, <2>9, <2>10, <2>11, <2>12, <2>13 DEF MasterSound
<1>8. QED BY <1>6, <1>7

LEMMA DropTicketSound ==
  ASSUME MasterSound, NEW t \in Filings, DropTicket(t)
  PROVE  MasterSound'
<1>1. draft' = draft /\ UNCHANGED <<record, unused, configured, desk, bereft, events, unrecorded>>
  BY DEF DropTicket, Filing, formVarsKept, MasterSound, MasterTyped
<1>2. /\ ticketRow' \in [Filings -> SUBSET FiledRows]
      /\ \A u \in Filings : ticketRow'[u] \subseteq ticketRow[u]
  BY DEF DropTicket, MasterSound, MasterTyped
<1>3. MasterTyped' BY <1>1, <1>2 DEF MasterSound, MasterTyped
<1>4. RecordsSound' BY <1>1 DEF MasterSound, RecordsSound, Exists
<1>5. TicketsSound' BY <1>1, <1>2 DEF MasterSound, TicketsSound, Exists
<1>6. DesksSound'
  <2> SUFFICES ASSUME NEW d \in Desks PROVE (EditNamed(desk[d]) /\ CountHolds(desk[d]))' BY DEF DesksSound
  <2>1. EditNamed(desk[d]) /\ CountHolds(desk[d]) BY DEF MasterSound, DesksSound
  <2>2. desk[d].counted \subseteq Filings BY DEF MasterSound, MasterTyped, DeskStates
  <2>3. QED BY <1>1, <1>2, <2>1, <2>2 DEF EditNamed, CountHolds
<1>7. DraftsSound' BY <1>1, <1>2 DEF MasterSound, DraftsSound
<1>8. FiledSound' BY <1>1 DEF MasterSound, FiledSound, FiledEvent, Exists
<1>9. QED BY <1>1, <1>3, <1>4, <1>5, <1>6, <1>7, <1>8 DEF MasterSound

LEMMA ConfigureSound ==
  ASSUME MasterSound, NEW c \in Cats, Configure(c)
  PROVE  MasterSound'
<1>1. UNCHANGED <<record, unused, ticketRow, desk, draft, events, bereft, unrecorded>> /\ configured' \subseteq Cats
  BY DEF Configure, MasterSound, MasterTyped
<1>2. MasterTyped' BY <1>1 DEF MasterSound, MasterTyped
<1>3. RecordsSound' /\ TicketsSound' BY <1>1, SameRows
<1>4. DesksSound' BY <1>1 DEF MasterSound, DesksSound, EditNamed, CountHolds
<1>5. DraftsSound' /\ FiledSound' BY <1>1 DEF MasterSound, DraftsSound, FiledSound, FiledEvent, Exists
<1>6. QED BY <1>1, <1>2, <1>3, <1>4, <1>5 DEF MasterSound

\* What a service decides, and what it rests on.
LEMMA DecisionMade ==
  ASSUME MasterSound, NEW q \in DeskStates, q.pc = "form", EditNamed(q)
  PROVE  /\ Decision(q) \in {"insert", "reactivate", "update", "deactivate", "remove", "refuse"}
         /\ Decision(q) = "reactivate" => Namesakes(q) # {}
         /\ Decision(q) \in {"update", "deactivate", "remove"} => q.item \in Items
         /\ Decision(q) = "remove" => TicketsOf(q.item) = {}
<1> USE KindsOf
<1>1. q.op \in {"create", "update", "delete"} /\ q.kind \in {"category", "sub", "location", "faq"}
  BY DEF DeskStates, EditNamed
<1>2. q.op # "create" => q.item \in KindSet[q.kind] BY DEF EditNamed
<1>3. CASE q.op = "create"
  <2>1. Decision(q) \in {CategoryCreate(q), SubCategoryCreate(q), LocationCreate(q), FaqCreate(q)}
    BY <1>1, <1>3 DEF Decision
  <2>2. CategoryCreate(q) \in {"insert", "reactivate", "refuse"} /\ (CategoryCreate(q) = "reactivate" => Namesakes(q) # {})
    BY DEF CategoryCreate
  <2>3. LocationCreate(q) = CategoryCreate(q) BY DEF LocationCreate
  <2>4. SubCategoryCreate(q) \in {"refuse", CategoryCreate(q)} BY DEF SubCategoryCreate
  <2>5. FaqCreate(q) \in {"insert", "refuse"} BY DEF FaqCreate
  <2>6. QED BY <2>1, <2>2, <2>3, <2>4, <2>5
<1>4. CASE q.op = "update"
  <2>1. Decision(q) \in {CategoryUpdate(q), SubCategoryUpdate(q), LocationUpdate(q), FaqUpdate(q)}
    BY <1>1, <1>4 DEF Decision
  <2>2. CategoryUpdate(q) \in {"update", "refuse"} /\ LocationUpdate(q) \in {"update", "refuse"}
    BY DEF CategoryUpdate, LocationUpdate
  <2>3. SubCategoryUpdate(q) \in {"update", "refuse"} BY DEF SubCategoryUpdate
  <2>4. FaqUpdate(q) \in {"update", "refuse"} BY DEF FaqUpdate
  <2>5. q.item \in Items BY <1>1, <1>2, <1>4
  <2>6. QED BY <2>1, <2>2, <2>3, <2>4, <2>5
<1>5. CASE q.op = "delete"
  <2>1. q.item \in KindSet[q.kind] /\ q.item \in Items BY <1>1, <1>2, <1>5
  <2>2. CASE q.kind = "category"
    BY <2>1, <2>2, <1>5 DEF Decision, CategoryDelete, CategoryInUse
  <2>3. CASE q.kind = "sub"
    BY <2>1, <2>3, <1>5 DEF Decision, SubCategoryDelete, SubCategoryInUse
  <2>4. CASE q.kind = "location"
    BY <2>1, <2>4, <1>5 DEF Decision, LocationDelete, LocationInUse
  <2>5. CASE q.kind = "faq"
    <3>1. q.item \in Faqs /\ q.item # Void BY <2>1, <2>5, MasterAssumption
    <3>2. \A t \in Filings : \A k \in ticketRow[t] : q.item \notin {k.cat, k.sub, k.loc}
      BY <3>1, KindsApart DEF MasterSound, MasterTyped, FiledRows
    <3>3. TicketsOf(q.item) = {} BY <3>2 DEF TicketsOf
    <3>4. QED BY <2>1, <2>5, <3>3, <1>5 DEF Decision, FaqRemove
  <2>6. QED BY <1>1, <2>2, <2>3, <2>4, <2>5
<1>6. QED BY <1>1, <1>3, <1>4, <1>5

LEMMA ReadEditSound ==
  ASSUME MasterSound, NEW d \in Desks, ReadEdit(d)
  PROVE  MasterSound'
<1> DEFINE q == desk[d]
           do == Decision(q)
           target == IF do = "reactivate" THEN CHOOSE j \in Namesakes(q) : TRUE ELSE q.item
           counted == {t \in Filings : ticketRow[t] # {}}
           read == [q EXCEPT !.pc = do, !.item = target, !.counted = counted]
<1>1. q \in DeskStates /\ EditNamed(q) /\ CountHolds(q) BY DEF MasterSound, MasterTyped, DesksSound
<1>2. /\ q.pc = "form"
      /\ UNCHANGED <<record, unused, configured, ticketRow, draft, events, bereft, unrecorded>>
      /\ \/ do # "refuse" /\ desk' = [desk EXCEPT ![d] = read]
         \/ desk' = [desk EXCEPT ![d] = Resting]
  BY DEF ReadEdit
<1>3. Resting \in DeskStates /\ Resting.pc = "idle" BY DEF Resting, DeskStates
<1>4. ASSUME do # "refuse"
      PROVE  /\ read \in DeskStates /\ read.pc = do /\ read.item = target /\ read.counted = counted
             /\ do # "form" /\ (do \in {"reactivate", "update", "deactivate", "remove"} => target \in Items)
             /\ do = "remove" => \A t \in Filings : \A k \in ticketRow[t] : target \notin {k.cat, k.sub, k.loc}
  <2>1. /\ do \in {"insert", "reactivate", "update", "deactivate", "remove"}
        /\ do = "reactivate" => Namesakes(q) # {}
        /\ do \in {"update", "deactivate", "remove"} => q.item \in Items
        /\ do = "remove" => TicketsOf(q.item) = {}
    BY <1>1, <1>2, <1>4, DecisionMade
  <2>2. Namesakes(q) \subseteq Items BY <1>1, KindsOf DEF Namesakes, DeskStates
  <2>3. target \in Items \cup {Void} /\ (do \in {"reactivate", "update", "deactivate", "remove"} => target \in Items)
    <3>1. CASE do = "reactivate"
      <4>1. (CHOOSE j \in Namesakes(q) : TRUE) \in Namesakes(q) BY <2>1, <3>1
      <4>2. QED BY <3>1, <4>1, <2>2
    <3>2. CASE do # "reactivate"
      <4>1. target = q.item BY <3>2
      <4>2. q.item \in Items \cup {Void} BY <1>1 DEF DeskStates
      <4>3. QED BY <4>1, <4>2, <2>1, <3>2
    <3>3. QED BY <3>1, <3>2
  <2>4. do = "remove" => target = q.item OBVIOUS
  <2>5. do = "remove" => \A t \in Filings : \A k \in ticketRow[t] : target \notin {k.cat, k.sub, k.loc}
    BY <2>1, <2>4 DEF TicketsOf
  <2>6. counted \in SUBSET Filings OBVIOUS
  <2> HIDE DEF do, target, counted
  <2>7. read \in DeskStates BY <1>1, <2>1, <2>3, <2>6 DEF DeskStates
  <2>8. read.pc = do /\ read.item = target /\ read.counted = counted BY <1>1 DEF DeskStates
  <2>9. QED BY <2>1, <2>3, <2>7, <2>8, <2>5
<1>5. \A t \in counted : draft[t].pc \in {"record", "done"}
  BY DEF MasterSound, DraftsSound
<1> HIDE DEF do, target, counted, read
<1>6. desk' \in [Desks -> DeskStates] /\ \A e \in Desks \ {d} : desk'[e] = desk[e]
  BY <1>2, <1>3, <1>4 DEF MasterSound, MasterTyped
<1>7. MasterTyped' BY <1>2, <1>6 DEF MasterSound, MasterTyped
<1>8. RecordsSound' /\ TicketsSound' BY <1>2, SameRows
<1>9. DesksSound'
  <2> SUFFICES ASSUME NEW e \in Desks PROVE (EditNamed(desk[e]) /\ CountHolds(desk[e]))' BY DEF DesksSound
  <2>1. CASE e # d
    <3>1. desk'[e] = desk[e] BY <2>1, <1>6
    <3>2. EditNamed(desk[e]) /\ CountHolds(desk[e]) BY DEF MasterSound, DesksSound
    <3>3. QED BY <3>1, <3>2, <1>2 DEF EditNamed, CountHolds
  <2>2. CASE e = d /\ desk'[d] = Resting
    BY <2>2, <1>3 DEF EditNamed, CountHolds
  <2>3. CASE e = d /\ do # "refuse" /\ desk'[d] = read
    <3>1. desk'[e] = read BY <2>3
    <3>2. EditNamed(desk[e])' BY <3>1, <1>4, <2>3 DEF EditNamed
    <3>3. ASSUME read.pc = "remove"
          PROVE  \A t \in read.counted :
                   /\ draft[t].pc \in {"record", "done"}
                   /\ \A k \in ticketRow[t] : read.item \notin {k.cat, k.sub, k.loc}
      <4>1. read.counted = counted /\ read.item = target /\ do = "remove" BY <3>3, <2>3, <1>4
      <4>2. counted \subseteq Filings BY DEF counted
      <4>3. QED BY <4>1, <4>2, <2>3, <1>4, <1>5
    <3>4. CountHolds(desk[e])' BY <3>1, <3>3, <1>2 DEF CountHolds
    <3>5. QED BY <3>2, <3>4
  <2>4. QED BY <2>1, <2>2, <2>3, <1>2 DEF MasterSound, MasterTyped
<1>10. DraftsSound' /\ FiledSound' BY <1>2 DEF MasterSound, DraftsSound, FiledSound, FiledEvent, Exists
<1>11. QED BY <1>2, <1>7, <1>8, <1>9, <1>10 DEF MasterSound

\* An edit that is over, whatever it did to the rows: the others go on.
LEMMA EditOver ==
  ASSUME MasterSound, NEW d \in Desks, Done(d),
         \A t \in Filings : \A k \in ticketRow'[t] : \E x \in ticketRow[t] :
           k.cat = x.cat /\ k.sub \in {x.sub, Void} /\ k.loc \in {x.loc, Void}
  PROVE  desk' \in [Desks -> DeskStates] /\ DesksSound'
<1>1. desk' = [desk EXCEPT ![d] = Resting] /\ draft' = draft BY DEF Done
<1>2. Resting \in DeskStates /\ Resting.pc = "idle" BY DEF Resting, DeskStates
<1>3. desk' \in [Desks -> DeskStates] BY <1>1, <1>2 DEF MasterSound, MasterTyped
<1>4. DesksSound'
  <2> SUFFICES ASSUME NEW e \in Desks PROVE (EditNamed(desk[e]) /\ CountHolds(desk[e]))' BY DEF DesksSound
  <2>1. CASE e = d BY <2>1, <1>1, <1>2 DEF EditNamed, CountHolds, MasterSound, MasterTyped
  <2>2. CASE e # d
    <3>1. desk'[e] = desk[e] BY <2>2, <1>1 DEF MasterSound, MasterTyped
    <3>2. EditNamed(desk[e]) /\ CountHolds(desk[e]) BY DEF MasterSound, DesksSound
    <3>3. desk[e].counted \subseteq Filings BY DEF MasterSound, MasterTyped, DeskStates
    <3>4. EditNamed(desk[e])' BY <3>1, <3>2 DEF EditNamed
    <3>5. ASSUME desk[e].pc = "remove", NEW t \in desk[e].counted, NEW k \in ticketRow'[t]
          PROVE  desk[e].item \notin {k.cat, k.sub, k.loc}
      <4>1. PICK x \in ticketRow[t] : k.cat = x.cat /\ k.sub \in {x.sub, Void} /\ k.loc \in {x.loc, Void}
        BY <3>3
      <4>2. desk[e].item # Void BY <3>2, <3>5, MasterAssumption DEF EditNamed
      <4>3. desk[e].item \notin {x.cat, x.sub, x.loc} BY <3>2, <3>5 DEF CountHolds
      <4>4. QED BY <4>1, <4>2, <4>3
    <3>6. desk[e].pc = "remove" => \A t \in desk[e].counted : draft'[t].pc \in {"record", "done"}
      BY <3>2, <1>1 DEF CountHolds
    <3>7. CountHolds(desk[e])' BY <3>1, <3>5, <3>6 DEF CountHolds
    <3>8. QED BY <3>4, <3>7
  <2>3. QED BY <2>1, <2>2
<1>5. QED BY <1>3, <1>4

LEMMA InsertRowSound ==
  ASSUME MasterSound, NEW d \in Desks, InsertRow(d)
  PROVE  MasterSound'
<1> DEFINE q == desk[d]
           r == [name |-> q.name, active |-> q.active # FALSE, home |-> q.home]
<1>1. q \in DeskStates BY DEF MasterSound, MasterTyped
<1>2. /\ Done(d) /\ UNCHANGED <<ticketRow, events, bereft>>
      /\ \/ UNCHANGED <<record, unused>>
         \/ \E i \in unused : /\ record' = [record EXCEPT ![i] = {r}] /\ unused' = unused \ {i}
                              /\ q.home = Void \/ Exists(q.home)
  BY DEF InsertRow
<1>3. UNCHANGED <<configured, draft, unrecorded>> BY <1>2 DEF Done
<1>4. desk' \in [Desks -> DeskStates] /\ DesksSound' BY <1>2, EditOver
<1>5. draft' = draft /\ unrecorded' = unrecorded /\ events' = events BY <1>2, <1>3
<1>6. CASE UNCHANGED <<record, unused>>
  <2>1. MasterTyped' BY <1>2, <1>3, <1>4, <1>6 DEF MasterSound, MasterTyped
  <2>2. RecordsSound' /\ TicketsSound' BY <1>2, <1>6, SameRows
  <2>3. DraftsSound' /\ FiledSound'
    BY <1>2, <1>3, <1>6 DEF MasterSound, DraftsSound, FiledSound, FiledEvent, Exists
  <2>4. QED BY <1>2, <1>4, <2>1, <2>2, <2>3 DEF MasterSound
<1>7. ASSUME NEW i \in unused, record' = [record EXCEPT ![i] = {r}], unused' = unused \ {i},
             q.home = Void \/ Exists(q.home)
      PROVE  MasterSound'
  <2>1. r \in MasterRows BY <1>1 DEF MasterRows, DeskStates
  <2>2. r.home = q.home OBVIOUS
  <2> HIDE DEF r
  <2>3. i \in Items BY DEF MasterSound, MasterTyped
  <2>4. /\ record' \in [Items -> SUBSET MasterRows] /\ record'[i] = {r}
        /\ \A j \in Items \ {i} : record'[j] = record[j]
    BY <1>7, <2>1, <2>3 DEF MasterSound, MasterTyped
  <2>5. MasterTyped' BY <1>2, <1>3, <1>4, <1>7, <2>4 DEF MasterSound, MasterTyped
  <2>6. \A j \in Items : Exists(j) => Exists(j)' BY <2>4 DEF Exists
  <2>7. RecordsSound'
    <3>1. \A j \in unused' : record'[j] = {} BY <1>7, <2>3, <2>4 DEF MasterSound, RecordsSound, MasterTyped
    <3>2. ASSUME NEW j \in Items, NEW x \in record'[j], x.home # Void PROVE Exists(x.home)'
      <4>1. x \in MasterRows BY <2>4
      <4>2. x.home \in Items BY <4>1, <3>2 DEF MasterRows
      <4>3. Exists(x.home)
        <5>1. CASE j = i BY <5>1, <2>2, <2>4, <3>2, <1>7
        <5>2. CASE j # i BY <5>2, <2>4, <3>2 DEF MasterSound, RecordsSound
        <5>3. QED BY <5>1, <5>2
      <4>4. QED BY <4>2, <4>3, <2>6
    <3>3. QED BY <3>1, <3>2 DEF RecordsSound
  <2>8. TicketsSound'
    <3> SUFFICES ASSUME NEW t \in Filings, NEW k \in ticketRow'[t]
                 PROVE /\ \A j \in {k.cat, k.sub, k.loc} \ {Void} : Exists(j)'
                       /\ k.sub # Void => ParentOf[k.sub] = k.cat
      BY DEF TicketsSound
    <3>1. k \in ticketRow[t] /\ k \in FiledRows BY <1>2 DEF MasterSound, MasterTyped
    <3>2. {k.cat, k.sub, k.loc} \ {Void} \subseteq Items BY <3>1, KindsOf DEF FiledRows
    <3>3. QED BY <3>1, <3>2, <2>6 DEF MasterSound, TicketsSound
  <2>9. DraftsSound' BY <1>2, <1>3 DEF MasterSound, DraftsSound
  <2>10. FiledSound'
    <3> SUFFICES ASSUME NEW t \in Filings, draft[t].pc = "done", t \notin unrecorded, FiledEvent(t) \notin events
                 PROVE ~Exists(draft[t].sub)' /\ draft[t].sub \notin unused'
      BY <1>2, <1>3 DEF FiledSound, FiledEvent
    <3>1. ~Exists(draft[t].sub) /\ draft[t].sub \notin unused BY DEF MasterSound, FiledSound
    <3>2. draft[t].sub \in Items BY KindsOf DEF MasterSound, DraftsSound
    <3>3. QED BY <3>1, <3>2, <2>4, <1>5, <1>7 DEF Exists
  <2>11. QED BY <1>2, <1>4, <2>5, <2>7, <2>8, <2>9, <2>10 DEF MasterSound
<1>8. QED BY <1>2, <1>6, <1>7

LEMMA UpdateRowSound ==
  ASSUME MasterSound, NEW d \in Desks, UpdateRow(d)
  PROVE  MasterSound'
<1> DEFINE q == desk[d]
           to(r) == CASE q.pc = "reactivate" -> [r EXCEPT !.active = TRUE]
                      [] q.pc = "deactivate" -> [r EXCEPT !.active = FALSE]
                      [] q.pc = "update" -> [name |-> IF q.name = Void THEN r.name ELSE q.name,
                                             active |-> IF q.active = Void THEN r.active ELSE q.active,
                                             home |-> IF q.home = Void THEN r.home ELSE q.home]
           new == {to(r) : r \in record[q.item]}
           valid == \A r \in new : Unique(q.item, r, q.kind) /\ (r.home # Void => Exists(r.home))
<1>1. q \in DeskStates BY DEF MasterSound, MasterTyped
<1>2. /\ q.pc \in {"reactivate", "deactivate", "update"} /\ Done(d) /\ UNCHANGED <<unused, ticketRow, events, bereft>>
      /\ record' = IF valid THEN [record EXCEPT ![q.item] = new] ELSE record
  BY DEF UpdateRow
<1>3. q.item \in Items BY <1>2 DEF MasterSound, DesksSound, EditNamed
<1>4. \A r \in MasterRows : to(r) \in MasterRows
  BY <1>1, <1>2 DEF DeskStates, MasterRows
<1>5. record[q.item] \subseteq MasterRows BY <1>3 DEF MasterSound, MasterTyped
<1>6. new \subseteq MasterRows /\ (new = {} <=> record[q.item] = {}) BY <1>4, <1>5
<1>7. valid => \A r \in new : r.home # Void => Exists(r.home) OBVIOUS
<1> HIDE DEF to, new, valid
<1>8. UNCHANGED <<configured, draft, unrecorded>> BY <1>2 DEF Done
<1>9. draft' = draft /\ unrecorded' = unrecorded /\ events' = events BY <1>2, <1>8
<1>10. desk' \in [Desks -> DeskStates] /\ DesksSound' BY <1>2, EditOver
<1>11. record' \in [Items -> SUBSET MasterRows] /\ \A j \in Items \ {q.item} : record'[j] = record[j]
  BY <1>2, <1>3, <1>6 DEF MasterSound, MasterTyped
<1>12. record'[q.item] = record[q.item] \/ (valid /\ record'[q.item] = new)
  BY <1>2, <1>3 DEF MasterSound, MasterTyped
<1>13. \A j \in Items : Exists(j)' <=> Exists(j)
  BY <1>6, <1>11, <1>12 DEF Exists
<1>14. MasterTyped' BY <1>2, <1>8, <1>10, <1>11 DEF MasterSound, MasterTyped
<1>15. RecordsSound'
  <2>1. \A j \in unused' : record'[j] = {}
    <3> SUFFICES ASSUME NEW j \in unused PROVE record'[j] = {} BY <1>2
    <3>1. j \in Items /\ record[j] = {} BY DEF MasterSound, MasterTyped, RecordsSound
    <3>2. QED BY <3>1, <1>13 DEF Exists
  <2>2. ASSUME NEW j \in Items, NEW x \in record'[j], x.home # Void PROVE Exists(x.home)'
    <3>1. x \in MasterRows BY <1>11
    <3>2. x.home \in Items BY <3>1, <2>2 DEF MasterRows
    <3>3. Exists(x.home)
      <4>1. CASE x \in record[j] BY <4>1, <2>2 DEF MasterSound, RecordsSound
      <4>2. CASE valid /\ x \in new BY <4>2, <2>2, <1>7
      <4>3. QED BY <4>1, <4>2, <1>11, <1>12
    <3>4. QED BY <3>2, <3>3, <1>13
  <2>3. QED BY <2>1, <2>2 DEF RecordsSound
<1>16. TicketsSound'
  <2> SUFFICES ASSUME NEW t \in Filings, NEW k \in ticketRow'[t]
               PROVE /\ \A j \in {k.cat, k.sub, k.loc} \ {Void} : Exists(j)'
                     /\ k.sub # Void => ParentOf[k.sub] = k.cat
    BY DEF TicketsSound
  <2>1. k \in ticketRow[t] /\ k \in FiledRows BY <1>2 DEF MasterSound, MasterTyped
  <2>2. {k.cat, k.sub, k.loc} \ {Void} \subseteq Items BY <2>1, KindsOf DEF FiledRows
  <2>3. QED BY <2>1, <2>2, <1>13 DEF MasterSound, TicketsSound
<1>17. DraftsSound' BY <1>2, <1>8 DEF MasterSound, DraftsSound
<1>18. FiledSound'
  <2> SUFFICES ASSUME NEW t \in Filings, draft[t].pc = "done", t \notin unrecorded, FiledEvent(t) \notin events
               PROVE ~Exists(draft[t].sub)' /\ draft[t].sub \notin unused'
    BY <1>2, <1>8 DEF FiledSound, FiledEvent
  <2>1. ~Exists(draft[t].sub) /\ draft[t].sub \notin unused BY DEF MasterSound, FiledSound
  <2>2. draft[t].sub \in Items BY KindsOf DEF MasterSound, DraftsSound
  <2>3. QED BY <2>1, <2>2, <1>9, <1>13, <1>2
<1>19. QED BY <1>2, <1>10, <1>14, <1>15, <1>16, <1>17, <1>18 DEF MasterSound

LEMMA RemoveRowSound ==
  ASSUME MasterSound, NEW d \in Desks, RemoveRow(d)
  PROVE  MasterSound'
<1> DEFINE q == desk[d]
           i == q.item
           held == ChildrenOf(i) # {} \/ (i \in Cats /\ CategoryInUse(i))
           keep(x) == IF x = i THEN Void ELSE x
           left(k) == [cat |-> k.cat, sub |-> keep(k.sub), loc |-> keep(k.loc)]
<1>1. q \in DeskStates /\ EditNamed(q) /\ CountHolds(q) BY DEF MasterSound, MasterTyped, DesksSound
<1>2. /\ q.pc = "remove" /\ Done(d) /\ UNCHANGED unused
      /\ \/ UNCHANGED <<record, ticketRow, events, bereft>>
         \/ /\ ~held /\ Exists(i)
            /\ record' = [record EXCEPT ![i] = {}]
            /\ ticketRow' = [t \in Filings |-> {left(k) : k \in ticketRow[t]}]
            /\ events' = {e \in events : e.sub # i}
            /\ bereft' = bereft \cup (TicketsOf(i) \cap q.counted)
  BY DEF RemoveRow
<1>3. draft' = draft /\ unrecorded' = unrecorded /\ UNCHANGED configured BY <1>2 DEF Done
<1>4. i \in Items BY <1>1, <1>2 DEF EditNamed
<1>5. CASE UNCHANGED <<record, ticketRow, events, bereft>>
  <2>1. \A t \in Filings : \A k \in ticketRow'[t] : \E x \in ticketRow[t] :
          k.cat = x.cat /\ k.sub \in {x.sub, Void} /\ k.loc \in {x.loc, Void}
    BY <1>5
  <2>2. desk' \in [Desks -> DeskStates] /\ DesksSound' BY <1>2, <2>1, EditOver
  <2>3. MasterTyped' BY <1>2, <1>3, <1>5, <2>2 DEF MasterSound, MasterTyped
  <2>4. RecordsSound' /\ TicketsSound' BY <1>2, <1>5, SameRows
  <2>5. DraftsSound' /\ FiledSound'
    BY <1>2, <1>3, <1>5 DEF MasterSound, DraftsSound, FiledSound, FiledEvent, Exists
  <2>6. QED BY <1>5, <2>2, <2>3, <2>4, <2>5 DEF MasterSound
<1>6. ASSUME ~held, Exists(i), record' = [record EXCEPT ![i] = {}],
             ticketRow' = [t \in Filings |-> {left(k) : k \in ticketRow[t]}],
             events' = {e \in events : e.sub # i}, bereft' = bereft \cup (TicketsOf(i) \cap q.counted)
      PROVE  MasterSound'
  <2>1. \A t \in Filings : ticketRow[t] \subseteq FiledRows BY DEF MasterSound, MasterTyped
  <2>2. \A x : keep(x) \in {x, Void} /\ (keep(x) # Void => keep(x) = x /\ x # i) OBVIOUS
  <2> HIDE DEF keep
  <2>3. \A t \in Filings : \A k \in ticketRow'[t] : \E x \in ticketRow[t] :
          /\ x \in FiledRows /\ k = [cat |-> x.cat, sub |-> keep(x.sub), loc |-> keep(x.loc)]
    <3> SUFFICES ASSUME NEW t \in Filings, NEW k \in ticketRow'[t]
                 PROVE \E x \in ticketRow[t] :
                         /\ x \in FiledRows /\ k = [cat |-> x.cat, sub |-> keep(x.sub), loc |-> keep(x.loc)]
      OBVIOUS
    <3>1. k \in {left(x) : x \in ticketRow[t]} BY <1>6
    <3>2. PICK x \in ticketRow[t] : k = left(x) BY <3>1
    <3>3. x \in FiledRows BY <2>1
    <3>4. QED BY <3>2, <3>3
  <2>4. ChildrenOf(i) = {} /\ (i \in Cats => ~CategoryInUse(i)) BY <1>6
  <2>5. \A e : e \in events' <=> e \in events /\ e.sub # i BY <1>6
  <2> HIDE DEF left, held
  <2>6. \A t \in Filings : \A k \in ticketRow'[t] : \E x \in ticketRow[t] :
          /\ x \in FiledRows /\ k.cat = x.cat
          /\ k.sub = keep(x.sub) /\ k.loc = keep(x.loc)
    BY <2>3
  <2>7. desk' \in [Desks -> DeskStates] /\ DesksSound'
    <3>1. \A t \in Filings : \A k \in ticketRow'[t] : \E x \in ticketRow[t] :
            k.cat = x.cat /\ k.sub \in {x.sub, Void} /\ k.loc \in {x.loc, Void}
      BY <2>2, <2>6
    <3>2. QED BY <1>2, <3>1, EditOver
  <2>8. /\ record' \in [Items -> SUBSET MasterRows] /\ record'[i] = {}
        /\ \A j \in Items \ {i} : record'[j] = record[j]
    BY <1>4, <1>6 DEF MasterSound, MasterTyped
  <2>9. ticketRow' \in [Filings -> SUBSET FiledRows]
    <3>1. \A x \in FiledRows : [cat |-> x.cat, sub |-> keep(x.sub), loc |-> keep(x.loc)] \in FiledRows
      BY <2>2 DEF FiledRows
    <3>2. \A t \in Filings : ticketRow'[t] \subseteq FiledRows BY <2>3, <3>1
    <3>3. \E f : ticketRow' = [t \in Filings |-> f[t]]
      <4> DEFINE f == [t \in Filings |-> {left(k) : k \in ticketRow[t]}]
      <4>1. ticketRow' = [t \in Filings |-> f[t]] BY <1>6
      <4>2. QED BY <4>1
    <3>4. QED BY <3>2, <3>3
  <2>10. MasterTyped' BY <1>2, <1>3, <2>7, <2>8, <2>9 DEF MasterSound, MasterTyped
  <2>11. \A j \in Items \ {i} : Exists(j) => Exists(j)' BY <2>8 DEF Exists
  <2>12. RecordsSound'
    <3>1. \A j \in unused' : record'[j] = {} BY <1>2, <2>8 DEF MasterSound, MasterTyped, RecordsSound
    <3>2. ASSUME NEW j \in Items, NEW x \in record'[j], x.home # Void PROVE Exists(x.home)'
      <4>1. j # i /\ x \in record[j] BY <2>8, <3>2
      <4>2. x.home # i BY <2>4, <4>1 DEF ChildrenOf
      <4>3. x.home \in Items BY <3>2, <2>8 DEF MasterRows
      <4>4. Exists(x.home) BY <4>1, <3>2 DEF MasterSound, RecordsSound
      <4>5. QED BY <4>2, <4>3, <4>4, <2>11
    <3>3. QED BY <3>1, <3>2 DEF RecordsSound
  <2>13. TicketsSound'
    <3> SUFFICES ASSUME NEW t \in Filings, NEW k \in ticketRow'[t]
                 PROVE /\ \A j \in {k.cat, k.sub, k.loc} \ {Void} : Exists(j)'
                       /\ k.sub # Void => ParentOf[k.sub] = k.cat
      BY DEF TicketsSound
    <3>1. PICK x \in ticketRow[t] : /\ x \in FiledRows /\ k.cat = x.cat
                                    /\ k.sub = keep(x.sub) /\ k.loc = keep(x.loc)
      BY <2>6
    <3>2. /\ \A j \in {x.cat, x.sub, x.loc} \ {Void} : Exists(j)
          /\ x.sub # Void => ParentOf[x.sub] = x.cat
      BY <3>1 DEF MasterSound, TicketsSound
    <3>3. x.cat \in Cats /\ x.sub \in Subs \cup {Void} /\ x.loc \in Locs \cup {Void} BY <3>1 DEF FiledRows
    <3>4. x.cat # i
      <4>1. i \in Cats => TicketsOf(i) = {} BY <2>4 DEF CategoryInUse
      <4>2. QED BY <3>3, <4>1 DEF TicketsOf
    <3>5. k.cat \in Items \ {i} /\ Exists(k.cat) BY <3>1, <3>2, <3>3, <3>4, KindsOf, MasterAssumption
    <3>6. k.sub # Void => k.sub \in Items \ {i} /\ Exists(k.sub) /\ ParentOf[k.sub] = k.cat
      BY <3>1, <3>2, <3>3, <2>2, KindsOf
    <3>7. k.loc # Void => k.loc \in Items \ {i} /\ Exists(k.loc)
      BY <3>1, <3>2, <3>3, <2>2, KindsOf
    <3>8. QED BY <3>5, <3>6, <3>7, <2>11
  <2>14. DraftsSound'
    <3>1. \A t \in Filings : ticketRow'[t] # {} => ticketRow[t] # {} BY <2>3
    <3>2. QED BY <3>1, <1>3 DEF MasterSound, DraftsSound
  <2>15. FiledSound'
    <3> SUFFICES ASSUME NEW t \in Filings, draft[t].pc = "done", t \notin unrecorded, FiledEvent(t) \notin events'
                 PROVE ~Exists(draft[t].sub)' /\ draft[t].sub \notin unused'
      BY <1>3 DEF FiledSound, FiledEvent
    <3>1. draft[t].sub \in Items BY KindsOf DEF MasterSound, DraftsSound
    <3>2. FiledEvent(t) \notin events \/ draft[t].sub = i BY <2>5 DEF FiledEvent
    <3>3. CASE FiledEvent(t) \notin events
      <4>1. ~Exists(draft[t].sub) /\ draft[t].sub \notin unused BY <3>3 DEF MasterSound, FiledSound
      <4>2. QED BY <4>1, <3>1, <2>8, <1>2, <1>3 DEF Exists
    <3>4. CASE draft[t].sub = i
      <4>1. i \notin unused BY <1>6 DEF MasterSound, RecordsSound, Exists
      <4>2. QED BY <4>1, <3>4, <2>8, <1>2, <1>3 DEF Exists
    <3>5. QED BY <3>2, <3>3, <3>4
  <2>16. bereft' = {}
    <3>1. \A t \in Filings \cap q.counted : t \notin TicketsOf(i)
      BY <1>1, <1>2 DEF CountHolds, TicketsOf
    <3>2. TicketsOf(i) \subseteq Filings BY DEF TicketsOf
    <3>3. QED BY <3>1, <3>2, <1>6 DEF MasterSound
  <2>17. QED BY <2>7, <2>10, <2>12, <2>13, <2>14, <2>15, <2>16 DEF MasterSound
<1>7. QED BY <1>2, <1>5, <1>6

LEMMA MasterSteps == MasterSound /\ [MasterNext]_masterVars => MasterSound'
<1> SUFFICES ASSUME MasterSound, [MasterNext]_masterVars PROVE MasterSound' OBVIOUS
<1>1. CASE UNCHANGED masterVars
  BY <1>1 DEF masterVars, MasterSound, MasterTyped, RecordsSound, TicketsSound, DesksSound, EditNamed, CountHolds,
              DraftsSound, FiledSound, FiledEvent, Exists
<1>2. ASSUME NEW d \in Desks, OpenEdit(d) \/ ReadEdit(d) \/ InsertRow(d) \/ UpdateRow(d) \/ RemoveRow(d)
      PROVE  MasterSound'
  BY <1>2, OpenEditSound, ReadEditSound, InsertRowSound, UpdateRowSound, RemoveRowSound
<1>3. ASSUME NEW t \in Filings,
             \/ \E c \in Cats, s \in Subs, l \in Locs : Pick(t, c, s, l)
             \/ Recommend(t) \/ RecordShown(t)
             \/ \E f \in Faqs : RecordResolved(t, f)
             \/ CheckCategory(t) \/ CheckSubCategory(t) \/ InsertTicket(t) \/ RecordFiled(t) \/ DropTicket(t)
      PROVE  MasterSound'
  BY <1>3, PickSound, FormStepSound, InsertTicketSound, DropTicketSound
<1>4. QED BY <1>1, <1>2, <1>3, ConfigureSound DEF MasterNext

LEMMA MasterHolds == MasterSound => MasterDataSound
<1> SUFFICES ASSUME MasterSound PROVE MasterDataSound OBVIOUS
<1>1. ASSUME NEW t \in Filings, draft[t].pc = "done", t \notin unrecorded, Exists(draft[t].sub)
      PROVE  /\ ~Deflected(t) /\ t \notin DeflectedIn(draft[t].sub)
             /\ \A f \in Faqs : t \notin ResolvedBy(f)
  <2>1. FiledEvent(t) \in events BY <1>1 DEF MasterSound, FiledSound
  <2>2. /\ FiledEvent(t).filing = t /\ FiledEvent(t).sub = draft[t].sub /\ FiledEvent(t).type = "filed"
    BY DEF FiledEvent
  <2>3. QED BY <2>1, <2>2 DEF Deflected, DeflectedIn, ResolvedBy, Has, HasIn
<1>2. QED BY <1>1 DEF MasterSound, MasterDataSound, RecordsSound, TicketsSound

\* The inductive invariant of the master data.
THEOREM MasterSoundness == MasterSpec => []MasterSound
BY MasterStarts, MasterSteps, PTL DEF MasterSpec

\* However the screens, the services and the filings interleave between their checks and
\* their writes, the rows, the tickets and the self-service figures stay sound.
THEOREM MasterDataCorrect == MasterSpec => []MasterDataSound
<1>1. MasterSound => MasterDataSound BY MasterHolds
<1>2. QED BY <1>1, MasterSoundness, PTL

-------------------------------------------------------------------------------
(* The Telegram settings, and the messages of an event.                      *)

FormStates == [open : BOOLEAN, fields : Profiles, initial : Profiles, typed : Groups \cup {Absent}]
SaveStates == [pc : {"none", "merge", "answer"}, no : Nat, fields : Profiles, typed : Groups \cup {Absent},
               kept : Groups \cup {Absent}]
DispatchStates == [pc : {"none", "settings", "group", "users", "each", "done"}, event : Heard, profile : Profiles,
                   groupId : Groups \cup {Absent}, queue : SUBSET Linkable, audience : SUBSET Linkable]

\* Every variable is of its type throughout.
OutboxTyped ==
  /\ settings \in [profile : Profiles, groupId : Groups \cup {Absent}]
  /\ hasToken \in BOOLEAN
  /\ cachedProfile \in [Forms -> SUBSET Profiles]
  /\ form \in [Forms -> FormStates]
  /\ save \in [Forms -> SaveStates]
  /\ saves \in Nat /\ \A o \in orphans : o \in SaveStates /\ o.pc = "merge"
  /\ estranged \subseteq Forms /\ chatsLinked \subseteq Linkable
  /\ dispatch \in [Dispatches -> DispatchStates]
  /\ delivered \in [Dispatches -> [Groups \cup Linkable -> Nat]]

\* The baseline of a form nobody has overtaken is the settings in force, and what it is
\* saving will be.
FormSound(f) ==
  /\ save[f].pc # "none" => form[f].open
  /\ (f \notin estranged /\ form[f].open /\ save[f].pc # "answer") => form[f].initial = settings.profile
  /\ (f \notin estranged /\ save[f].pc = "answer") => save[f].fields = settings.profile
FormsSound == \A f \in Forms : FormSound(f)

\* How often a chat has been written to: once as the group of the event, once as one of
\* the audience that has had its turn.
Turns(q, x) == (IF x = q.groupId /\ x \in Groups THEN 1 ELSE 0) + (IF x \in q.audience \ q.queue THEN 1 ELSE 0)

\* What dispatch q of an event has sent, n[x] times to x.
SentSound(q, n) ==
  /\ q.pc \in {"none", "settings", "group"} => \A x \in Groups \cup Linkable : n[x] = 0
  /\ q.pc \in {"none", "settings", "group", "users"} => q.audience = {} /\ q.queue = {}
  /\ q.pc = "group" => q.groupId \in Groups
  /\ q.pc \in {"group", "users", "each"} => q.event \in TelegramEvents
  /\ q.queue \subseteq q.audience
  /\ \A x \in Groups \cup Linkable : n[x] <= Turns(q, x) /\ (n[x] > 0 => q.event \in TelegramEvents)
  /\ (/\ q.pc \in {"users", "each"} \/ \E x \in Linkable \ Groups : n[x] > 0
      /\ \E g \in Groups \ Linkable : n[g] > 0) => q.profile.individuals
DispatchesSound == \A d \in Dispatches : SentSound(dispatch[d], delivered[d])

OutboxSound == OutboxTyped /\ FormsSound /\ DispatchesSound

\* The values records begin with.
LEMMA Blank ==
  ASSUME Profiles # {}
  PROVE  /\ ClosedForm \in FormStates /\ ~ClosedForm.open
         /\ NoSave \in SaveStates /\ NoSave.pc = "none"
         /\ Undispatched \in DispatchStates /\ Undispatched.pc = "none"
         /\ Undispatched.audience = {} /\ Undispatched.queue = {} /\ Undispatched.groupId = Absent
<1> DEFINE p == CHOOSE p \in Profiles : TRUE
<1>1. p \in Profiles OBVIOUS
<1> HIDE DEF p
<1>2. ClosedForm = [open |-> FALSE, fields |-> p, initial |-> p, typed |-> Absent]
  BY DEF ClosedForm, p
<1>3. NoSave = [pc |-> "none", no |-> 0, fields |-> p, typed |-> Absent, kept |-> Absent]
  BY DEF NoSave, p
<1>4. Undispatched = [pc |-> "none", event |-> "ticket.created", profile |-> p, groupId |-> Absent,
                      queue |-> {}, audience |-> {}]
  BY DEF Undispatched, p
<1>5. ClosedForm \in FormStates BY <1>1, <1>2 DEF FormStates
<1>6. NoSave \in SaveStates BY <1>1, <1>3 DEF SaveStates
<1>7. Undispatched \in DispatchStates BY <1>1, <1>4 DEF DispatchStates, Heard, TelegramEvents
<1>8. QED BY <1>2, <1>3, <1>4, <1>5, <1>6, <1>7

LEMMA OutboxStarts == OutboxInit => OutboxSound
<1> SUFFICES ASSUME OutboxInit PROVE OutboxSound OBVIOUS
<1> USE DEF OutboxInit
<1>1. Profiles # {} OBVIOUS
<1>2. OutboxTyped BY <1>1, Blank DEF OutboxTyped
<1>3. FormsSound BY <1>1, Blank DEF FormsSound, FormSound
<1>4. DispatchesSound
  <2> SUFFICES ASSUME NEW d \in Dispatches PROVE SentSound(dispatch[d], delivered[d]) BY DEF DispatchesSound
  <2>1. dispatch[d] = Undispatched /\ \A x \in Groups \cup Linkable : delivered[d][x] = 0 OBVIOUS
  <2>2. QED BY <1>1, <2>1, Blank, OutboxAssumption DEF SentSound, Turns
<1>5. QED BY <1>2, <1>3, <1>4 DEF OutboxSound

\* The steps of the settings page leave what is being sent alone.
LEMMA FormStep ==
  ASSUME OutboxSound, UNCHANGED <<sendVars, hasToken>>,
         settings' \in [profile : Profiles, groupId : Groups \cup {Absent}],
         cachedProfile' \in [Forms -> SUBSET Profiles],
         form' \in [Forms -> FormStates], save' \in [Forms -> SaveStates], estranged' \subseteq Forms,
         saves' \in Nat, \A o \in orphans' : o \in SaveStates /\ o.pc = "merge",
         FormsSound'
  PROVE  OutboxSound'
<1>1. OutboxTyped' BY DEF OutboxSound, OutboxTyped, sendVars
<1>2. DispatchesSound' BY DEF OutboxSound, DispatchesSound, sendVars
<1>3. QED BY <1>1, <1>2 DEF OutboxSound

LEMMA FormsStep ==
  ASSUME OutboxSound, NEW f \in Forms,
         \/ FetchConfig(f) \/ Hydrate(f) \/ LeavePage(f)
         \/ \E p \in Profiles, typed \in Groups \cup {Absent} : EditFields(f, p, typed)
  PROVE  OutboxSound'
<1> USE DEF OutboxSound, OutboxTyped
<1>1. CASE FetchConfig(f)
  <2>1. cachedProfile' \in [Forms -> SUBSET Profiles] BY <1>1 DEF FetchConfig
  <2>2. FormsSound' BY <1>1 DEF FetchConfig, FormsSound, FormSound
  <2>3. QED BY <1>1, <2>1, <2>2, FormStep DEF FetchConfig
<1>2. CASE Hydrate(f)
  <2>1. PICK p \in cachedProfile[f] :
          /\ form' = [form EXCEPT ![f] = [open |-> TRUE, fields |-> p, initial |-> p, typed |-> Absent]]
          /\ estranged' = IF p = settings.profile THEN estranged \ {f} ELSE estranged \cup {f}
    BY <1>2 DEF Hydrate
  <2>2. p \in Profiles OBVIOUS
  <2>3. [open |-> TRUE, fields |-> p, initial |-> p, typed |-> Absent] \in FormStates BY <2>2 DEF FormStates
  <2>4. form' \in [Forms -> FormStates] BY <2>1, <2>3
  <2>5. ~form[f].open /\ UNCHANGED <<settings, cachedProfile, save, orphans, saves, sendVars, hasToken, outFaults>>
    BY <1>2 DEF Hydrate
  <2>6. FormsSound'
    <3> SUFFICES ASSUME NEW g \in Forms PROVE FormSound(g)' BY DEF FormsSound
    <3>1. FormSound(g) BY DEF FormsSound
    <3>2. CASE g = f BY <2>1, <2>5, <3>1, <3>2 DEF FormSound
    <3>3. CASE g # f
      <4>1. form'[g] = form[g] /\ (g \in estranged' <=> g \in estranged) BY <2>1, <3>3
      <4>2. QED BY <4>1, <3>1, <2>5 DEF FormSound
    <3>4. QED BY <3>2, <3>3
  <2>7. estranged' \subseteq Forms BY <2>1
  <2>8. QED BY <2>4, <2>5, <2>6, <2>7, FormStep
<1>3. CASE LeavePage(f)
  <2>0. Profiles # {} OBVIOUS
  <2>1. form' \in [Forms -> FormStates] /\ save' \in [Forms -> SaveStates] BY <1>3, <2>0, Blank DEF LeavePage
  <2>2. \A o \in orphans' : o \in SaveStates /\ o.pc = "merge" BY <1>3 DEF LeavePage
  <2>3. FormsSound'
    <3> SUFFICES ASSUME NEW g \in Forms PROVE FormSound(g)' BY DEF FormsSound
    <3>1. FormSound(g) BY DEF FormsSound
    <3>2. /\ form'[g] = IF g = f THEN ClosedForm ELSE form[g]
          /\ save'[g] = IF g = f THEN NoSave ELSE save[g]
          /\ settings' = settings /\ estranged' = estranged
      BY <1>3 DEF LeavePage
    <3>3. QED BY <2>0, <3>1, <3>2, Blank DEF FormSound
  <2>4. QED BY <1>3, <2>1, <2>2, <2>3, FormStep DEF LeavePage
<1>4. ASSUME NEW p \in Profiles, NEW typed \in Groups \cup {Absent}, EditFields(f, p, typed)
      PROVE  OutboxSound'
  <2> DEFINE new == [form[f] EXCEPT !.fields = p, !.typed = IF p.group THEN typed ELSE @]
  <2>1. form' = [form EXCEPT ![f] = new] BY <1>4 DEF EditFields
  <2>2. form[f] \in FormStates OBVIOUS
  <2>3. new \in FormStates /\ new.open = form[f].open /\ new.initial = form[f].initial BY <2>2 DEF FormStates
  <2> HIDE DEF new
  <2>4. form' \in [Forms -> FormStates] BY <2>1, <2>3
  <2>5. UNCHANGED <<settings, cachedProfile, save, orphans, estranged, saves, sendVars, hasToken>>
    BY <1>4 DEF EditFields
  <2>6. FormsSound'
    <3> SUFFICES ASSUME NEW g \in Forms PROVE FormSound(g)' BY DEF FormsSound
    <3>1. FormSound(g) BY DEF FormsSound
    <3>2. form'[g].open = form[g].open /\ form'[g].initial = form[g].initial BY <2>1, <2>3
    <3>3. QED BY <3>1, <3>2, <2>5 DEF FormSound
  <2>7. QED BY <2>4, <2>5, <2>6, FormStep
<1>5. QED BY <1>1, <1>2, <1>3, <1>4

LEMMA SavesStep ==
  ASSUME OutboxSound, NEW f \in Forms, SaveReads(f) \/ SaveWrites(f) \/ SaveAnswered(f) \/ SaveFails(f)
  PROVE  OutboxSound'
<1> USE DEF OutboxSound, OutboxTyped
<1>1. form[f] \in FormStates /\ save[f] \in SaveStates /\ NoSave \in SaveStates /\ NoSave.pc = "none"
  BY Blank
<1>2. CASE SaveReads(f)
  <2> DEFINE new == [pc |-> "merge", no |-> saves + 1, fields |-> form[f].fields, kept |-> settings.groupId,
                     typed |-> IF form[f].fields.group THEN form[f].typed ELSE Absent]
  <2>1. save' = [save EXCEPT ![f] = new] /\ form[f].open /\ save[f].pc = "none" BY <1>2 DEF SaveReads
  <2>2. new \in SaveStates BY <1>1 DEF FormStates, SaveStates
  <2>3. new.pc = "merge" OBVIOUS
  <2> HIDE DEF new
  <2>4. save' \in [Forms -> SaveStates] BY <2>1, <2>2
  <2>5. UNCHANGED <<settings, cachedProfile, form, orphans, estranged, sendVars, hasToken>> /\ saves' \in Nat
    BY <1>2 DEF SaveReads
  <2>6. FormsSound'
    <3> SUFFICES ASSUME NEW g \in Forms PROVE FormSound(g)' BY DEF FormsSound
    <3>1. FormSound(g) BY DEF FormsSound
    <3>2. save'[g] = IF g = f THEN new ELSE save[g] BY <2>1
    <3>3. QED BY <3>1, <3>2, <2>1, <2>3, <2>5 DEF FormSound
  <2>7. QED BY <2>4, <2>5, <2>6, FormStep
<1>3. CASE SaveWrites(f)
  <2> DEFINE new == [profile |-> save[f].fields, groupId |-> IF save[f].typed = Absent THEN save[f].kept ELSE save[f].typed]
  <2>1. /\ save[f].pc = "merge" /\ settings' = new
        /\ save' = [save EXCEPT ![f].pc = "answer"]
        /\ estranged' = (estranged \ {f}) \cup {g \in Forms \ {f} : form[g].open}
        /\ UNCHANGED <<cachedProfile, form, orphans, saves, sendVars, hasToken>>
    BY <1>3 DEF SaveWrites, Merged
  <2>2. new \in [profile : Profiles, groupId : Groups \cup {Absent}] BY <1>1 DEF SaveStates
  <2>3. new.profile = save[f].fields OBVIOUS
  <2> HIDE DEF new
  <2>4. /\ save' \in [Forms -> SaveStates] /\ save'[f].pc = "answer" /\ save'[f].fields = save[f].fields
        /\ \A g \in Forms \ {f} : save'[g] = save[g]
    BY <2>1, <1>1 DEF SaveStates
  <2>5. FormsSound'
    <3> SUFFICES ASSUME NEW g \in Forms PROVE FormSound(g)' BY DEF FormsSound
    <3>1. FormSound(g) /\ FormSound(f) BY DEF FormsSound
    <3>2. CASE g = f BY <3>1, <3>2, <2>1, <2>3, <2>4 DEF FormSound
    <3>3. CASE g # f
      <4>1. form[g].open => g \in estranged' BY <2>1, <3>3
      <4>2. QED BY <4>1, <3>1, <3>3, <2>1, <2>4 DEF FormSound
    <3>4. QED BY <3>2, <3>3
  <2>6. QED BY <2>1, <2>2, <2>4, <2>5, FormStep
<1>4. CASE SaveAnswered(f)
  <2> DEFINE new == [form[f] EXCEPT !.initial = save[f].fields, !.typed = Absent]
  <2>1. /\ save[f].pc = "answer" /\ form' = [form EXCEPT ![f] = new] /\ save' = [save EXCEPT ![f] = NoSave]
        /\ UNCHANGED <<settings, cachedProfile, orphans, estranged, saves, sendVars, hasToken>>
    BY <1>4 DEF SaveAnswered
  <2>2. new \in FormStates /\ new.initial = save[f].fields BY <1>1 DEF FormStates, SaveStates
  <2> HIDE DEF new
  <2>3. form' \in [Forms -> FormStates] /\ save' \in [Forms -> SaveStates] BY <2>1, <2>2, <1>1
  <2>4. FormsSound'
    <3> SUFFICES ASSUME NEW g \in Forms PROVE FormSound(g)' BY DEF FormsSound
    <3>1. FormSound(g) BY DEF FormsSound
    <3>2. CASE g = f BY <3>1, <3>2, <2>1, <2>2, <1>1 DEF FormSound
    <3>3. CASE g # f BY <3>1, <3>3, <2>1 DEF FormSound
    <3>4. QED BY <3>2, <3>3
  <2>5. QED BY <2>1, <2>3, <2>4, FormStep
<1>5. CASE SaveFails(f)
  <2>1. /\ save[f].pc # "none"
        /\ estranged' = IF save[f].pc = "answer" THEN estranged \cup {f} ELSE estranged
        /\ save' = [save EXCEPT ![f] = NoSave]
        /\ UNCHANGED <<settings, cachedProfile, form, orphans, saves, sendVars, hasToken>>
    BY <1>5 DEF SaveFails
  <2>2. save' \in [Forms -> SaveStates] BY <2>1, <1>1
  <2>3. FormsSound'
    <3> SUFFICES ASSUME NEW g \in Forms PROVE FormSound(g)' BY DEF FormsSound
    <3>1. FormSound(g) BY DEF FormsSound
    <3>2. CASE g = f BY <3>1, <3>2, <2>1, <1>1 DEF FormSound
    <3>3. CASE g # f BY <3>1, <3>3, <2>1 DEF FormSound
    <3>4. QED BY <3>2, <3>3
  <2>4. QED BY <2>1, <2>2, <2>3, FormStep
<1>6. QED BY <1>2, <1>3, <1>4, <1>5

LEMMA OrphansStep ==
  ASSUME OutboxSound, NEW o \in orphans, OrphanWrites(o) \/ OrphanFails(o)
  PROVE  OutboxSound'
<1> USE DEF OutboxSound, OutboxTyped
<1>1. /\ o \in SaveStates /\ orphans' = orphans \ {o}
      /\ UNCHANGED <<cachedProfile, form, save, saves, sendVars, hasToken>>
  BY DEF OrphanWrites, OrphanFails
<1>2. CASE OrphanWrites(o)
  <2>1. settings' = Merged(o) /\ estranged' = estranged \cup {f \in Forms : form[f].open}
    BY <1>2 DEF OrphanWrites
  <2>2. settings' \in [profile : Profiles, groupId : Groups \cup {Absent}]
    BY <1>1, <2>1 DEF Merged, SaveStates
  <2>3. FormsSound'
    <3> SUFFICES ASSUME NEW g \in Forms PROVE FormSound(g)' BY DEF FormsSound
    <3>1. FormSound(g) BY DEF FormsSound
    <3>2. form[g].open => g \in estranged' BY <2>1
    <3>3. QED BY <1>1, <3>1, <3>2 DEF FormSound
  <2>4. QED BY <1>1, <2>1, <2>2, <2>3, FormStep
<1>3. CASE OrphanFails(o)
  <2>1. settings' = settings /\ estranged' = estranged BY <1>3 DEF OrphanFails
  <2>2. FormsSound' BY <1>1, <2>1 DEF FormsSound, FormSound
  <2>3. QED BY <1>1, <2>1, <2>2, FormStep
<1>4. QED BY <1>2, <1>3

LEMMA OtherSavesStep ==
  ASSUME OutboxSound, NEW p \in Profiles, NEW id \in Groups \cup {Absent}, OtherSaves(p, id)
  PROVE  OutboxSound'
<1> USE DEF OutboxSound, OutboxTyped
<1>1. /\ settings' = [profile |-> p, groupId |-> IF id = Absent THEN settings.groupId ELSE id]
      /\ estranged' = estranged \cup {f \in Forms : form[f].open}
      /\ UNCHANGED <<cachedProfile, form, save, orphans, sendVars, hasToken>> /\ saves' \in Nat
  BY DEF OtherSaves
<1>2. settings' \in [profile : Profiles, groupId : Groups \cup {Absent}] BY <1>1
<1>3. FormsSound'
  <2> SUFFICES ASSUME NEW g \in Forms PROVE FormSound(g)' BY DEF FormsSound
  <2>1. FormSound(g) BY DEF FormsSound
  <2>2. form[g].open => g \in estranged' BY <1>1
  <2>3. QED BY <2>1, <2>2, <1>1 DEF FormSound
<1>4. QED BY <1>1, <1>2, <1>3, FormStep

\* One event moves, and its dispatch is sound again.
LEMMA DispatchMoves ==
  ASSUME OutboxSound, NEW d \in Dispatches, NEW q \in DispatchStates, NEW n \in [Groups \cup Linkable -> Nat],
         dispatch' = [dispatch EXCEPT ![d] = q], delivered' = [delivered EXCEPT ![d] = n],
         UNCHANGED <<formVars, chatsLinked, hasToken>>, SentSound(q, n)
  PROVE  OutboxSound'
<1> USE DEF OutboxSound, OutboxTyped
<1>1. OutboxTyped' BY DEF formVars
<1>2. FormsSound' BY DEF FormsSound, FormSound, formVars
<1>3. DispatchesSound' BY DEF DispatchesSound
<1>4. QED BY <1>1, <1>2, <1>3

\* A message is sent, or not.
LEMMA Delivery ==
  ASSUME OutboxTyped, NEW d \in Dispatches, NEW x \in Groups \cup Linkable, Deliver(d, x)
  PROVE  \E n \in [Groups \cup Linkable -> Nat] :
           /\ delivered' = [delivered EXCEPT ![d] = n]
           /\ n[x] \in {delivered[d][x], delivered[d][x] + 1}
           /\ \A y \in Groups \cup Linkable : y # x => n[y] = delivered[d][y]
<1> USE DEF OutboxTyped
<1>1. delivered[d] \in [Groups \cup Linkable -> Nat] OBVIOUS
<1>2. CASE delivered' = [delivered EXCEPT ![d][x] = @ + 1]
  <2> DEFINE n == [delivered[d] EXCEPT ![x] = @ + 1]
  <2>1. n \in [Groups \cup Linkable -> Nat] BY <1>1
  <2>2. delivered' = [delivered EXCEPT ![d] = n] BY <1>2
  <2>3. n[x] = delivered[d][x] + 1 /\ \A y \in Groups \cup Linkable : y # x => n[y] = delivered[d][y] BY <1>1
  <2>4. QED BY <2>1, <2>2, <2>3
<1>3. CASE UNCHANGED delivered
  <2>1. delivered' = [delivered EXCEPT ![d] = delivered[d]] BY <1>3
  <2>2. QED BY <1>1, <2>1
<1>4. QED BY <1>2, <1>3 DEF Deliver

LEMMA HearStep ==
  ASSUME OutboxSound, NEW d \in Dispatches, NEW event \in Heard, Hear(d, event)
  PROVE  OutboxSound'
<1> DEFINE q == [Undispatched EXCEPT !.event = event, !.pc = IF hasToken THEN "settings" ELSE "done"]
<1>1. dispatch[d].pc = "none" /\ dispatch' = [dispatch EXCEPT ![d] = q] /\ UNCHANGED <<formVars, chatsLinked, delivered, hasToken>>
  BY DEF Hear
<1>2. Undispatched \in DispatchStates /\ Undispatched.audience = {} /\ Undispatched.queue = {}
  BY Blank DEF OutboxSound, OutboxTyped
<1>3. q \in DispatchStates /\ q.pc \in {"settings", "done"} /\ q.audience = {} /\ q.queue = {} /\ q.event = event
  BY <1>2 DEF DispatchStates
<1> HIDE DEF q
<1>4. SentSound(dispatch[d], delivered[d]) /\ delivered[d] \in [Groups \cup Linkable -> Nat]
  BY DEF OutboxSound, OutboxTyped, DispatchesSound
<1>5. \A x \in Groups \cup Linkable : delivered[d][x] = 0 BY <1>1, <1>4 DEF SentSound
<1>6. SentSound(q, delivered[d]) BY <1>3, <1>5 DEF SentSound, Turns
<1>7. delivered' = [delivered EXCEPT ![d] = delivered[d]] BY <1>1 DEF OutboxSound, OutboxTyped
<1>8. QED BY <1>1, <1>3, <1>4, <1>6, <1>7, DispatchMoves

LEMMA ResolveStep ==
  ASSUME OutboxSound, NEW d \in Dispatches, ResolveSettings(d)
  PROVE  OutboxSound'
<1> DEFINE p == settings.profile
           k == dispatch[d]
           pc == CASE k.event \notin p.events -> "done"
                   [] k.event \in p.events /\ p.group /\ settings.groupId # Absent -> "group"
                   [] OTHER -> "users"
           q == [k EXCEPT !.profile = p, !.groupId = settings.groupId, !.pc = pc]
<1>1. k.pc = "settings" /\ dispatch' = [dispatch EXCEPT ![d] = q] /\ UNCHANGED <<formVars, chatsLinked, delivered, hasToken>>
  BY DEF ResolveSettings
<1>2. /\ SentSound(k, delivered[d]) /\ delivered[d] \in [Groups \cup Linkable -> Nat] /\ k \in DispatchStates
      /\ p \in Profiles /\ settings.groupId \in Groups \cup {Absent}
  BY DEF OutboxSound, OutboxTyped, DispatchesSound
<1>3. /\ pc \in {"done", "group", "users"}
      /\ pc # "done" => k.event \in p.events
      /\ pc = "group" => settings.groupId # Absent
  OBVIOUS
<1> HIDE DEF pc, p
<1>4. /\ q \in DispatchStates /\ q.pc = pc /\ q.audience = k.audience /\ q.queue = k.queue
      /\ q.event = k.event /\ q.groupId = settings.groupId
  BY <1>2, <1>3 DEF DispatchStates
<1> HIDE DEF q
<1>5. \A x \in Groups \cup Linkable : delivered[d][x] = 0 BY <1>1, <1>2 DEF SentSound
<1>6. k.audience = {} /\ k.queue = {} BY <1>1, <1>2 DEF SentSound
<1>7. q.pc # "done" => q.event \in TelegramEvents BY <1>2, <1>3, <1>4, OutboxAssumption
<1>8. SentSound(q, delivered[d]) BY <1>2, <1>3, <1>4, <1>5, <1>6, <1>7 DEF SentSound, Turns
<1>9. delivered' = [delivered EXCEPT ![d] = delivered[d]] BY <1>1 DEF OutboxSound, OutboxTyped
<1>10. QED BY <1>1, <1>2, <1>4, <1>8, <1>9, DispatchMoves

LEMMA SendGroupStep ==
  ASSUME OutboxSound, NEW d \in Dispatches, SendGroup(d)
  PROVE  OutboxSound'
<1> DEFINE k == dispatch[d]
           q == [k EXCEPT !.pc = IF k.profile.individuals THEN "users" ELSE "done"]
<1>1. k.pc = "group" /\ Deliver(d, k.groupId) /\ dispatch' = [dispatch EXCEPT ![d] = q] /\ UNCHANGED <<formVars, chatsLinked, hasToken>>
  BY DEF SendGroup, OutboxSound, OutboxTyped
<1>2. SentSound(k, delivered[d]) /\ k \in DispatchStates BY DEF OutboxSound, OutboxTyped, DispatchesSound
<1>3. /\ q \in DispatchStates /\ q.pc = (IF k.profile.individuals THEN "users" ELSE "done") /\ q.audience = k.audience
      /\ q.queue = k.queue /\ q.event = k.event /\ q.groupId = k.groupId /\ q.profile = k.profile
  BY <1>2 DEF DispatchStates
<1> HIDE DEF q
<1>4. /\ \A x \in Groups \cup Linkable : delivered[d][x] = 0
      /\ k.groupId \in Groups /\ k.audience = {} /\ k.queue = {} /\ k.event \in TelegramEvents
  BY <1>1, <1>2 DEF SentSound
<1>5. PICK x \in Groups : x = k.groupId BY <1>4
<1>6. Deliver(d, x) /\ x \in Groups \cup Linkable BY <1>1, <1>5 DEF Deliver
<1>7. PICK n \in [Groups \cup Linkable -> Nat] :
           /\ delivered' = [delivered EXCEPT ![d] = n]
           /\ n[x] \in {delivered[d][x], delivered[d][x] + 1}
           /\ \A y \in Groups \cup Linkable : y # x => n[y] = delivered[d][y]
  BY <1>6, Delivery DEF OutboxSound
<1>8. n[k.groupId] <= 1 /\ \A y \in Groups \cup Linkable : y # k.groupId => n[y] = 0
  BY <1>4, <1>7, <1>5
<1>9. SentSound(q, n)
  <2>1. \A y \in Groups \cup Linkable : n[y] <= Turns(q, y)
    BY <1>3, <1>4, <1>8 DEF Turns
  <2>2. (/\ q.pc \in {"users", "each"} \/ \E y \in Linkable \ Groups : n[y] > 0
         /\ \E g \in Groups \ Linkable : n[g] > 0) => q.profile.individuals
    BY <1>3, <1>4, <1>8
  <2>3. QED BY <1>3, <1>4, <2>1, <2>2 DEF SentSound
<1>10. QED BY <1>1, <1>3, <1>7, <1>9, DispatchMoves

LEMMA FindLinkedStep ==
  ASSUME OutboxSound, NEW d \in Dispatches, FindLinked(d)
  PROVE  OutboxSound'
<1> DEFINE k == dispatch[d]
           q == [k EXCEPT !.pc = "each", !.queue = chatsLinked, !.audience = chatsLinked]
<1>1. k.pc = "users" /\ dispatch' = [dispatch EXCEPT ![d] = q] /\ UNCHANGED <<formVars, chatsLinked, delivered, hasToken>>
  BY DEF FindLinked, OutboxSound, OutboxTyped
<1>2. SentSound(k, delivered[d]) /\ delivered[d] \in [Groups \cup Linkable -> Nat] /\ k \in DispatchStates
  BY DEF OutboxSound, OutboxTyped, DispatchesSound
<1>3. /\ q \in DispatchStates /\ q.pc = "each" /\ q.audience = chatsLinked
      /\ q.queue = chatsLinked /\ q.event = k.event /\ q.groupId = k.groupId /\ q.profile = k.profile
  BY <1>2 DEF DispatchStates, OutboxSound, OutboxTyped
<1> HIDE DEF q
<1>4. SentSound(q, delivered[d]) BY <1>1, <1>2, <1>3 DEF SentSound, Turns
<1>5. delivered' = [delivered EXCEPT ![d] = delivered[d]] BY <1>1 DEF OutboxSound, OutboxTyped
<1>6. QED BY <1>1, <1>2, <1>3, <1>4, <1>5, DispatchMoves

LEMMA SendUserStep ==
  ASSUME OutboxSound, NEW d \in Dispatches, SendUser(d)
  PROVE  OutboxSound'
<1> DEFINE k == dispatch[d]
<1>1. k.pc = "each" /\ UNCHANGED <<formVars, chatsLinked, hasToken>> BY DEF SendUser
<1>2. SentSound(k, delivered[d]) /\ delivered[d] \in [Groups \cup Linkable -> Nat] /\ k \in DispatchStates
  BY DEF OutboxSound, OutboxTyped, DispatchesSound
<1>3. ASSUME NEW x \in k.queue, Deliver(d, x), dispatch' = [dispatch EXCEPT ![d].queue = @ \ {x}]
      PROVE  OutboxSound'
  <2> DEFINE q == [k EXCEPT !.queue = k.queue \ {x}]
  <2>1. dispatch' = [dispatch EXCEPT ![d] = q] BY <1>3 DEF OutboxSound, OutboxTyped
  <2>2. /\ q \in DispatchStates /\ q.pc = k.pc /\ q.audience = k.audience
        /\ q.queue = k.queue \ {x} /\ q.event = k.event /\ q.groupId = k.groupId /\ q.profile = k.profile
    BY <1>2 DEF DispatchStates
  <2> HIDE DEF q
  <2>3. x \in Groups \cup Linkable /\ x \in k.audience BY <1>2 DEF DispatchStates, SentSound
  <2>4. PICK n \in [Groups \cup Linkable -> Nat] :
           /\ delivered' = [delivered EXCEPT ![d] = n]
           /\ n[x] \in {delivered[d][x], delivered[d][x] + 1}
           /\ \A y \in Groups \cup Linkable : y # x => n[y] = delivered[d][y]
    BY <1>3, <2>3, Delivery DEF OutboxSound
  <2>5. \A y \in Groups \cup Linkable : n[y] <= Turns(q, y)
    <3> SUFFICES ASSUME NEW y \in Groups \cup Linkable PROVE n[y] <= Turns(q, y) OBVIOUS
    <3>1. delivered[d][y] <= Turns(k, y) /\ delivered[d][y] \in Nat /\ n[y] \in Nat BY <1>2, <2>4 DEF SentSound
    <3>2. CASE y = x
      <4>1. Turns(q, y) = Turns(k, y) + 1 /\ Turns(k, y) \in Nat BY <3>2, <2>2, <2>3 DEF Turns
      <4>2. QED BY <4>1, <3>1, <3>2, <2>4
    <3>3. CASE y # x
      <4>1. Turns(q, y) = Turns(k, y) BY <3>3, <2>2 DEF Turns
      <4>2. QED BY <4>1, <3>1, <3>3, <2>4
    <3>4. QED BY <3>2, <3>3
  <2>6. k.event \in TelegramEvents BY <1>1, <1>2 DEF SentSound
  <2>7. (\E g \in Groups \ Linkable : n[g] > 0) => k.profile.individuals
    <3>1. \A g \in Groups \ Linkable : g # x BY <1>2 DEF DispatchStates
    <3>2. \A g \in Groups \ Linkable : n[g] = delivered[d][g] BY <3>1, <2>4
    <3>3. QED BY <3>2, <1>1, <1>2 DEF SentSound
  <2>8. q.queue \subseteq q.audience BY <1>2, <2>2 DEF SentSound
  <2>9. SentSound(q, n) BY <1>1, <2>2, <2>5, <2>6, <2>7, <2>8 DEF SentSound
  <2>10. QED BY <1>1, <2>1, <2>2, <2>4, <2>9, DispatchMoves
<1>4. ASSUME dispatch' = [dispatch EXCEPT ![d].pc = "done"], UNCHANGED delivered
      PROVE  OutboxSound'
  <2> DEFINE q == [k EXCEPT !.pc = "done"]
  <2>1. dispatch' = [dispatch EXCEPT ![d] = q] BY <1>4 DEF OutboxSound, OutboxTyped
  <2>2. /\ q \in DispatchStates /\ q.pc = "done" /\ q.audience = k.audience
        /\ q.queue = k.queue /\ q.event = k.event /\ q.groupId = k.groupId /\ q.profile = k.profile
    BY <1>2 DEF DispatchStates
  <2> HIDE DEF q
  <2>3. SentSound(q, delivered[d]) BY <1>1, <1>2, <2>2 DEF SentSound, Turns
  <2>4. delivered' = [delivered EXCEPT ![d] = delivered[d]] BY <1>4 DEF OutboxSound, OutboxTyped
  <2>5. QED BY <1>1, <1>2, <2>1, <2>2, <2>3, <2>4, DispatchMoves
<1>5. QED BY <1>3, <1>4 DEF SendUser

LEMMA OutboxSteps == OutboxSound /\ [OutboxNext]_outboxVars => OutboxSound'
<1> SUFFICES ASSUME OutboxSound, [OutboxNext]_outboxVars PROVE OutboxSound' OBVIOUS
<1>1. CASE UNCHANGED outboxVars
  BY <1>1 DEF outboxVars, formVars, sendVars, OutboxSound, OutboxTyped, FormsSound, FormSound, DispatchesSound
<1>2. ASSUME NEW f \in Forms,
             \/ FetchConfig(f) \/ Hydrate(f) \/ LeavePage(f)
             \/ \E p \in Profiles, typed \in Groups \cup {Absent} : EditFields(f, p, typed)
             \/ SaveReads(f) \/ SaveWrites(f) \/ SaveAnswered(f) \/ SaveFails(f)
      PROVE  OutboxSound'
  BY <1>2, FormsStep, SavesStep
<1>3. ASSUME NEW d \in Dispatches,
             \/ \E event \in Heard : Hear(d, event)
             \/ ResolveSettings(d) \/ SendGroup(d) \/ FindLinked(d) \/ SendUser(d)
      PROVE  OutboxSound'
  BY <1>3, HearStep, ResolveStep, SendGroupStep, FindLinkedStep, SendUserStep
<1>4. ASSUME NEW x \in Linkable, Relink(x) PROVE OutboxSound'
  <2>1. UNCHANGED <<formVars, dispatch, delivered, hasToken>> /\ chatsLinked' \subseteq Linkable
    BY <1>4 DEF Relink, OutboxSound, OutboxTyped
  <2>2. QED BY <2>1 DEF formVars, OutboxSound, OutboxTyped, FormsSound, FormSound, DispatchesSound
<1>5. QED BY <1>1, <1>2, <1>3, <1>4, OtherSavesStep, OrphansStep DEF OutboxNext

LEMMA OutboxHolds == OutboxSound => SettingsAndMessagesAgree
<1> SUFFICES ASSUME OutboxSound PROVE SettingsAndMessagesAgree OBVIOUS
<1>1. ASSUME NEW f \in Forms, form[f].open, save[f].pc = "none", f \notin estranged, ~Changed(f)
      PROVE  form[f].fields = settings.profile
  BY <1>1 DEF OutboxSound, FormsSound, FormSound, Changed
<1>2. ASSUME NEW d \in Dispatches
      PROVE  /\ \A x \in Groups \cup Linkable : delivered[d][x] <= IF x \in Groups \cap Linkable THEN 2 ELSE 1
             /\ Told(d) \subseteq dispatch[d].audience
             /\ (Told(d) # {} /\ \E g \in Groups \ Linkable : delivered[d][g] > 0) => dispatch[d].profile.individuals
             /\ dispatch[d].event \notin TelegramEvents => \A x \in Groups \cup Linkable : delivered[d][x] = 0
  <2>1. SentSound(dispatch[d], delivered[d]) /\ dispatch[d].audience \subseteq Linkable
    BY DEF OutboxSound, OutboxTyped, DispatchesSound, DispatchStates
  <2>2. \A x \in Groups \cup Linkable : delivered[d][x] \in Nat BY DEF OutboxSound, OutboxTyped
  <2>3. ASSUME NEW x \in Groups \cup Linkable
        PROVE  /\ delivered[d][x] <= IF x \in Groups \cap Linkable THEN 2 ELSE 1
               /\ (x \notin Groups /\ delivered[d][x] > 0) => x \in dispatch[d].audience
    <3>1. delivered[d][x] <= Turns(dispatch[d], x) BY <2>1 DEF SentSound
    <3>2. QED BY <3>1, <2>1, <2>2 DEF Turns
  <2>4. QED BY <2>1, <2>2, <2>3 DEF SentSound, Told
<1>3. ASSUME NEW here \in BOOLEAN, NEW group \in BOOLEAN, NEW chat \in BOOLEAN
      PROVE  LET test == TestReaches(here, group, chat)
             IN IF test.fails THEN ~test.user ELSE test.group \/ test.user
  BY DEF TestReaches
<1>4. ASSUME NEW reachable \in SUBSET Groups, CheckConfig(TRUE, Absent, reachable).group = "valid"
      PROVE  settings.groupId \in reachable
  BY <1>4, OutboxAssumption DEF CheckConfig
<1>5. QED BY <1>1, <1>2, <1>3, <1>4 DEF SettingsAndMessagesAgree

\* The inductive invariant of the settings form and of what is sent.
THEOREM OutboxSoundness == OutboxSpec => []OutboxSound
BY OutboxStarts, OutboxSteps, PTL DEF OutboxSpec

\* For any number of browsers, chats and events: a form that shows no changes shows the
\* settings in force, and no chat hears of an event twice, or against the settings.
THEOREM OutboxCorrect == OutboxSpec => []SettingsAndMessagesAgree
<1>1. OutboxSound => SettingsAndMessagesAgree BY OutboxHolds
<1>2. QED BY <1>1, OutboxSoundness, PTL

-------------------------------------------------------------------------------
(* The lists and the export.                                                *)

ExportRow == [pc : {"none", "batch", "write", "ended"}, bySla : BOOLEAN, up : BOOLEAN, offset : Nat,
              page : Seq(Shelf), written : Seq(Shelf), aborted : BOOLEAN]

\* What has been written, and what the page under way holds.
WrittenRows == {export.written[i] : i \in DOMAIN export.written}
PageRows == {export.page[i] : i \in DOMAIN export.page}

ReadsTyped ==
  /\ present \subseteq DOMAIN rating /\ DOMAIN rating \subseteq Shelf
  /\ rating \in [DOMAIN rating -> Ratings]
  /\ export \in ExportRow /\ disturbed \subseteq {"filed", "deleted", "rated"}
  /\ WrittenRows \subseteq DOMAIN rating /\ PageRows \subseteq DOMAIN rating
  /\ export.pc = "none" => export.written = <<>>

\* Ticket s stands before ticket t in the order of the export.
Ahead(s, t) ==
  LET a == IF export.up THEN s ELSE t
      b == IF export.up THEN t ELSE s
  IN IF export.bySla THEN SlaBefore(a, b) ELSE Before(a, b)

\* The order is that of the tickets, with no room for ties.
Decided == ~(export.bySla /\ Tied)

OrderOf(o) ==
  /\ o \in [1 .. Cardinality(present) -> present]
  /\ \A i, j \in DOMAIN o : i # j => o[i] # o[j]
  /\ \A i, j \in DOMAIN o : i < j => ~Ahead(o[j], o[i])

\* Ticket t is after everything written, and after everything on the page.
AfterRows(t) == \A s \in WrittenRows : Ahead(s, t)
AfterPage(t) == \A s \in PageRows : Ahead(s, t)

\* What is written is the beginning of o, and the page continues it.
Follows(o) ==
  /\ Len(export.written) <= Len(o)
  /\ \A i \in 1 .. Len(export.written) : export.written[i] = o[i]
  /\ export.pc = "write" => Len(export.written) < MaxExportRows /\ export.page = Page(o)
  /\ export.pc = "ended" =>
       Len(export.written) = IF Len(o) < MaxExportRows THEN Len(o) ELSE MaxExportRows

\* An export with no ticket touched since it began, still read by its client.
InOrder ==
  (export.pc # "none" /\ disturbed = {} /\ ~export.aborted /\ Decided) =>
    /\ export.offset = Len(export.written)
    /\ Len(export.written) <= MaxExportRows
    /\ \/ export.pc = "batch" /\ export.written = <<>>
       \/ \E o \in Seq(Shelf) : OrderOf(o) /\ Follows(o)

\* Tickets are only deleted: what is still to come is after all that is written, except
\* for as many tickets as have been skipped over.
NoneAgain ==
  (disturbed \subseteq {"deleted"} /\ Decided) =>
    /\ \A i, j \in DOMAIN export.written : i # j => export.written[i] # export.written[j]
    /\ (export.pc = "batch" /\ ~export.aborted) =>
         \E F \in SUBSET Shelf :
           /\ Cardinality(F) <= export.offset
           /\ \A t \in present : t \in F \/ AfterRows(t)
    /\ (export.pc = "write" /\ ~export.aborted) =>
         /\ \A i, j \in DOMAIN export.page : i # j => export.page[i] # export.page[j]
         /\ \A t \in PageRows : AfterRows(t)
         /\ \E F \in SUBSET Shelf :
              /\ Cardinality(F) <= export.offset
              /\ \A t \in present : t \in F \/ t \in PageRows \/ (AfterRows(t) /\ AfterPage(t))

ReadsSound == ReadsTyped /\ InOrder /\ NoneAgain

\* Every sequence of tickets that the module writes as sorted is such an order.
LEMMA Orders == \A o : o \in Sorted(present, export.bySla, export.up) <=> OrderOf(o)
BY DEF Sorted, Permutation, OrderOf, Ahead

LEMMA ShelfFinite == \A T : T \subseteq Shelf => IsFiniteSet(T) /\ Cardinality(T) \in Nat
<1>1. IsFiniteSet(Shelf)
  BY FS_Interval, ReadsAssumption DEF Shelf
<1>2. QED
  BY <1>1, FS_Subset, FS_CardinalityType

\* A permutation of a finite set is a sequence that meets each element once.
LEMMA PermutationMeetsAll ==
  ASSUME NEW T, IsFiniteSet(T), NEW p \in Permutation(T)
  PROVE  /\ Cardinality(T) \in Nat /\ DOMAIN p = 1 .. Cardinality(T)
         /\ p \in Seq(T) /\ Len(p) = Cardinality(T)
         /\ \A i, j \in DOMAIN p : i # j => p[i] # p[j]
         /\ \A x \in T : \E i \in DOMAIN p : p[i] = x
<1> DEFINE n == Cardinality(T)
<1>1. n \in Nat
  BY FS_CardinalityType
<1>2. p \in [1 .. n -> T] /\ DOMAIN p = 1 .. n /\ \A i, j \in DOMAIN p : i # j => p[i] # p[j]
  BY DEF Permutation
<1>3. p \in Seq(T) /\ Len(p) = n
  BY <1>1, <1>2
<1>4. IsFiniteSet(1 .. n) /\ Cardinality(1 .. n) = n
  BY <1>1, FS_Interval
<1>5. p \in Injection(1 .. n, T)
  BY <1>2 DEF Injection, IsInjective
<1>6. p \in Surjection(1 .. n, T)
  BY <1>4, <1>5, FS_Injection
<1>7. \A x \in T : \E i \in DOMAIN p : p[i] = x
  BY <1>2, <1>6 DEF Surjection
<1>8. QED
  BY <1>1, <1>2, <1>3, <1>7

\* A set can be put in one order at most.
LEMMA UniqueOrder ==
  ASSUME NEW T, IsFiniteSet(T), NEW R, NEW p \in Permutation(T), NEW q \in Permutation(T),
         \A x, y \in T : <<x, y>> \in R => <<y, x>> \notin R,
         \A i, j \in DOMAIN p : i < j => <<p[i], p[j]>> \in R,
         \A i, j \in DOMAIN q : i < j => <<q[i], q[j]>> \in R
  PROVE  p = q
<1> DEFINE n == Cardinality(T)
<1>1. /\ n \in Nat /\ DOMAIN p = 1 .. n /\ DOMAIN q = 1 .. n
      /\ \A x \in T : \E i \in DOMAIN p : p[i] = x
      /\ \A x \in T : \E i \in DOMAIN q : q[i] = x
      /\ \A i, j \in DOMAIN p : i # j => p[i] # p[j]
      /\ \A i, j \in DOMAIN q : i # j => q[i] # q[j]
  BY PermutationMeetsAll
<1>2. p \in [1 .. n -> T] /\ q \in [1 .. n -> T]
  BY DEF Permutation
<1>3. ASSUME NEW m \in 1 .. n, p[m] # q[m] PROVE FALSE
  <2> DEFINE K == {i \in 1 .. n : p[i] # q[i]}
  <2>1. K \in SUBSET Nat /\ K # {}
    BY <1>1, <1>3
  <2>2. PICK k \in K : \A i \in K : k <= i
    BY <2>1, Earliest
  <2>3. /\ k \in 1 .. n /\ p[k] # q[k]
        /\ \A i \in 1 .. n : i < k => p[i] = q[i]
    BY <2>2, <1>1
  <2>4. p[k] \in T /\ q[k] \in T
    BY <1>2, <2>3
  <2>5. PICK i \in 1 .. n : p[i] = q[k]
    BY <1>1, <2>4
  <2>6. PICK j \in 1 .. n : q[j] = p[k]
    BY <1>1, <2>4
  <2>7. ~(i < k) /\ i # k
    BY <1>1, <2>3, <2>5
  <2>8. ~(j < k) /\ j # k
    BY <1>1, <2>3, <2>6
  <2>9. k < i /\ k < j
    BY <1>1, <2>3, <2>7, <2>8
  <2>10. <<p[k], q[k]>> \in R
    BY <1>1, <2>3, <2>5, <2>9
  <2>11. <<q[k], p[k]>> \in R
    BY <1>1, <2>3, <2>6, <2>9
  <2>12. QED
    BY <2>4, <2>10, <2>11
<1>4. p = [i \in 1 .. n |-> p[i]] /\ q = [i \in 1 .. n |-> q[i]]
  BY <1>2
<1>5. \A i \in 1 .. n : p[i] = q[i]
  BY <1>3
<1>6. QED
  BY <1>4, <1>5

\* All the places of a page, in turn, are the page.
LEMMA InTurnOfAll ==
  ASSUME NEW n \in Nat, NEW f \in InTurn(1 .. n)
  PROVE  DOMAIN f = 1 .. n /\ \A i \in 1 .. n : f[i] = i
<1> DEFINE T == 1 .. n
           id == [i \in 1 .. n |-> i]
           R == {e \in T \X T : e[1] < e[2]}
<1>1. IsFiniteSet(T) /\ Cardinality(T) = n
  BY FS_Interval
<1>2. f \in Permutation(T) /\ \A i, j \in DOMAIN f : i < j => f[i] < f[j]
  BY DEF InTurn
<1>3. id \in Permutation(T)
  BY <1>1 DEF Permutation
<1>4. \A x, y \in T : <<x, y>> \in R => <<y, x>> \notin R
  OBVIOUS
<1>5. DOMAIN f = 1 .. n /\ f \in [1 .. n -> T]
  BY <1>1, <1>2 DEF Permutation
<1>6. \A i, j \in DOMAIN f : i < j => <<f[i], f[j]>> \in R
  BY <1>2, <1>5
<1>7. \A i, j \in DOMAIN id : i < j => <<id[i], id[j]>> \in R
  OBVIOUS
<1> HIDE DEF id, T, R
<1>8. f = id
  BY <1>1, <1>2, <1>3, <1>4, <1>6, <1>7, UniqueOrder
<1>9. QED
  BY <1>5, <1>8 DEF id

\* The two orders of the source, by the column and by the rating, are strict.
LEMMA BeforeStrict ==
  ASSUME NEW s \in Shelf, NEW t \in Shelf
  PROVE  /\ ~Before(s, s)
         /\ Before(s, t) => ~Before(t, s)
         /\ s # t => Before(s, t) \/ Before(t, s)
         /\ \A w \in Shelf : Before(s, t) /\ Before(t, w) => Before(s, w)
<1>1. \A x \in Shelf : x \in Nat /\ Row0[x].age \in Nat
  BY ReadsAssumption DEF Shelf
<1>2. QED
  BY <1>1 DEF Before

LEMMA SlaBeforeStrict ==
  ASSUME ReadsTyped, NEW s \in DOMAIN rating, NEW t \in DOMAIN rating
  PROVE  /\ ~SlaBefore(s, s)
         /\ SlaBefore(s, t) => ~SlaBefore(t, s)
         /\ (~Tied /\ s # t) => SlaBefore(s, t) \/ SlaBefore(t, s)
         /\ \A w \in DOMAIN rating : SlaBefore(s, t) /\ SlaBefore(t, w) => SlaBefore(s, w)
<1>1. \A r \in Ratings : Rank[r] \in Nat
  BY DEF Rank, Ratings
<1>2. \A r, q \in Ratings : Rank[r] = Rank[q] => r = q
  BY DEF Rank, Ratings
<1>3. \A x \in DOMAIN rating : rating[x] \in Ratings /\ Row0[x].age \in Nat
  BY ReadsAssumption DEF ReadsTyped
<1>4. \A x \in DOMAIN rating : Rank[rating[x]] \in Nat
  BY <1>1, <1>3
<1>5. (~Tied /\ s # t) => Rank[rating[s]] # Rank[rating[t]] \/ Row0[s].age # Row0[t].age
  BY <1>2, <1>3 DEF Tied
<1>6. QED
  BY <1>3, <1>4, <1>5 DEF SlaBefore

LEMMA AheadStrict ==
  ASSUME ReadsTyped, NEW s \in DOMAIN rating, NEW t \in DOMAIN rating
  PROVE  /\ ~Ahead(s, s)
         /\ Ahead(s, t) => ~Ahead(t, s)
         /\ (Decided /\ s # t) => Ahead(s, t) \/ Ahead(t, s)
         /\ \A w \in DOMAIN rating : Ahead(s, t) /\ Ahead(t, w) => Ahead(s, w)
<1>1. DOMAIN rating \subseteq Shelf
  BY DEF ReadsTyped
<1>2. CASE export.bySla
  <2>1. \A x, y \in DOMAIN rating :
          /\ ~SlaBefore(x, x)
          /\ SlaBefore(x, y) => ~SlaBefore(y, x)
          /\ (~Tied /\ x # y) => SlaBefore(x, y) \/ SlaBefore(y, x)
          /\ \A w \in DOMAIN rating : SlaBefore(x, y) /\ SlaBefore(y, w) => SlaBefore(x, w)
    BY SlaBeforeStrict
  <2>2. QED
    BY <1>2, <2>1 DEF Ahead, Decided
<1>3. CASE ~export.bySla
  <2>1. \A x, y \in Shelf :
          /\ ~Before(x, x)
          /\ Before(x, y) => ~Before(y, x)
          /\ x # y => Before(x, y) \/ Before(y, x)
          /\ \A w \in Shelf : Before(x, y) /\ Before(y, w) => Before(x, w)
    BY BeforeStrict
  <2>2. QED
    BY <1>1, <1>3, <2>1 DEF Ahead
<1>4. QED
  BY <1>2, <1>3

\* The tickets there are, in an order of the export.
LEMMA OrderFacts ==
  ASSUME ReadsTyped, NEW o, OrderOf(o)
  PROVE  /\ o \in Permutation(present) /\ IsFiniteSet(present)
         /\ o \in Seq(present) /\ o \in Seq(Shelf) /\ Len(o) \in Nat /\ DOMAIN o = 1 .. Len(o)
         /\ \A i \in 1 .. Len(o) : o[i] \in present /\ o[i] \in DOMAIN rating
         /\ \A i, j \in 1 .. Len(o) : i # j => o[i] # o[j]
         /\ Decided => \A i, j \in 1 .. Len(o) : i < j => Ahead(o[i], o[j])
         /\ \A t \in present : \E i \in 1 .. Len(o) : o[i] = t
<1>1. present \subseteq DOMAIN rating /\ present \subseteq Shelf
  BY DEF ReadsTyped
<1>2. IsFiniteSet(present)
  BY <1>1, ShelfFinite
<1>3. o \in Permutation(present)
  BY DEF OrderOf, Permutation
<1>4. /\ Cardinality(present) \in Nat /\ DOMAIN o = 1 .. Cardinality(present)
      /\ o \in Seq(present) /\ Len(o) = Cardinality(present)
      /\ \A i, j \in DOMAIN o : i # j => o[i] # o[j]
      /\ \A t \in present : \E i \in DOMAIN o : o[i] = t
  BY <1>2, <1>3, PermutationMeetsAll
<1>5. o \in Seq(Shelf)
  BY <1>1, <1>4, SeqMonotonic
<1>6. \A i \in 1 .. Len(o) : o[i] \in present /\ o[i] \in DOMAIN rating
  BY <1>1, <1>4
<1>7. ASSUME Decided, NEW i \in 1 .. Len(o), NEW j \in 1 .. Len(o), i < j PROVE Ahead(o[i], o[j])
  <2>1. o[i] \in DOMAIN rating /\ o[j] \in DOMAIN rating /\ o[i] # o[j]
    BY <1>4, <1>6, <1>7
  <2>2. ~Ahead(o[j], o[i])
    BY <1>4, <1>7 DEF OrderOf
  <2>3. QED
    BY <1>7, <2>1, <2>2, AheadStrict
<1>8. QED
  BY <1>2, <1>3, <1>4, <1>5, <1>6, <1>7

\* There is one such order at most.
LEMMA OneOrder ==
  ASSUME ReadsTyped, Decided, NEW o, NEW q, OrderOf(o), OrderOf(q)
  PROVE  o = q
<1> DEFINE R == {e \in present \X present : Ahead(e[1], e[2])}
<1>1. /\ o \in Permutation(present) /\ IsFiniteSet(present) /\ DOMAIN o = 1 .. Len(o)
      /\ \A i \in 1 .. Len(o) : o[i] \in present
      /\ \A i, j \in 1 .. Len(o) : i < j => Ahead(o[i], o[j])
  BY OrderFacts
<1>2. /\ q \in Permutation(present) /\ DOMAIN q = 1 .. Len(q)
      /\ \A i \in 1 .. Len(q) : q[i] \in present
      /\ \A i, j \in 1 .. Len(q) : i < j => Ahead(q[i], q[j])
  BY OrderFacts
<1>3. present \subseteq DOMAIN rating
  BY DEF ReadsTyped
<1>4. \A x, y \in present : Ahead(x, y) => ~Ahead(y, x)
  BY <1>3, AheadStrict
<1>5. \A x, y \in present : <<x, y>> \in R <=> Ahead(x, y)
  OBVIOUS
<1> HIDE DEF R
<1>6. \A i, j \in DOMAIN o : i < j => <<o[i], o[j]>> \in R
  BY <1>1, <1>5
<1>7. \A i, j \in DOMAIN q : i < j => <<q[i], q[j]>> \in R
  BY <1>2, <1>5
<1>8. \A x, y \in present : <<x, y>> \in R => <<y, x>> \notin R
  BY <1>4, <1>5
<1>9. QED
  BY <1>1, <1>2, <1>6, <1>7, <1>8, UniqueOrder

\* The page that is read: as many tickets as the batch, the limit and the order leave.
LEMMA PageFacts ==
  ASSUME ReadsTyped, NEW o, OrderOf(o), Len(export.written) < MaxExportRows
  PROVE  /\ Page(o) \in Seq(Shelf) /\ Len(Page(o)) \in Nat /\ DOMAIN Page(o) = 1 .. Len(Page(o))
         /\ \A i \in 1 .. Len(Page(o)) :
              export.offset + i \in 1 .. Len(o) /\ Page(o)[i] = o[export.offset + i]
         /\ Len(Page(o)) <= BatchSize /\ Len(Page(o)) <= MaxExportRows - Len(export.written)
         /\ \/ Len(Page(o)) = BatchSize
            \/ Len(Page(o)) = MaxExportRows - Len(export.written)
            \/ export.offset + Len(Page(o)) >= Len(o)
<1>1. PICK left : left = MaxExportRows - Len(export.written)
  OBVIOUS
<1>2. PICK most : most = IF BatchSize < left THEN BatchSize ELSE left
  OBVIOUS
<1>3. PICK k : k = export.offset
  OBVIOUS
<1>4. PICK top : top = IF k + most < Len(o) THEN k + most ELSE Len(o)
  OBVIOUS
<1>5. o \in Seq(Shelf)
  BY OrderFacts
<1>6. k \in Nat /\ Len(export.written) \in Nat
  BY <1>3 DEF ReadsTyped, ExportRow
<1>7. BatchSize \in Nat \ {0} /\ MaxExportRows \in Nat \ {0}
  BY ReadsAssumption
<1>8. left \in Nat \ {0}
  BY <1>1, <1>6, <1>7
<1>9. most \in Nat \ {0} /\ most <= BatchSize /\ most <= left /\ (most = BatchSize \/ most = left)
  BY <1>2, <1>7, <1>8
<1>10. Page(o) = SubSeq(o, k + 1, top)
  BY <1>1, <1>2, <1>3, <1>4 DEF Page
<1>11. PICK p : p = Page(o)
  OBVIOUS
<1>12. /\ p \in Seq(Shelf) /\ Len(p) \in Nat /\ DOMAIN p = 1 .. Len(p)
       /\ \A i \in 1 .. Len(p) : k + i \in 1 .. Len(o) /\ p[i] = o[k + i]
       /\ Len(p) <= most
       /\ Len(p) = most \/ k + Len(p) >= Len(o)
  <2>1. p = SubSeq(o, k + 1, top) /\ most \in Nat \ {0} /\ k \in Nat /\ Len(o) \in Nat
    BY <1>5, <1>6, <1>9, <1>10, <1>11
  <2>2. k + 1 \in Int /\ top \in Int /\ top <= Len(o) /\ top <= k + most
        /\ (top = k + most \/ top = Len(o))
    BY <1>4, <2>1
  <2>3. \A i \in k + 1 .. top : o[i] \in Shelf
    BY <1>5, <2>1, <2>2
  <2>4. /\ p \in Seq(Shelf)
        /\ Len(p) = IF k + 1 <= top THEN top - (k + 1) + 1 ELSE 0
        /\ \A i \in 1 .. top - (k + 1) + 1 : p[i] = o[k + 1 + i - 1]
    BY <2>1, <2>2, <2>3, SubSeqProperties
  <2>5. Len(p) \in Nat /\ DOMAIN p = 1 .. Len(p)
    BY <2>4
  <2>6. Len(p) = 0 \/ Len(p) = top - k
    <3>1. Len(p) = IF k + 1 <= top THEN top - (k + 1) + 1 ELSE 0
      BY <2>4
    <3>2. QED
      BY <2>1, <2>2, <3>1
  <2>7. ASSUME NEW i \in 1 .. Len(p)
        PROVE  k + i \in 1 .. Len(o) /\ p[i] = o[k + i]
    <3>1. i \in Nat /\ i >= 1 /\ k + i <= top /\ i \in 1 .. top - (k + 1) + 1
      BY <2>1, <2>2, <2>5, <2>6
    <3>2. k + 1 + i - 1 = k + i /\ k + i \in 1 .. Len(o)
      BY <2>1, <2>2, <3>1
    <3>3. p[i] = o[k + 1 + i - 1]
      BY <2>4, <3>1
    <3>4. QED
      BY <3>2, <3>3
  <2>8. Len(p) <= most /\ (Len(p) = most \/ k + Len(p) >= Len(o))
    BY <2>1, <2>2, <2>4
  <2>9. QED
    BY <2>4, <2>5, <2>7, <2>8
<1>13. Len(p) \in Nat /\ Len(p) <= most
  BY <1>12
<1>14. Len(p) <= BatchSize /\ Len(p) <= left
  BY <1>7, <1>8, <1>9, <1>13
<1>15. Len(p) = BatchSize \/ Len(p) = left \/ k + Len(p) >= Len(o)
  BY <1>9, <1>12, Zenon
<1>16. QED
  BY <1>1, <1>3, <1>11, <1>12, <1>14, <1>15

\* A sequence holds as many different elements as it is long, or fewer.
LEMMA ImageSize ==
  ASSUME NEW S, NEW n \in Nat, NEW f \in [1 .. n -> S], NEW T, T = {f[i] : i \in 1 .. n}
  PROVE  IsFiniteSet(T) /\ Cardinality(T) \in Nat /\ Cardinality(T) <= n
<1>1. IsFiniteSet(1 .. n) /\ Cardinality(1 .. n) = n
  BY FS_Interval
<1>2. f \in Surjection(1 .. n, T)
  BY DEF Surjection
<1>3. QED
  BY <1>1, <1>2, FS_Surjection, FS_CardinalityType

\* The rows that are written: of each place of the page that has a row yet, in turn.
LEMMA BatchFacts ==
  ASSUME ReadsTyped, NEW turn \in InTurn(Left),
         NEW batch, batch = [n \in DOMAIN turn |-> export.page[turn[n]]]
  PROVE  /\ batch \in Seq(Shelf) /\ Len(batch) \in Nat
         /\ DOMAIN batch = 1 .. Len(batch) /\ DOMAIN turn = 1 .. Len(batch)
         /\ \A n \in 1 .. Len(batch) :
              turn[n] \in Left /\ batch[n] = export.page[turn[n]] /\ batch[n] \in PageRows
         /\ \A m, n \in 1 .. Len(batch) : m # n => turn[m] # turn[n]
         /\ \A i \in Left : \E n \in 1 .. Len(batch) : turn[n] = i
<1>1. export.page \in Seq(Shelf)
  BY DEF ReadsTyped, ExportRow
<1>2. Left \subseteq DOMAIN export.page /\ DOMAIN export.page = 1 .. Len(export.page) /\ Len(export.page) \in Nat
  BY <1>1 DEF Left
<1>3. IsFiniteSet(Left)
  <2>1. PICK l \in Nat : l = Len(export.page)
    BY <1>2
  <2>2. IsFiniteSet(1 .. l) /\ Left \subseteq 1 .. l
    BY <1>2, <2>1, FS_Interval
  <2>3. QED
    BY <2>2, FS_Subset
<1>4. turn \in Permutation(Left)
  BY DEF InTurn
<1>5. PICK c : c = Cardinality(Left)
  OBVIOUS
<1>6. /\ c \in Nat /\ DOMAIN turn = 1 .. c
      /\ \A m, n \in 1 .. c : m # n => turn[m] # turn[n]
      /\ \A i \in Left : \E n \in 1 .. c : turn[n] = i
  BY <1>3, <1>4, <1>5, PermutationMeetsAll
<1>7. turn \in [1 .. c -> Left]
  BY <1>4, <1>5 DEF Permutation
<1>8. \A n \in 1 .. c : turn[n] \in DOMAIN export.page
  BY <1>2, <1>7
<1>9. \A n \in 1 .. c : export.page[turn[n]] \in Shelf
  BY <1>1, <1>8
<1>10. batch \in [1 .. c -> Shelf]
  BY <1>6, <1>9
<1>11. batch \in Seq(Shelf) /\ Len(batch) = c /\ DOMAIN batch = 1 .. c
  BY <1>6, <1>10
<1>12. \A n \in 1 .. c : turn[n] \in Left /\ batch[n] = export.page[turn[n]] /\ batch[n] \in PageRows
  BY <1>6, <1>7, <1>8 DEF PageRows
<1>13. QED
  BY <1>6, <1>11, <1>12

\* What the export's order depends on.
LEMMA AheadKept ==
  ASSUME UNCHANGED rating, export'.bySla = export.bySla, export'.up = export.up
  PROVE  /\ \A s, t : Ahead(s, t)' <=> Ahead(s, t)
         /\ Decided' <=> Decided
BY DEF Ahead, SlaBefore, Before, Decided, Tied

LEMMA OrderKept ==
  ASSUME UNCHANGED <<present, rating>>, export'.bySla = export.bySla, export'.up = export.up
  PROVE  \A o : OrderOf(o)' <=> OrderOf(o)
BY AheadKept DEF OrderOf

LEMMA ReadsStarts == ReadsInit => ReadsSound
<1> SUFFICES ASSUME ReadsInit PROVE ReadsSound
  OBVIOUS
<1>1. NoExport \in ExportRow /\ NoExport.pc = "none" /\ NoExport.written = <<>> /\ NoExport.page = <<>>
  BY DEF NoExport, ExportRow
<1>2. WrittenRows = {} /\ PageRows = {}
  BY <1>1 DEF ReadsInit, WrittenRows, PageRows
<1>3. ReadsTyped
  BY <1>1, <1>2, ReadsAssumption DEF ReadsInit, ReadsTyped, Ratings
<1>4. InOrder /\ NoneAgain
  BY <1>1 DEF ReadsInit, InOrder, NoneAgain
<1>5. QED
  BY <1>3, <1>4 DEF ReadsSound

-------------------------------------------------------------------------------
\* What a step of the export does to its record.
LEMMA ExportBegun ==
  ASSUME NEW bySla \in BOOLEAN, NEW up \in BOOLEAN, BeginExport(bySla, up)
  PROVE  /\ export' \in ExportRow /\ export'.pc = "batch" /\ export'.offset = 0
         /\ export'.page = <<>> /\ export'.written = <<>>
         /\ disturbed' = {} /\ UNCHANGED <<present, rating>>
<1>1. NoExport \in ExportRow
  BY DEF NoExport, ExportRow
<1>2. /\ NoExport.offset = 0 /\ NoExport.page = <<>> /\ NoExport.written = <<>>
      /\ export' = [NoExport EXCEPT !.pc = "batch", !.bySla = bySla, !.up = up]
      /\ disturbed' = {} /\ UNCHANGED <<present, rating>>
  BY DEF BeginExport, NoExport
<1>3. QED
  BY <1>1, <1>2 DEF ExportRow

LEMMA PageRead ==
  ASSUME ReadsTyped, ReadPage
  PROVE  /\ export' \in ExportRow /\ UNCHANGED <<present, rating, disturbed>>
         /\ export'.bySla = export.bySla /\ export'.up = export.up /\ export'.aborted = export.aborted
         /\ export'.offset = export.offset /\ export'.written = export.written
         /\ export.pc = "batch"
         /\ \/ /\ Len(export.written) >= MaxExportRows \/ export.aborted
               /\ export'.pc = "ended" /\ export'.page = export.page
            \/ /\ Len(export.written) < MaxExportRows /\ ~export.aborted
               /\ export'.pc = "write"
               /\ \E o : OrderOf(o) /\ export'.page = Page(o)
<1>1. export \in ExportRow
  BY DEF ReadsTyped
<1>2. UNCHANGED <<present, rating, disturbed>> /\ export.pc = "batch"
  BY DEF ReadPage
<1>3. Len(export.written) \in Nat /\ MaxExportRows \in Nat
  BY <1>1, ReadsAssumption DEF ExportRow
<1>4. CASE Len(export.written) >= MaxExportRows \/ export.aborted
  <2>1. export' = [export EXCEPT !.pc = "ended"]
    BY <1>4 DEF ReadPage
  <2>2. QED
    BY <1>1, <1>2, <1>4, <2>1 DEF ExportRow
<1>5. CASE ~(Len(export.written) >= MaxExportRows \/ export.aborted)
  <2>1. PICK o \in Sorted(present, export.bySla, export.up) :
          export' = [export EXCEPT !.page = Page(o), !.pc = "write"]
    BY <1>5 DEF ReadPage
  <2>2. OrderOf(o)
    BY Orders
  <2>3. Len(export.written) < MaxExportRows /\ ~export.aborted
    BY <1>3, <1>5
  <2>4. Page(o) \in Seq(Shelf)
    BY <2>2, <2>3, PageFacts
  <2>5. PICK p \in Seq(Shelf) : p = Page(o)
    BY <2>4
  <2>6. export' = [export EXCEPT !.page = p, !.pc = "write"]
    BY <2>1, <2>5
  <2>7. export' \in ExportRow
    BY <1>1, <2>6 DEF ExportRow
  <2>8. /\ export'.bySla = export.bySla /\ export'.up = export.up /\ export'.aborted = export.aborted
        /\ export'.offset = export.offset /\ export'.written = export.written
        /\ export'.pc = "write" /\ export'.page = p
    BY <1>1, <2>6 DEF ExportRow
  <2>9. QED
    BY <1>2, <2>2, <2>3, <2>5, <2>7, <2>8
<1>6. QED
  BY <1>4, <1>5

LEMMA PageWritten ==
  ASSUME ReadsTyped, WritePage
  PROVE  \E turn \in InTurn(Left), batch \in Seq(Shelf) :
           /\ batch = [n \in DOMAIN turn |-> export.page[turn[n]]]
           /\ export' \in ExportRow /\ UNCHANGED <<present, rating, disturbed>>
           /\ export'.bySla = export.bySla /\ export'.up = export.up /\ export'.aborted = export.aborted
           /\ export'.offset = export.offset + Len(batch)
           /\ export'.written = (IF export.aborted THEN export.written ELSE export.written \o batch)
           /\ export'.page = <<>>
           /\ export.pc = "write"
           /\ export'.pc = (IF Len(batch) < BatchSize THEN "ended" ELSE "batch")
<1>1. export \in ExportRow
  BY DEF ReadsTyped
<1>2. UNCHANGED <<present, rating, disturbed>> /\ export.pc = "write"
  BY DEF WritePage
<1>3. PICK turn \in InTurn(Left) :
        \E b : /\ b = [n \in DOMAIN turn |-> export.page[turn[n]]]
              /\ export' = [export EXCEPT !.written = @ \o (IF export.aborted THEN <<>> ELSE b),
                                          !.offset = @ + Len(b), !.page = <<>>,
                                          !.pc = IF Len(b) < BatchSize THEN "ended" ELSE "batch"]
  BY DEF WritePage
<1>4. PICK b : /\ b = [n \in DOMAIN turn |-> export.page[turn[n]]]
               /\ export' = [export EXCEPT !.written = @ \o (IF export.aborted THEN <<>> ELSE b),
                                           !.offset = @ + Len(b), !.page = <<>>,
                                           !.pc = IF Len(b) < BatchSize THEN "ended" ELSE "batch"]
  BY <1>3
<1>5. b \in Seq(Shelf) /\ Len(b) \in Nat
  BY <1>4, BatchFacts
<1>6. export.written \in Seq(Shelf) /\ export.offset \in Nat /\ <<>> \in Seq(Shelf)
  BY <1>1 DEF ExportRow
<1>7. export.written \o <<>> = export.written
  BY <1>6, ConcatEmptySeq
<1>8. export.written \o b \in Seq(Shelf)
  BY <1>5, <1>6
<1>9. PICK w \in Seq(Shelf) : w = IF export.aborted THEN export.written ELSE export.written \o b
  BY <1>6, <1>8
<1>10. PICK c \in {"ended", "batch"}, k \in Nat :
        c = (IF Len(b) < BatchSize THEN "ended" ELSE "batch") /\ k = export.offset + Len(b)
  BY <1>5, <1>6
<1>11. export' = [export EXCEPT !.written = w, !.offset = k, !.page = <<>>, !.pc = c]
  BY <1>4, <1>7, <1>9, <1>10
<1>12. export' \in ExportRow
  BY <1>1, <1>6, <1>11 DEF ExportRow
<1>13. /\ export'.bySla = export.bySla /\ export'.up = export.up /\ export'.aborted = export.aborted
       /\ export'.offset = export.offset + Len(b) /\ export'.written = w /\ export'.page = <<>>
       /\ export'.pc = (IF Len(b) < BatchSize THEN "ended" ELSE "batch")
  BY <1>1, <1>10, <1>11 DEF ExportRow
<1>14. b = [n \in DOMAIN turn |-> export.page[turn[n]]]
  BY <1>4
<1>15. QED
  BY <1>2, <1>5, <1>9, <1>13, <1>14, <1>12

LEMMA ResponseClosed ==
  ASSUME ReadsTyped, CloseResponse
  PROVE  /\ export' \in ExportRow /\ UNCHANGED <<present, rating, disturbed>>
         /\ export'.bySla = export.bySla /\ export'.up = export.up /\ export'.aborted = TRUE
         /\ export'.offset = export.offset /\ export'.written = export.written
         /\ export'.page = export.page /\ export'.pc = export.pc /\ export.pc \in {"batch", "write"}
BY DEF ReadsTyped, CloseResponse, ExportRow

\* Rows behind rows: both keep to a sequence that both follow, and differ if they did.
LEMMA RowsContinue ==
  ASSUME NEW S, NEW a \in Seq(S), NEW b \in Seq(S), NEW o,
         \A i \in 1 .. Len(a) : a[i] = o[i], \A n \in 1 .. Len(b) : b[n] = o[Len(a) + n]
  PROVE  Len(a \o b) = Len(a) + Len(b) /\ \A i \in 1 .. Len(a) + Len(b) : (a \o b)[i] = o[i]
<1>1. /\ Len(a \o b) = Len(a) + Len(b)
      /\ \A i \in 1 .. Len(a) + Len(b) : (a \o b)[i] = IF i <= Len(a) THEN a[i] ELSE b[i - Len(a)]
  BY ConcatProperties
<1>2. ASSUME NEW i \in 1 .. Len(a) + Len(b) PROVE (a \o b)[i] = o[i]
  <2>1. CASE i <= Len(a)
    BY <1>1, <2>1
  <2>2. CASE ~(i <= Len(a))
    <3>1. PICK n : n = i - Len(a)
      OBVIOUS
    <3>2. n \in 1 .. Len(b) /\ Len(a) + n = i
      BY <2>2, <3>1
    <3>3. (a \o b)[i] = b[n]
      BY <1>1, <2>2, <3>1
    <3>4. QED
      BY <3>2, <3>3
  <2>3. QED
    BY <2>1, <2>2
<1>3. QED
  BY <1>1, <1>2

LEMMA RowsDistinct ==
  ASSUME NEW S, NEW a \in Seq(S), NEW b \in Seq(S),
         \A i, j \in 1 .. Len(a) : i # j => a[i] # a[j],
         \A i, j \in 1 .. Len(b) : i # j => b[i] # b[j],
         \A i \in 1 .. Len(a), j \in 1 .. Len(b) : a[i] # b[j]
  PROVE  \A i, j \in DOMAIN (a \o b) : i # j => (a \o b)[i] # (a \o b)[j]
<1>1. /\ DOMAIN (a \o b) = 1 .. Len(a) + Len(b)
      /\ \A i \in 1 .. Len(a) + Len(b) : (a \o b)[i] = IF i <= Len(a) THEN a[i] ELSE b[i - Len(a)]
  BY ConcatProperties
<1>2. PICK l \in Nat, m \in Nat : l = Len(a) /\ m = Len(b)
  OBVIOUS
<1>3. ASSUME NEW i \in 1 .. l + m, NEW j \in 1 .. l + m, i # j
      PROVE  (a \o b)[i] # (a \o b)[j]
  <2>1. (i <= l => i \in 1 .. Len(a)) /\ (j <= l => j \in 1 .. Len(a))
    BY <1>2
  <2>2. (~(i <= l) => i - l \in 1 .. Len(b)) /\ (~(j <= l) => j - l \in 1 .. Len(b))
    BY <1>2
  <2>3. i - l # j - l
    BY <1>3
  <2>4. (i <= l => (a \o b)[i] = a[i]) /\ (~(i <= l) => (a \o b)[i] = b[i - l])
    BY <1>1, <1>2
  <2>5. (j <= l => (a \o b)[j] = a[j]) /\ (~(j <= l) => (a \o b)[j] = b[j - l])
    BY <1>1, <1>2
  <2>6. QED
    BY <1>3, <2>1, <2>2, <2>3, <2>4, <2>5, Zenon
<1>4. QED
  BY <1>1, <1>2, <1>3

\* What all rows of two sequences have in common, the rows of both together have.
LEMMA RowsOfBoth ==
  ASSUME NEW S, NEW a \in Seq(S), NEW b \in Seq(S), NEW X,
         \A i \in 1 .. Len(a) : a[i] \in X, \A i \in 1 .. Len(b) : b[i] \in X
  PROVE  \A i \in DOMAIN (a \o b) : (a \o b)[i] \in X
<1>1. a \in Seq(X) /\ b \in Seq(X)
  OBVIOUS
<1>2. a \o b \in Seq(X)
  BY <1>1
<1>3. PICK w : w = a \o b
  OBVIOUS
<1>4. w \in Seq(X)
  BY <1>2, <1>3
<1>5. \A i \in DOMAIN w : w[i] \in X
  BY <1>4
<1>6. QED
  BY <1>3, <1>5

\* Tickets come, go and are rated anew: never the export itself.
LEMMA TicketsMove ==
  ASSUME ReadsTyped, NEW t \in Shelf,
         FileNext(t) \/ DeleteTicket(t) \/ \E r \in {"AtRisk", "Breached"} : Rate(t, r)
  PROVE  /\ UNCHANGED export
         /\ present' \subseteq DOMAIN rating' /\ DOMAIN rating \subseteq DOMAIN rating'
         /\ DOMAIN rating' \subseteq Shelf /\ rating' \in [DOMAIN rating' -> Ratings]
         /\ disturbed' \subseteq {"filed", "deleted", "rated"}
         /\ \/ export.pc = "none"
            \/ disturbed' \cap {"filed", "rated"} # {}
            \/ UNCHANGED rating /\ present' \subseteq present /\ disturbed \subseteq disturbed' /\ "deleted" \in disturbed'
<1> USE DEF ReadsTyped
<1>1. CASE FileNext(t)
  <2>1. rating' = [s \in DOMAIN rating \cup {t} |-> IF s = t THEN "none" ELSE rating[s]]
    BY <1>1 DEF FileNext
  <2>2. rating' \in [DOMAIN rating \cup {t} -> Ratings]
    BY <2>1 DEF Ratings
  <2>3. QED
    BY <1>1, <2>2 DEF FileNext, Move
<1>2. CASE DeleteTicket(t)
  BY <1>2 DEF DeleteTicket, Move
<1>3. ASSUME NEW r \in {"AtRisk", "Breached"}, Rate(t, r)
      PROVE  /\ UNCHANGED <<export, present>> /\ DOMAIN rating' = DOMAIN rating
             /\ rating' \in [DOMAIN rating -> Ratings]
             /\ disturbed' \subseteq {"filed", "deleted", "rated"}
             /\ export.pc = "none" \/ "rated" \in disturbed'
  BY <1>3 DEF Rate, Move, Ratings
<1>4. QED
  BY <1>1, <1>2, <1>3

\* Only rows of the page are written.
LEMMA RowsFromPage ==
  ASSUME ReadsTyped, WritePage
  PROVE  WrittenRows' \subseteq WrittenRows \cup PageRows
<1>1. PICK turn \in InTurn(Left), b \in Seq(Shelf) :
        /\ b = [n \in DOMAIN turn |-> export.page[turn[n]]]
        /\ export'.written = (IF export.aborted THEN export.written ELSE export.written \o b)
  BY PageWritten
<1>2. \A n \in 1 .. Len(b) : b[n] \in PageRows
  BY <1>1, BatchFacts
<1>3. export.written \in Seq(Shelf)
  BY DEF ReadsTyped, ExportRow
<1>4. CASE export.aborted
  BY <1>1, <1>4 DEF WrittenRows
<1>5. CASE ~export.aborted
  <2>1. PICK X : X = WrittenRows \cup PageRows
    OBVIOUS
  <2>2. \A i \in 1 .. Len(export.written) : export.written[i] \in X
    BY <1>3, <2>1 DEF WrittenRows
  <2>3. \A i \in 1 .. Len(b) : b[i] \in X
    BY <1>2, <2>1
  <2>4. \A i \in DOMAIN (export.written \o b) : (export.written \o b)[i] \in X
    BY <1>3, <2>2, <2>3, RowsOfBoth
  <2>5. export'.written = export.written \o b
    BY <1>1, <1>5
  <2>6. QED
    BY <2>1, <2>4, <2>5 DEF WrittenRows
<1>6. QED
  BY <1>4, <1>5

LEMMA ReadsTypedStep ==
  ASSUME ReadsTyped, ReadsNext
  PROVE  ReadsTyped'
<1>1. ASSUME NEW bySla \in BOOLEAN, NEW up \in BOOLEAN, BeginExport(bySla, up) PROVE ReadsTyped'
  <2>1. /\ export' \in ExportRow /\ export'.pc = "batch" /\ export'.page = <<>> /\ export'.written = <<>>
        /\ disturbed' = {} /\ UNCHANGED <<present, rating>>
    BY <1>1, ExportBegun
  <2>2. WrittenRows' = {} /\ PageRows' = {}
    BY <2>1 DEF WrittenRows, PageRows
  <2>3. QED
    BY <2>1, <2>2 DEF ReadsTyped
<1>2. CASE ReadPage
  <2>1. /\ export' \in ExportRow /\ UNCHANGED <<present, rating, disturbed>>
        /\ export'.written = export.written /\ export.pc = "batch"
        /\ export'.pc \in {"ended", "write"}
    BY <1>2, PageRead
  <2>2. WrittenRows' = WrittenRows
    BY <2>1 DEF WrittenRows
  <2>3. PageRows' \subseteq DOMAIN rating
    <3>1. CASE export'.page = export.page
      BY <3>1 DEF PageRows, ReadsTyped
    <3>2. CASE export'.page # export.page
      <4>1. PICK o : OrderOf(o) /\ export'.page = Page(o) /\ Len(export.written) < MaxExportRows
        BY <1>2, <3>2, PageRead
      <4>2. PICK p : p = Page(o)
        OBVIOUS
      <4>3. /\ DOMAIN p = 1 .. Len(p)
            /\ \A i \in 1 .. Len(p) : export.offset + i \in 1 .. Len(o) /\ p[i] = o[export.offset + i]
        BY <4>1, <4>2, PageFacts
      <4>4. \A i \in 1 .. Len(o) : o[i] \in DOMAIN rating
        BY <4>1, OrderFacts
      <4>5. \A i \in DOMAIN p : p[i] \in DOMAIN rating
        BY <4>3, <4>4
      <4>6. QED
        BY <4>1, <4>2, <4>5 DEF PageRows
    <3>3. QED
      BY <3>1, <3>2
  <2>4. QED
    BY <2>1, <2>2, <2>3 DEF ReadsTyped
<1>3. CASE WritePage
  <2>1. /\ export' \in ExportRow /\ UNCHANGED <<present, rating, disturbed>>
        /\ export'.page = <<>> /\ export'.pc \in {"ended", "batch"}
    BY <1>3, PageWritten
  <2>2. WrittenRows' \subseteq WrittenRows \cup PageRows
    BY <1>3, RowsFromPage
  <2>3. PageRows' = {}
    BY <2>1 DEF PageRows
  <2>4. QED
    BY <2>1, <2>2, <2>3 DEF ReadsTyped
<1>4. CASE CloseResponse
  <2>1. /\ export' \in ExportRow /\ UNCHANGED <<present, rating, disturbed>>
        /\ export'.written = export.written /\ export'.page = export.page
        /\ export'.pc = export.pc
    BY <1>4, ResponseClosed
  <2>2. WrittenRows' = WrittenRows /\ PageRows' = PageRows
    BY <2>1 DEF WrittenRows, PageRows
  <2>3. QED
    BY <2>1, <2>2 DEF ReadsTyped
<1>5. ASSUME NEW t \in Shelf,
             FileNext(t) \/ DeleteTicket(t) \/ \E r \in {"AtRisk", "Breached"} : Rate(t, r)
      PROVE  ReadsTyped'
  <2>1. /\ UNCHANGED export
        /\ present' \subseteq DOMAIN rating' /\ DOMAIN rating \subseteq DOMAIN rating'
        /\ DOMAIN rating' \subseteq Shelf /\ rating' \in [DOMAIN rating' -> Ratings]
        /\ disturbed' \subseteq {"filed", "deleted", "rated"}
    BY <1>5, TicketsMove
  <2>2. WrittenRows' = WrittenRows /\ PageRows' = PageRows
    BY <2>1 DEF WrittenRows, PageRows
  <2>3. QED
    BY <2>1, <2>2 DEF ReadsTyped
<1>6. QED
  BY <1>1, <1>2, <1>3, <1>4, <1>5 DEF ReadsNext

\* An export that nothing touches stays on the one order of the tickets.
LEMMA InOrderRead ==
  ASSUME ReadsTyped, InOrder, ReadPage
  PROVE  InOrder'
<1> SUFFICES ASSUME disturbed' = {}, ~export'.aborted, Decided'
             PROVE  /\ export'.offset = Len(export'.written)
                    /\ Len(export'.written) <= MaxExportRows
                    /\ \E o \in Seq(Shelf) : OrderOf(o)' /\ Follows(o)'
  BY DEF InOrder
<1>1. /\ UNCHANGED <<present, rating, disturbed>>
      /\ export'.bySla = export.bySla /\ export'.up = export.up /\ export'.aborted = export.aborted
      /\ export'.offset = export.offset /\ export'.written = export.written
      /\ export.pc = "batch"
  BY PageRead
<1>2. Decided
  BY <1>1, AheadKept
<1>3. /\ export.offset = Len(export.written) /\ Len(export.written) <= MaxExportRows
      /\ \/ export.written = <<>>
         \/ \E o \in Seq(Shelf) : OrderOf(o) /\ Follows(o)
  BY <1>1, <1>2 DEF InOrder
<1>4. Len(export.written) \in Nat /\ MaxExportRows \in Nat \ {0}
  BY ReadsAssumption DEF ReadsTyped, ExportRow
<1>5. \A o : OrderOf(o)' <=> OrderOf(o)
  BY <1>1, OrderKept
<1>6. CASE Len(export.written) >= MaxExportRows
  <2>1. export'.pc = "ended" /\ Len(export.written) = MaxExportRows
    BY <1>3, <1>4, <1>6, PageRead
  <2>2. export.written # <<>>
    BY <1>4, <2>1
  <2>3. PICK o \in Seq(Shelf) : OrderOf(o) /\ Follows(o)
    BY <1>3, <2>2
  <2>4. Len(o) \in Nat /\ Len(export.written) <= Len(o)
    BY <2>3 DEF Follows
  <2>5. Len(export.written) = IF Len(o) < MaxExportRows THEN Len(o) ELSE MaxExportRows
    BY <1>4, <2>1, <2>4
  <2>6. Follows(o)'
    BY <1>1, <2>1, <2>3, <2>5 DEF Follows
  <2>7. QED
    BY <1>1, <1>3, <1>5, <2>3, <2>6
<1>7. CASE Len(export.written) < MaxExportRows
  <2>1. PICK o : OrderOf(o) /\ export'.page = Page(o) /\ export'.pc = "write"
    BY <1>1, <1>4, <1>7, PageRead
  <2>2. o \in Seq(Shelf) /\ Len(o) \in Nat
    BY <2>1, OrderFacts
  <2>3. Len(export.written) <= Len(o) /\ \A i \in 1 .. Len(export.written) : export.written[i] = o[i]
    <3>1. CASE export.written = <<>>
      BY <2>2, <3>1
    <3>2. CASE export.written # <<>>
      <4>1. PICK q \in Seq(Shelf) : OrderOf(q) /\ Follows(q)
        BY <1>3, <3>2
      <4>2. q = o
        BY <1>2, <2>1, <4>1, OneOrder
      <4>3. QED
        BY <4>1, <4>2 DEF Follows
    <3>3. QED
      BY <3>1, <3>2
  <2>4. Page(o)' = Page(o)
    BY <1>1 DEF Page
  <2>5. Follows(o)'
    BY <1>1, <1>7, <2>1, <2>3, <2>4 DEF Follows
  <2>6. QED
    BY <1>1, <1>3, <1>5, <2>1, <2>2, <2>5
<1>8. QED
  BY <1>4, <1>6, <1>7

LEMMA InOrderWrite ==
  ASSUME ReadsTyped, InOrder, WritePage
  PROVE  InOrder'
<1> SUFFICES ASSUME disturbed' = {}, ~export'.aborted, Decided'
             PROVE  /\ export'.offset = Len(export'.written)
                    /\ Len(export'.written) <= MaxExportRows
                    /\ \E o \in Seq(Shelf) : OrderOf(o)' /\ Follows(o)'
  BY DEF InOrder
<1>1. PICK turn \in InTurn(Left), b \in Seq(Shelf) :
        /\ b = [n \in DOMAIN turn |-> export.page[turn[n]]]
        /\ UNCHANGED <<present, rating, disturbed>>
        /\ export'.bySla = export.bySla /\ export'.up = export.up /\ export'.aborted = export.aborted
        /\ export'.offset = export.offset + Len(b)
        /\ export'.written = (IF export.aborted THEN export.written ELSE export.written \o b)
        /\ export.pc = "write"
        /\ export'.pc = (IF Len(b) < BatchSize THEN "ended" ELSE "batch")
  BY PageWritten
<1>2. Decided
  BY <1>1, AheadKept
<1>3. PICK o \in Seq(Shelf) : OrderOf(o) /\ Follows(o)
  BY <1>1, <1>2 DEF InOrder
<1>4. /\ export.offset = Len(export.written) /\ Len(export.written) <= Len(o)
      /\ \A i \in 1 .. Len(export.written) : export.written[i] = o[i]
      /\ Len(export.written) < MaxExportRows /\ export.page = Page(o)
  BY <1>1, <1>2, <1>3 DEF InOrder, Follows
<1>5. PICK l \in Nat : l = Len(export.written)
  BY DEF ReadsTyped, ExportRow
<1>6. PICK m \in Nat : m = Len(export.page)
  BY DEF ReadsTyped, ExportRow
<1>7. /\ DOMAIN export.page = 1 .. m
      /\ \A i \in 1 .. m : l + i \in 1 .. Len(o) /\ export.page[i] = o[l + i]
      /\ m <= BatchSize /\ m <= MaxExportRows - l
      /\ m = BatchSize \/ m = MaxExportRows - l \/ l + m >= Len(o)
  BY <1>3, <1>4, <1>5, <1>6, PageFacts
<1>8. Len(o) \in Nat /\ \A i \in 1 .. Len(o) : o[i] \in present
  BY <1>3, OrderFacts
<1>9. Left = 1 .. m
  BY <1>7, <1>8 DEF Left
<1>10. turn \in InTurn(1 .. m)
  BY <1>9
<1>11. DOMAIN turn = 1 .. m /\ \A i \in 1 .. m : turn[i] = i
  BY <1>10, InTurnOfAll
<1>12. DOMAIN b = 1 .. m /\ \A i \in 1 .. m : b[i] = o[l + i]
  BY <1>1, <1>7, <1>11
<1>13. Len(b) = m
  BY <1>1, <1>12, BatchFacts
<1>14. export'.written = export.written \o b
  BY <1>1
<1>15. export.written \in Seq(Shelf)
  BY DEF ReadsTyped, ExportRow
<1>16. PICK w : w = export'.written
  OBVIOUS
<1>17. Len(w) = l + m /\ \A i \in 1 .. l + m : w[i] = o[i]
  <2>1. PICK a \in Seq(Shelf) : a = export.written
    BY <1>15
  <2>2. w = a \o b
    BY <1>14, <1>16, <2>1
  <2>3. Len(a) = l /\ Len(b) = m
    BY <1>5, <1>13, <2>1
  <2>4. \A i \in 1 .. Len(a) : a[i] = o[i]
    BY <1>4, <2>1
  <2>5. \A n \in 1 .. Len(b) : b[n] = o[Len(a) + n]
    BY <1>12, <2>3
  <2>6. Len(a \o b) = Len(a) + Len(b) /\ \A i \in 1 .. Len(a) + Len(b) : (a \o b)[i] = o[i]
    BY <2>4, <2>5, RowsContinue
  <2>7. QED
    BY <2>2, <2>3, <2>6
<1>18. \A i \in 1 .. Len(w) : w[i] = o[i]
  BY <1>17
<1>19. MaxExportRows \in Nat \ {0} /\ BatchSize \in Nat \ {0}
  BY ReadsAssumption
<1>20. l <= Len(o) /\ l < MaxExportRows
  BY <1>4, <1>5
<1>21. l + m <= Len(o)
  <2>1. CASE m = 0
    BY <1>8, <1>20, <2>1
  <2>2. CASE m # 0
    <3>1. m \in 1 .. m
      BY <2>2
    <3>2. l + m \in 1 .. Len(o)
      BY <1>7, <3>1
    <3>3. QED
      BY <1>8, <3>2
  <2>3. QED
    BY <2>1, <2>2
<1>22. l + m <= MaxExportRows
  BY <1>7, <1>19
<1>23. m < BatchSize => l + m = IF Len(o) < MaxExportRows THEN Len(o) ELSE MaxExportRows
  <2>1. SUFFICES ASSUME m < BatchSize
                 PROVE  l + m = IF Len(o) < MaxExportRows THEN Len(o) ELSE MaxExportRows
    OBVIOUS
  <2>2. m # BatchSize
    BY <1>19, <2>1
  <2>3. CASE m = MaxExportRows - l
    BY <1>8, <1>19, <1>21, <2>3
  <2>4. CASE l + m >= Len(o)
    BY <1>8, <1>19, <1>21, <1>22, <2>4
  <2>5. QED
    BY <1>7, <2>2, <2>3, <2>4
<1>24. Follows(o)'
  BY <1>1, <1>13, <1>16, <1>17, <1>18, <1>21, <1>23 DEF Follows
<1>25. OrderOf(o)'
  BY <1>1, <1>3, OrderKept
<1>26. QED
  BY <1>1, <1>4, <1>5, <1>13, <1>16, <1>17, <1>22, <1>24, <1>25

LEMMA InOrderStep ==
  ASSUME ReadsTyped, InOrder, ReadsNext
  PROVE  InOrder'
<1>1. ASSUME NEW bySla \in BOOLEAN, NEW up \in BOOLEAN, BeginExport(bySla, up) PROVE InOrder'
  <2>1. export'.pc = "batch" /\ export'.written = <<>> /\ export'.offset = 0
    BY <1>1, ExportBegun
  <2>2. Len(export'.written) = 0 /\ 0 <= MaxExportRows
    BY <2>1, ReadsAssumption
  <2>3. QED
    BY <2>1, <2>2 DEF InOrder
<1>2. CASE CloseResponse
  BY <1>2, ResponseClosed DEF InOrder
<1>3. ASSUME NEW t \in Shelf,
             FileNext(t) \/ DeleteTicket(t) \/ \E r \in {"AtRisk", "Breached"} : Rate(t, r)
      PROVE  InOrder'
  <2>1. UNCHANGED export /\ (export.pc = "none" \/ disturbed' # {})
    BY <1>3, TicketsMove
  <2>2. QED
    BY <2>1 DEF InOrder
<1>4. QED
  BY <1>1, <1>2, <1>3, InOrderRead, InOrderWrite DEF ReadsNext

\* A ticket of the order that is not after all that is written has been skipped over,
\* and every ticket before it too: there are at most as many as the offset.
LEMMA BeyondOffset ==
  ASSUME ReadsTyped, Decided, NEW o, OrderOf(o), NEW F \in SUBSET Shelf,
         Cardinality(F) <= export.offset, \A t \in present : t \in F \/ AfterRows(t),
         NEW j \in 1 .. Len(o), j > export.offset
  PROVE  AfterRows(o[j])
<1>1. /\ Len(o) \in Nat /\ DOMAIN o = 1 .. Len(o)
      /\ \A i \in 1 .. Len(o) : o[i] \in present /\ o[i] \in DOMAIN rating
      /\ \A i, k \in 1 .. Len(o) : i # k => o[i] # o[k]
      /\ \A i, k \in 1 .. Len(o) : i < k => Ahead(o[i], o[k])
  BY OrderFacts
<1>2. SUFFICES ASSUME NEW w \in WrittenRows, ~Ahead(w, o[j]) PROVE FALSE
  BY DEF AfterRows
<1>3. w \in DOMAIN rating
  BY DEF ReadsTyped
<1>4. ASSUME NEW i \in 1 .. j PROVE i \in 1 .. Len(o) /\ o[i] \in F
  <2>1. i \in 1 .. Len(o)
    BY <1>1
  <2>2. ~Ahead(w, o[i])
    <3>1. CASE i = j
      BY <1>2, <3>1
    <3>2. CASE i # j
      <4>1. i < j
        BY <3>2
      <4>2. Ahead(o[i], o[j]) /\ o[i] \in DOMAIN rating /\ o[j] \in DOMAIN rating
        BY <1>1, <2>1, <4>1
      <4>3. QED
        BY <1>2, <1>3, <4>2, AheadStrict
    <3>3. QED
      BY <3>1, <3>2
  <2>3. ~AfterRows(o[i])
    BY <2>2 DEF AfterRows
  <2>4. QED
    BY <1>1, <2>1, <2>3
<1>5. PICK g : g = [i \in 1 .. j |-> o[i]]
  OBVIOUS
<1>6. g \in [1 .. j -> F] /\ \A i, k \in 1 .. j : i # k => g[i] # g[k]
  BY <1>1, <1>4, <1>5
<1>7. g \in Injection(1 .. j, F)
  BY <1>6 DEF Injection, IsInjective
<1>8. IsFiniteSet(F) /\ Cardinality(F) \in Nat
  BY ShelfFinite
<1>9. Cardinality(1 .. j) <= Cardinality(F)
  BY <1>7, <1>8, FS_Injection
<1>10. j \in Nat /\ j >= 1 /\ Cardinality(1 .. j) = j
  BY <1>1, FS_Interval
<1>11. export.offset \in Nat
  BY DEF ReadsTyped, ExportRow
<1>12. QED
  BY <1>8, <1>9, <1>10, <1>11

\* The tickets before the offset are as many as the offset, or fewer.
LEMMA SkippedOver ==
  ASSUME ReadsTyped, NEW o, OrderOf(o)
  PROVE  \E F \in SUBSET Shelf :
           /\ Cardinality(F) <= export.offset
           /\ \A i \in 1 .. Len(o) : i <= export.offset => o[i] \in F
<1>1. PICK k \in Nat : k = export.offset
  BY DEF ReadsTyped, ExportRow
<1>2. Len(o) \in Nat /\ \A i \in 1 .. Len(o) : o[i] \in present
  BY OrderFacts
<1>3. PICK n \in Nat : n <= k /\ n <= Len(o) /\ (n = k \/ n = Len(o))
  <2>1. CASE k <= Len(o)
    BY <1>2, <2>1
  <2>2. CASE ~(k <= Len(o))
    BY <1>2, <2>2
  <2>3. QED
    BY <2>1, <2>2
<1>4. \A i \in 1 .. n : o[i] \in Shelf
  BY <1>2, <1>3 DEF ReadsTyped
<1>5. PICK g : g = [i \in 1 .. n |-> o[i]]
  OBVIOUS
<1>6. g \in [1 .. n -> Shelf]
  BY <1>4, <1>5
<1>7. PICK F : F = {g[i] : i \in 1 .. n}
  OBVIOUS
<1>8. F \subseteq Shelf
  BY <1>6, <1>7
<1>9. Cardinality(F) \in Nat /\ Cardinality(F) <= n
  BY <1>6, <1>7, ImageSize
<1>10. ASSUME NEW i \in 1 .. Len(o), i <= export.offset PROVE o[i] \in F
  <2>1. i \in 1 .. n
    BY <1>1, <1>2, <1>3, <1>10
  <2>2. QED
    BY <1>5, <1>7, <2>1
<1>11. Cardinality(F) <= k
  BY <1>3, <1>9
<1>12. QED
  BY <1>1, <1>8, <1>10, <1>11

LEMMA NoneAgainRead ==
  ASSUME ReadsTyped, NoneAgain, ReadPage
  PROVE  NoneAgain'
<1> SUFFICES ASSUME disturbed' \subseteq {"deleted"}, Decided' PROVE NoneAgain'
  BY DEF NoneAgain
<1>1. /\ UNCHANGED <<present, rating, disturbed>>
      /\ export'.bySla = export.bySla /\ export'.up = export.up /\ export'.aborted = export.aborted
      /\ export'.offset = export.offset /\ export'.written = export.written
      /\ export.pc = "batch"
  BY PageRead
<1>2. Decided /\ disturbed \subseteq {"deleted"}
  BY <1>1, AheadKept
<1>3. \A i, j \in DOMAIN export.written : i # j => export.written[i] # export.written[j]
  BY <1>2 DEF NoneAgain
<1>4. CASE export'.pc # "write"
  <2>1. export'.pc = "ended"
    BY <1>4, PageRead
  <2>2. QED
    BY <1>1, <1>3, <2>1 DEF NoneAgain
<1>5. CASE export'.pc = "write"
  <2>1. PICK o : OrderOf(o) /\ export'.page = Page(o) /\ Len(export.written) < MaxExportRows /\ ~export.aborted
    BY <1>5, PageRead
  <2>2. PICK F \in SUBSET Shelf : /\ Cardinality(F) <= export.offset
                                  /\ \A t \in present : t \in F \/ AfterRows(t)
    BY <1>1, <1>2, <2>1 DEF NoneAgain
  <2>3. PICK G \in SUBSET Shelf : /\ Cardinality(G) <= export.offset
                                  /\ \A i \in 1 .. Len(o) : i <= export.offset => o[i] \in G
    BY <2>1, SkippedOver
  <2>4. PICK p : p = Page(o)
    OBVIOUS
  <2>5. /\ Len(p) \in Nat /\ DOMAIN p = 1 .. Len(p)
        /\ \A i \in 1 .. Len(p) : export.offset + i \in 1 .. Len(o) /\ p[i] = o[export.offset + i]
        /\ \/ Len(p) = BatchSize
           \/ Len(p) = MaxExportRows - Len(export.written)
           \/ export.offset + Len(p) >= Len(o)
    BY <2>1, <2>4, PageFacts
  <2>6. PICK k \in Nat : k = export.offset
    BY DEF ReadsTyped, ExportRow
  <2>7. /\ Len(o) \in Nat
        /\ \A i \in 1 .. Len(o) : o[i] \in present /\ o[i] \in DOMAIN rating
        /\ \A i, j \in 1 .. Len(o) : i # j => o[i] # o[j]
        /\ \A i, j \in 1 .. Len(o) : i < j => Ahead(o[i], o[j])
        /\ \A t \in present : \E i \in 1 .. Len(o) : o[i] = t
    BY <1>2, <2>1, OrderFacts
  <2>8. \A j \in 1 .. Len(o) : j > k => AfterRows(o[j])
    BY <1>2, <2>1, <2>2, <2>6, BeyondOffset
  <2>9. \A i, j \in DOMAIN p : i # j => p[i] # p[j]
    <3>1. SUFFICES ASSUME NEW i \in 1 .. Len(p), NEW j \in 1 .. Len(p), i # j PROVE p[i] # p[j]
      BY <2>5
    <3>2. k + i \in 1 .. Len(o) /\ k + j \in 1 .. Len(o) /\ p[i] = o[k + i] /\ p[j] = o[k + j]
      BY <2>5, <2>6
    <3>3. k + i # k + j
      BY <2>5, <3>1
    <3>4. QED
      BY <2>7, <3>2, <3>3
  <2>10. PageRows' = {p[i] : i \in 1 .. Len(p)}
    BY <2>1, <2>4, <2>5 DEF PageRows
  <2>11. \A t \in PageRows' : AfterRows(t)
    <3>1. SUFFICES ASSUME NEW i \in 1 .. Len(p) PROVE AfterRows(p[i])
      BY <2>10
    <3>2. k + i \in 1 .. Len(o) /\ p[i] = o[k + i] /\ k + i > k
      BY <2>5, <2>6
    <3>3. QED
      BY <2>8, <3>2
  <2>12. ASSUME NEW t \in present
         PROVE  t \in G \/ t \in PageRows' \/ (AfterRows(t) /\ \A s \in PageRows' : Ahead(s, t))
    <3>1. PICK j \in 1 .. Len(o) : o[j] = t
      BY <2>7
    <3>2. CASE j <= k
      BY <2>3, <2>6, <3>1, <3>2
    <3>3. CASE j > k /\ j <= k + Len(p)
      <4>1. PICK i : i = j - k
        OBVIOUS
      <4>2. i \in 1 .. Len(p) /\ k + i = j
        BY <2>5, <2>7, <3>3, <4>1
      <4>3. QED
        BY <2>5, <2>6, <2>10, <3>1, <4>2
    <3>4. CASE j > k + Len(p)
      <4>1. j > k
        BY <2>5, <2>7, <3>4
      <4>2. AfterRows(t)
        BY <2>8, <3>1, <4>1
      <4>3. ASSUME NEW i \in 1 .. Len(p) PROVE Ahead(p[i], t)
        <5>1. k + i \in 1 .. Len(o) /\ p[i] = o[k + i]
          BY <2>5, <2>6
        <5>2. k + i < j
          BY <2>5, <2>7, <3>4
        <5>3. QED
          BY <2>7, <3>1, <5>1, <5>2
      <4>4. QED
        BY <2>10, <4>2, <4>3
    <3>5. QED
      BY <2>5, <2>7, <3>2, <3>3, <3>4
  <2>13. \A s, t : Ahead(s, t)' <=> Ahead(s, t)
    BY <1>1, AheadKept
  <2>14. WrittenRows' = WrittenRows
    BY <1>1 DEF WrittenRows
  <2>15. \A t : (AfterRows(t)' <=> AfterRows(t)) /\ (AfterPage(t)' <=> \A s \in PageRows' : Ahead(s, t))
    BY <2>13, <2>14 DEF AfterRows, AfterPage
  <2>16. \A i, j \in DOMAIN export'.page : i # j => export'.page[i] # export'.page[j]
    BY <2>1, <2>4, <2>9
  <2>17. \A i, j \in DOMAIN export'.written : i # j => export'.written[i] # export'.written[j]
    BY <1>1, <1>3
  <2>18. \A t \in PageRows' : AfterRows(t)'
    BY <2>11, <2>15
  <2>19. \A t \in present' : t \in G \/ t \in PageRows' \/ (AfterRows(t)' /\ AfterPage(t)')
    BY <1>1, <2>12, <2>15
  <2>20. Cardinality(G) <= export'.offset
    BY <1>1, <2>3
  <2>21. QED
    BY <1>5, <2>16, <2>17, <2>18, <2>19, <2>20 DEF NoneAgain
<1>6. QED
  BY <1>4, <1>5

LEMMA NoneAgainWrite ==
  ASSUME ReadsTyped, NoneAgain, WritePage
  PROVE  NoneAgain'
<1> SUFFICES ASSUME disturbed' \subseteq {"deleted"}, Decided' PROVE NoneAgain'
  BY DEF NoneAgain
<1>1. PICK turn \in InTurn(Left), b \in Seq(Shelf) :
        /\ b = [n \in DOMAIN turn |-> export.page[turn[n]]]
        /\ UNCHANGED <<present, rating, disturbed>>
        /\ export'.bySla = export.bySla /\ export'.up = export.up /\ export'.aborted = export.aborted
        /\ export'.offset = export.offset + Len(b)
        /\ export'.written = (IF export.aborted THEN export.written ELSE export.written \o b)
        /\ export.pc = "write"
        /\ export'.pc \in {"ended", "batch"}
  BY PageWritten
<1>2. Decided /\ disturbed \subseteq {"deleted"}
  BY <1>1, AheadKept
<1>3. \A i, j \in DOMAIN export.written : i # j => export.written[i] # export.written[j]
  BY <1>2 DEF NoneAgain
<1>4. CASE export.aborted
  <2>1. export'.written = export.written /\ export'.aborted
    BY <1>1, <1>4
  <2>2. QED
    BY <1>1, <1>3, <2>1 DEF NoneAgain
<1>5. CASE ~export.aborted
  <2>1. /\ \A i, j \in DOMAIN export.page : i # j => export.page[i] # export.page[j]
        /\ \A t \in PageRows : AfterRows(t)
    BY <1>1, <1>2, <1>5 DEF NoneAgain
  <2>2. PICK F \in SUBSET Shelf :
          /\ Cardinality(F) <= export.offset
          /\ \A t \in present : t \in F \/ t \in PageRows \/ (AfterRows(t) /\ AfterPage(t))
    BY <1>1, <1>2, <1>5 DEF NoneAgain
  <2>3. /\ Len(b) \in Nat /\ DOMAIN b = 1 .. Len(b)
        /\ \A n \in 1 .. Len(b) : turn[n] \in Left /\ b[n] = export.page[turn[n]] /\ b[n] \in PageRows
        /\ \A m, n \in 1 .. Len(b) : m # n => turn[m] # turn[n]
        /\ \A i \in Left : \E n \in 1 .. Len(b) : turn[n] = i
    BY <1>1, BatchFacts
  <2>4. PICK a \in Seq(Shelf) : a = export.written
    BY DEF ReadsTyped, ExportRow
  <2>5. export'.written = a \o b
    BY <1>1, <1>5, <2>4
  <2>6. \A i, j \in 1 .. Len(b) : i # j => b[i] # b[j]
    BY <2>1, <2>3 DEF Left
  <2>7. \A i \in 1 .. Len(a) : a[i] \in WrittenRows
    BY <2>4 DEF WrittenRows
  <2>8. ASSUME NEW i \in 1 .. Len(a), NEW j \in 1 .. Len(b) PROVE a[i] # b[j]
    <3>1. Ahead(a[i], b[j])
      BY <2>1, <2>3, <2>7 DEF AfterRows
    <3>2. a[i] \in DOMAIN rating
      BY <2>7 DEF ReadsTyped
    <3>3. ~Ahead(a[i], a[i])
      BY <3>2, AheadStrict
    <3>4. QED
      BY <3>1, <3>3
  <2>9. \A i, j \in 1 .. Len(a) : i # j => a[i] # a[j]
    BY <1>3, <2>4
  <2>10. \A i, j \in DOMAIN (a \o b) : i # j => (a \o b)[i] # (a \o b)[j]
    BY <2>6, <2>8, <2>9, RowsDistinct
  <2>11. \A i, j \in DOMAIN export'.written : i # j => export'.written[i] # export'.written[j]
    BY <2>5, <2>10
  <2>12. PICK B : B = {b[n] : n \in 1 .. Len(b)}
    OBVIOUS
  <2>13. PICK m \in Nat : m = Len(b)
    BY <2>3
  <2>14. b \in [1 .. m -> Shelf] /\ B = {b[n] : n \in 1 .. m} /\ B \subseteq Shelf
    BY <2>12, <2>13
  <2>15. IsFiniteSet(B) /\ Cardinality(B) \in Nat /\ Cardinality(B) <= m
    BY <2>14, ImageSize
  <2>16. IsFiniteSet(F) /\ Cardinality(F) \in Nat /\ IsFiniteSet(F \cap B) /\ Cardinality(F \cap B) \in Nat
    <3>1. F \cap B \subseteq Shelf
      OBVIOUS
    <3>2. QED
      BY <3>1, ShelfFinite
  <2>17. Cardinality(F \cup B) = Cardinality(F) + Cardinality(B) - Cardinality(F \cap B)
    BY <2>15, <2>16, FS_Union
  <2>18. export.offset \in Nat
    BY DEF ReadsTyped, ExportRow
  <2>19. Cardinality(F \cup B) <= export'.offset
    BY <1>1, <2>2, <2>13, <2>15, <2>16, <2>17, <2>18
  <2>20. \A s, t : Ahead(s, t)' <=> Ahead(s, t)
    BY <1>1, AheadKept
  <2>21. WrittenRows' \subseteq WrittenRows \cup PageRows
    BY RowsFromPage
  <2>22. ASSUME NEW t \in present PROVE t \in F \cup B \/ AfterRows(t)'
    <3>1. CASE t \in PageRows
      <4>1. PICK i \in DOMAIN export.page : export.page[i] = t
        BY <3>1 DEF PageRows
      <4>2. i \in Left
        BY <4>1 DEF Left
      <4>3. PICK n \in 1 .. Len(b) : turn[n] = i
        BY <2>3, <4>2
      <4>4. b[n] = t
        BY <2>3, <4>1, <4>3
      <4>5. QED
        BY <2>12, <4>4
    <3>2. CASE t \notin F /\ t \notin PageRows
      <4>1. AfterRows(t) /\ AfterPage(t)
        BY <2>2, <3>2
      <4>2. QED
        BY <2>20, <2>21, <4>1 DEF AfterRows, AfterPage
    <3>3. QED
      BY <3>1, <3>2
  <2>23. F \cup B \in SUBSET Shelf
    BY <2>14
  <2>24. \A t \in present' : t \in F \cup B \/ AfterRows(t)'
    BY <1>1, <2>22
  <2>25. export'.pc # "write"
    BY <1>1
  <2>26. QED
    BY <2>11, <2>19, <2>23, <2>24, <2>25 DEF NoneAgain
<1>6. QED
  BY <1>4, <1>5

LEMMA NoneAgainStep ==
  ASSUME ReadsTyped, NoneAgain, ReadsNext
  PROVE  NoneAgain'
<1>1. ASSUME NEW bySla \in BOOLEAN, NEW up \in BOOLEAN, BeginExport(bySla, up) PROVE NoneAgain'
  <2>1. export'.pc = "batch" /\ export'.written = <<>> /\ export'.offset = 0
    BY <1>1, ExportBegun
  <2>2. WrittenRows' = {} /\ DOMAIN export'.written = {}
    BY <2>1 DEF WrittenRows
  <2>3. Cardinality({}) = 0
    BY FS_EmptySet
  <2>4. \A t \in present' : AfterRows(t)'
    BY <2>2 DEF AfterRows
  <2>5. {} \in SUBSET Shelf /\ Cardinality({}) <= export'.offset
    BY <2>1, <2>3
  <2>6. QED
    BY <2>1, <2>2, <2>4, <2>5 DEF NoneAgain
<1>2. CASE CloseResponse
  <2>1. /\ UNCHANGED <<present, rating, disturbed>>
        /\ export'.bySla = export.bySla /\ export'.up = export.up /\ export'.aborted = TRUE
        /\ export'.written = export.written
    BY <1>2, ResponseClosed
  <2>2. Decided' <=> Decided
    BY <2>1, AheadKept
  <2>3. QED
    BY <2>1, <2>2 DEF NoneAgain
<1>3. ASSUME NEW t \in Shelf,
             FileNext(t) \/ DeleteTicket(t) \/ \E r \in {"AtRisk", "Breached"} : Rate(t, r)
      PROVE  NoneAgain'
  <2>1. /\ UNCHANGED export
        /\ \/ export.pc = "none"
           \/ disturbed' \cap {"filed", "rated"} # {}
           \/ UNCHANGED rating /\ present' \subseteq present /\ disturbed \subseteq disturbed'
    BY <1>3, TicketsMove
  <2>2. CASE export.pc = "none"
    <3>1. export'.pc = "none" /\ DOMAIN export'.written = {}
      BY <2>1, <2>2 DEF ReadsTyped
    <3>2. QED
      BY <3>1 DEF NoneAgain
  <2>3. CASE disturbed' \cap {"filed", "rated"} # {}
    BY <2>3 DEF NoneAgain
  <2>4. CASE UNCHANGED rating /\ present' \subseteq present /\ disturbed \subseteq disturbed'
    <3>1. (\A s, u : Ahead(s, u)' <=> Ahead(s, u)) /\ (Decided' <=> Decided)
      BY <2>1, <2>4, AheadKept
    <3>2. WrittenRows' = WrittenRows /\ PageRows' = PageRows
      BY <2>1 DEF WrittenRows, PageRows
    <3>3. \A u : (AfterRows(u)' <=> AfterRows(u)) /\ (AfterPage(u)' <=> AfterPage(u))
      BY <3>1, <3>2 DEF AfterRows, AfterPage
    <3>4. SUFFICES ASSUME disturbed' \subseteq {"deleted"}, Decided' PROVE NoneAgain'
      BY DEF NoneAgain
    <3>5. disturbed \subseteq {"deleted"} /\ Decided
      BY <2>4, <3>1, <3>4
    <3>6. \A i, j \in DOMAIN export.written : i # j => export.written[i] # export.written[j]
      BY <3>5 DEF NoneAgain
    <3>7. (export.pc = "batch" /\ ~export.aborted) =>
             \E F \in SUBSET Shelf :
               /\ Cardinality(F) <= export.offset
               /\ \A u \in present' : u \in F \/ AfterRows(u)'
      BY <2>4, <3>3, <3>5 DEF NoneAgain
    <3>8. (export.pc = "write" /\ ~export.aborted) =>
             /\ \A i, j \in DOMAIN export.page : i # j => export.page[i] # export.page[j]
             /\ \A u \in PageRows' : AfterRows(u)'
             /\ \E F \in SUBSET Shelf :
                  /\ Cardinality(F) <= export.offset
                  /\ \A u \in present' : u \in F \/ u \in PageRows' \/ (AfterRows(u)' /\ AfterPage(u)')
      BY <2>4, <3>2, <3>3, <3>5 DEF NoneAgain
    <3>9. QED
      BY <2>1, <3>6, <3>7, <3>8 DEF NoneAgain
  <2>5. QED
    BY <2>1, <2>2, <2>3, <2>4
<1>4. QED
  BY <1>1, <1>2, <1>3, NoneAgainRead, NoneAgainWrite DEF ReadsNext

LEMMA ReadsSteps == ReadsSound /\ [ReadsNext]_readsVars => ReadsSound'
<1> SUFFICES ASSUME ReadsSound, [ReadsNext]_readsVars PROVE ReadsSound'
  OBVIOUS
<1>1. CASE ReadsNext
  BY <1>1, ReadsTypedStep, InOrderStep, NoneAgainStep DEF ReadsSound
<1>2. CASE UNCHANGED readsVars
  <2>1. UNCHANGED <<present, rating, export, disturbed>>
    BY <1>2 DEF readsVars
  <2>2. WrittenRows' = WrittenRows /\ PageRows' = PageRows
    BY <2>1 DEF WrittenRows, PageRows
  <2>3. (\A s, t : Ahead(s, t)' <=> Ahead(s, t)) /\ (Decided' <=> Decided)
    BY <2>1, AheadKept
  <2>4. \A t : (AfterRows(t)' <=> AfterRows(t)) /\ (AfterPage(t)' <=> AfterPage(t))
    BY <2>2, <2>3 DEF AfterRows, AfterPage
  <2>5. \A o : (OrderOf(o)' <=> OrderOf(o)) /\ (Follows(o)' <=> Follows(o))
    <3>1. \A o : OrderOf(o)' <=> OrderOf(o)
      BY <2>1, OrderKept
    <3>2. \A o : Follows(o)' <=> Follows(o)
      BY <2>1 DEF Follows, Page
    <3>3. QED
      BY <3>1, <3>2
  <2>6. ReadsTyped'
    BY <2>1, <2>2 DEF ReadsSound, ReadsTyped
  <2>7. InOrder'
    BY <2>1, <2>3, <2>5 DEF ReadsSound, InOrder
  <2>8. NoneAgain'
    BY <2>1, <2>2, <2>3, <2>4 DEF ReadsSound, NoneAgain
  <2>9. QED
    BY <2>6, <2>7, <2>8 DEF ReadsSound
<1>3. QED
  BY <1>1, <1>2

\* What the invariant says of an export that is over.
LEMMA ReadsHold == ReadsSound => ReadsTypeOK /\ ExportComplete
<1> SUFFICES ASSUME ReadsSound PROVE ReadsTypeOK /\ ExportComplete
  OBVIOUS
<1>1. ReadsTyped /\ InOrder /\ NoneAgain
  BY DEF ReadsSound
<1>2. export.written \in Seq(Shelf) /\ export.pc \in {"none", "batch", "write", "ended"}
  BY <1>1 DEF ReadsTyped, ExportRow
<1>3. ReadsTypeOK
  <2>1. {export.written[i] : i \in DOMAIN export.written} \subseteq Shelf
    BY <1>2
  <2>2. QED
    BY <1>1, <1>2, <2>1 DEF ReadsTyped, ReadsTypeOK
<1>4. ASSUME export.pc = "ended", disturbed = {}, ~export.aborted, ~(export.bySla /\ Tied)
      PROVE  \E order \in Sorted(present, export.bySla, export.up) :
               export.written = SubSeq(order, 1, IF Len(order) < MaxExportRows THEN Len(order) ELSE MaxExportRows)
  <2>1. PICK o \in Seq(Shelf) : OrderOf(o) /\ Follows(o)
    BY <1>1, <1>4 DEF InOrder, Decided
  <2>2. PICK n : n = IF Len(o) < MaxExportRows THEN Len(o) ELSE MaxExportRows
    OBVIOUS
  <2>3. /\ Len(export.written) = n
        /\ \A i \in 1 .. n : export.written[i] = o[i]
    BY <1>4, <2>1, <2>2 DEF Follows
  <2>4. Len(o) \in Nat /\ MaxExportRows \in Nat \ {0}
    BY <2>1, ReadsAssumption
  <2>5. n \in Nat /\ n <= Len(o)
    BY <2>2, <2>4
  <2>6. \A i \in 1 .. n : o[i] \in Shelf
    BY <2>1, <2>5, OrderFacts, <1>1
  <2>7. PICK p : p = SubSeq(o, 1, n)
    OBVIOUS
  <2>8. /\ p \in Seq(Shelf)
        /\ Len(p) = (IF 1 <= n THEN n - 1 + 1 ELSE 0)
        /\ \A i \in 1 .. n - 1 + 1 : p[i] = o[1 + i - 1]
    BY <2>5, <2>6, <2>7, SubSeqProperties
  <2>9. Len(p) = n /\ \A i \in 1 .. n : p[i] = o[i]
    BY <2>5, <2>8
  <2>10. export.written = p
    BY <1>2, <2>3, <2>8, <2>9, SeqEqual
  <2>11. o \in Sorted(present, export.bySla, export.up)
    BY <2>1, Orders
  <2>12. QED
    BY <2>2, <2>7, <2>10, <2>11
<1>5. ASSUME disturbed \subseteq {"deleted"}, ~(export.bySla /\ Tied)
      PROVE  ~Twice
  BY <1>1, <1>5 DEF NoneAgain, Decided, Twice
<1>6. QED
  BY <1>3, <1>4, <1>5 DEF ExportComplete

-------------------------------------------------------------------------------
(* The lists.                                                               *)

\* Filters that name no requester, or of an end user: both translations let the same pass.
LEMMA SameMatches ==
  ASSUME NEW t, NEW f, NEW role \in {"EndUser", "ITSupport"}, NEW user,
         ~SqlRefuses(f, role), f.requester # {} \/ role = "EndUser"
  PROVE  PrismaMatches(t, f, role, user) <=> SqlMatches(t, f, role, user)
BY DEF PrismaMatches, SqlMatches, SqlRefuses

\* Rounding up leaves no ticket without a page.
LEMMA PagesSuffice ==
  ASSUME NEW n \in Nat, NEW limit \in 1 .. 3
  PROVE  TotalPages(n, limit) * limit >= n
<1>1. CASE limit = 1
  BY <1>1 DEF TotalPages
<1>2. CASE limit = 2
  BY <1>2 DEF TotalPages
<1>3. CASE limit = 3
  BY <1>3 DEF TotalPages
<1>4. QED
  BY <1>1, <1>2, <1>3

\* The four translations of what an end user sees of an attachment.
LEMMA SameVisible ==
  ASSUME NEW a \in Attachments
  PROVE  LET seen == IsAttachmentVisible(a, "EndUser") IN
         /\ seen = CountWhereInList(a) /\ seen = VisibleCountWhere(a) /\ seen = VisibleWhere(a, "EndUser")
         /\ a.comment # "none" => (CommentShows(a, "EndUser") <=> seen)
         /\ VisibleWhere(a, "Admin") /\ IsAttachmentVisible(a, "Admin") /\ CommentShows(a, "Admin")
<1>1. a.comment \in {"none", "PUBLIC", "INTERNAL"} /\ a.visibility \in {"PUBLIC", "INTERNAL"}
  BY DEF Attachments
<1>2. QED
  BY <1>1 DEF IsAttachmentVisible, CountWhereInList, VisibleCountWhere, VisibleWhere, CommentShows

LEMMA ListsHold == ReadsTyped => ReadsAgree
<1> SUFFICES ASSUME ReadsTyped PROVE ReadsAgree
  OBVIOUS
<1>1. present \subseteq Shelf
  BY DEF ReadsTyped
<1>2. ASSUME NEW user \in Requesters, NEW f \in Filters, NEW role \in {"EndUser", "ITSupport"}
      PROVE  LET plain == Listed(f, role, user, FALSE) IN
             /\ (~SqlRefuses(f, role) /\ (f.requester # {} \/ role = "EndUser")) =>
                  plain = Listed(f, role, user, TRUE)
             /\ Cardinality(plain) = Total(f, role, user)
             /\ role = "EndUser" => \A t \in plain : Row0[t].requester = user
             /\ \A limit \in 1 .. 3 : TotalPages(Total(f, role, user), limit) * limit >= Cardinality(plain)
  <2>1. PICK plain : plain = Listed(f, role, user, FALSE)
    OBVIOUS
  <2>2. plain = {t \in present : PrismaMatches(t, f, role, user)}
    BY <2>1 DEF Listed
  <2>3. (~SqlRefuses(f, role) /\ (f.requester # {} \/ role = "EndUser")) => plain = Listed(f, role, user, TRUE)
    BY <2>2, SameMatches DEF Listed
  <2>4. Cardinality(plain) = Total(f, role, user)
    BY <2>2 DEF Total
  <2>5. role = "EndUser" => \A t \in plain : Row0[t].requester = user
    BY <2>2 DEF PrismaMatches
  <2>6. Cardinality(plain) \in Nat
    BY <1>1, <2>2, ShelfFinite
  <2>7. \A limit \in 1 .. 3 : TotalPages(Total(f, role, user), limit) * limit >= Cardinality(plain)
    BY <2>4, <2>6, PagesSuffice
  <2>8. QED
    BY <2>1, <2>3, <2>4, <2>5, <2>7
<1>3. ASSUME NEW user \in Requesters, NEW t \in Shelf
      PROVE  MayOpen(t, "EndUser", user)
               <=> t \in Listed([status |-> {}, sla |-> {}, requester |-> NoFilter], "EndUser", user, FALSE)
  BY DEF MayOpen, Listed, PrismaMatches
<1>4. QED
  BY <1>2, <1>3, SameVisible DEF ReadsAgree

\* The inductive invariant: what is still to come is after all that is written, except for
\* as many tickets as were skipped over, and an untouched export stays on one order.
THEOREM ReadsSoundness == ReadsSpec => []ReadsSound
  BY ReadsStarts, ReadsSteps, PTL DEF ReadsSpec

\* However the batches fall, an export left alone is complete and in order, and tickets
\* that are only deleted meanwhile make none appear twice (exportCsvToResponse).
THEOREM ExportCorrect == ReadsSpec => []ExportComplete
  BY ReadsSoundness, ReadsHold, PTL

\* For any tickets, viewer and filter the list of the query builder and that of the raw SQL
\* show the same tickets, and an end user only their own (buildTicketFilterQuery).
THEOREM ListsCorrect == ReadsSpec => []ReadsAgree
<1>1. ReadsSound => ReadsAgree
  BY ListsHold DEF ReadsSound
<1>2. QED
  BY <1>1, ReadsSoundness, PTL

-------------------------------------------------------------------------------
(* The token refresh of the browser.                                         *)

RequestStates == [pc : {"idle", "sent", "queued", "refreshing", "settled"}, token : Nat, retry : BOOLEAN]

\* Every variable is of its type throughout.
RefreshTyped ==
  /\ session \in BOOLEAN /\ isRefreshing \in BOOLEAN
  /\ issuedTokens \in Nat /\ validTokens \subseteq 1 .. issuedTokens
  /\ store \in [token : 0 .. issuedTokens, user : BOOLEAN, isAuthenticated : BOOLEAN]
  /\ req \in [Posts -> RequestStates] /\ processed \in [Posts -> Nat]
  /\ failedQueue \subseteq Posts /\ refresher \in Posts \cup {"none"}
  /\ routeCheck \in {"none", "asking", "cancelled"} /\ place \in {"app", "login", "leaving"}

\* Whoever waits, waits for a refresh under way: as the one that started it, or in its queue.
WaitersAwaited ==
  \A r \in Posts :
    /\ req[r].pc = "refreshing" <=> isRefreshing /\ r = refresher
    /\ req[r].pc = "queued" <=> r \in failedQueue
    /\ req[r].pc = "queued" => isRefreshing

\* Nothing is carried out twice, and a request not settled has not been carried out.
OnceSettled ==
  \A r \in Posts : processed[r] <= 1 /\ (req[r].pc # "settled" => processed[r] = 0)

RefreshSound ==
  RefreshTyped /\ WaitersAwaited /\ OnceSettled /\ (isRefreshing => refresher \in Posts)

LEMMA Blanks == Fresh0 \in RequestStates /\ Fresh0.pc = "idle"
BY DEF Fresh0, RequestStates

LEMMA SignedOutFits ==
  ASSUME NEW n \in Nat
  PROVE  SignedOut \in [token : 0 .. n, user : BOOLEAN, isAuthenticated : BOOLEAN]
<1>1. 0 \in 0 .. n OBVIOUS
<1>2. QED BY <1>1 DEF SignedOut

LEMMA RefreshStarts == RefreshInit => RefreshSound
<1> SUFFICES ASSUME RefreshInit PROVE RefreshSound OBVIOUS
<1> USE DEF RefreshInit
<1>1. RefreshTyped BY Blanks, SignedOutFits DEF RefreshTyped
<1>2. WaitersAwaited /\ OnceSettled BY Blanks DEF WaitersAwaited, OnceSettled
<1>3. QED BY <1>1, <1>2 DEF RefreshSound

\* One request moves: from waiting for nobody to waiting for nobody.
LEMMA RequestMoves ==
  ASSUME RefreshSound, NEW r \in Posts, NEW q \in RequestStates, req' = [req EXCEPT ![r] = q],
         req[r].pc \in {"idle", "sent", "settled"}, q.pc \in {"idle", "sent", "settled"},
         processed' \in [Posts -> Nat], \A x \in Posts \ {r} : processed'[x] = processed[x],
         processed'[r] <= 1, q.pc # "settled" => processed'[r] = 0,
         UNCHANGED <<isRefreshing, refresher, failedQueue>>
  PROVE  WaitersAwaited' /\ OnceSettled'
<1>1. req'[r] = q /\ \A x \in Posts \ {r} : req'[x] = req[x] BY DEF RefreshSound, RefreshTyped
<1>2. WaitersAwaited' BY <1>1 DEF RefreshSound, WaitersAwaited
<1>3. OnceSettled' BY <1>1 DEF RefreshSound, OnceSettled
<1>4. QED BY <1>2, <1>3

LEMMA SendStep ==
  ASSUME RefreshSound, NEW r \in Posts, Send(r)
  PROVE  RefreshSound'
<1>1. /\ req[r].pc = "idle" /\ req' = [req EXCEPT ![r] = Sent(r)]
      /\ UNCHANGED <<session, validTokens, issuedTokens, store, processed, isRefreshing, refresher, failedQueue, routeCheck, place>>
  BY DEF Send, storeVars
<1>2. Sent(r) \in RequestStates /\ Sent(r).pc = "sent"
  <2>1. req[r] \in RequestStates /\ store.token \in Nat BY DEF RefreshSound, RefreshTyped
  <2>2. QED BY <2>1 DEF Sent, RequestStates
<1>3. processed[r] = 0 BY <1>1 DEF RefreshSound, OnceSettled
<1>4. /\ processed' \in [Posts -> Nat] /\ processed'[r] <= 1
      /\ \A x \in Posts \ {r} : processed'[x] = processed[x]
  BY <1>1, <1>3 DEF RefreshSound, RefreshTyped
<1>5. WaitersAwaited' /\ OnceSettled'
  <2>1. req[r].pc \in {"idle", "sent", "settled"} /\ Sent(r).pc \in {"idle", "sent", "settled"} BY <1>1, <1>2
  <2>2. processed'[r] = 0 /\ UNCHANGED <<isRefreshing, refresher, failedQueue>> BY <1>1, <1>3
  <2>3. PICK q \in RequestStates : q = Sent(r) BY <1>2
  <2>4. QED BY <1>1, <1>4, <2>1, <2>2, <2>3, RequestMoves
<1>6. RefreshTyped' BY <1>1, <1>2 DEF RefreshSound, RefreshTyped
<1>7. QED BY <1>1, <1>5, <1>6 DEF RefreshSound

LEMMA AnsweredStep ==
  ASSUME RefreshSound, NEW r \in Posts, Answered(r)
  PROVE  RefreshSound'
<1> DEFINE q == [req[r] EXCEPT !.pc = "settled"]
<1>1. req[r] \in RequestStates BY DEF RefreshSound, RefreshTyped
<1>2. /\ req[r].pc = "sent" /\ req' = [req EXCEPT ![r] = q] /\ Settle(r)
      /\ UNCHANGED <<validTokens, issuedTokens, isRefreshing, refresher, failedQueue, routeCheck>>
      /\ \/ processed' = [processed EXCEPT ![r] = @ + 1] /\ session' = (session /\ r # "logout")
         \/ UNCHANGED <<processed, session>>
  BY DEF Answered, RefreshSound, RefreshTyped
<1>3. q \in RequestStates /\ q.pc = "settled" BY <1>1 DEF RequestStates
<1> HIDE DEF q
<1>4. processed[r] = 0 BY <1>2 DEF RefreshSound, OnceSettled
<1>5. processed' \in [Posts -> Nat] /\ processed'[r] <= 1 /\ \A x \in Posts \ {r} : processed'[x] = processed[x]
  <2>1. processed[r] + 1 = 1 /\ 1 \in Nat BY <1>4
  <2>2. QED BY <1>2, <1>4, <2>1 DEF RefreshSound, RefreshTyped
<1>6. WaitersAwaited' /\ OnceSettled'
  BY <1>2, <1>3, <1>5, RequestMoves
<1>7. store' \in [token : 0 .. issuedTokens', user : BOOLEAN, isAuthenticated : BOOLEAN] /\ place' \in {"app", "login", "leaving"}
  <2>1. CASE r = "logout"
    <3>1. store' = SignedOut /\ place' \in {place, "login"} BY <2>1, <1>2 DEF Settle
    <3>2. issuedTokens' \in Nat BY <1>2 DEF RefreshSound, RefreshTyped
    <3>3. store' \in [token : 0 .. issuedTokens', user : BOOLEAN, isAuthenticated : BOOLEAN]
      BY <3>1, <3>2, SignedOutFits
    <3>4. QED BY <3>1, <3>3 DEF RefreshSound, RefreshTyped
  <2>2. CASE r # "logout"
    BY <2>2, <1>2 DEF Settle, RefreshSound, RefreshTyped
  <2>3. QED BY <2>1, <2>2
<1>8. req' \in [Posts -> RequestStates] BY <1>2, <1>3 DEF RefreshSound, RefreshTyped
<1>9. session' \in BOOLEAN BY <1>2 DEF RefreshSound, RefreshTyped
<1>10. RefreshTyped' BY <1>2, <1>5, <1>7, <1>8, <1>9 DEF RefreshSound, RefreshTyped
<1>11. QED BY <1>2, <1>6, <1>10 DEF RefreshSound

LEMMA UnauthorizedStep ==
  ASSUME RefreshSound, NEW r \in Posts, Unauthorized(r)
  PROVE  RefreshSound'
<1> USE DEF RefreshSound, RefreshTyped
<1>1. req[r] \in RequestStates OBVIOUS
<1>2. req[r].pc = "sent" /\ UNCHANGED <<session, validTokens, issuedTokens, store, processed, routeCheck, place>>
  BY DEF Unauthorized, storeVars
<1>3. processed[r] = 0 /\ r \notin failedQueue /\ ~(isRefreshing /\ r = refresher)
  BY <1>2 DEF OnceSettled, WaitersAwaited
<1>4. CASE req' = [req EXCEPT ![r].pc = "settled"] /\ UNCHANGED <<isRefreshing, refresher, failedQueue>>
  <2> DEFINE q == [req[r] EXCEPT !.pc = "settled"]
  <2>1. req' = [req EXCEPT ![r] = q] BY <1>4
  <2>2. q \in RequestStates /\ q.pc = "settled" BY <1>1 DEF RequestStates
  <2> HIDE DEF q
  <2>3. processed' \in [Posts -> Nat] /\ processed'[r] <= 1 /\ \A x \in Posts \ {r} : processed'[x] = processed[x]
    BY <1>2, <1>3
  <2>4. WaitersAwaited' /\ OnceSettled' BY <1>2, <1>3, <1>4, <2>1, <2>2, <2>3, RequestMoves
  <2>5. RefreshTyped' BY <1>2, <1>4, <2>1, <2>2
  <2>6. QED BY <1>4, <2>4, <2>5
<1>5. CASE /\ isRefreshing /\ req' = [req EXCEPT ![r].pc = "queued"]
           /\ failedQueue' = failedQueue \cup {r} /\ UNCHANGED <<isRefreshing, refresher>>
  <2> DEFINE q == [req[r] EXCEPT !.pc = "queued"]
  <2>1. req' = [req EXCEPT ![r] = q] BY <1>5
  <2>2. q \in RequestStates /\ q.pc = "queued" BY <1>1 DEF RequestStates
  <2> HIDE DEF q
  <2>3. req'[r] = q /\ (\A x \in Posts \ {r} : req'[x] = req[x]) /\ req' \in [Posts -> RequestStates] BY <2>1, <2>2
  <2>4. WaitersAwaited' BY <1>3, <1>5, <2>2, <2>3 DEF WaitersAwaited
  <2>5. OnceSettled' BY <1>2, <1>3, <2>3 DEF OnceSettled
  <2>6. RefreshTyped' BY <1>2, <1>5, <2>3
  <2>7. QED BY <1>5, <2>4, <2>5, <2>6
<1>6. CASE /\ ~isRefreshing /\ req' = [req EXCEPT ![r].pc = "refreshing", ![r].retry = TRUE]
           /\ isRefreshing' = TRUE /\ refresher' = r /\ UNCHANGED failedQueue
  <2> DEFINE q == [req[r] EXCEPT !.pc = "refreshing", !.retry = TRUE]
  <2>1. req' = [req EXCEPT ![r] = q] BY <1>6
  <2>2. q \in RequestStates /\ q.pc = "refreshing" BY <1>1 DEF RequestStates
  <2> HIDE DEF q
  <2>3. req'[r] = q /\ (\A x \in Posts \ {r} : req'[x] = req[x]) /\ req' \in [Posts -> RequestStates] BY <2>1, <2>2
  <2>4. WaitersAwaited' BY <1>3, <1>6, <2>2, <2>3 DEF WaitersAwaited
  <2>5. OnceSettled' BY <1>2, <1>3, <2>3 DEF OnceSettled
  <2>6. RefreshTyped' BY <1>2, <1>6, <2>3
  <2>7. QED BY <1>6, <2>4, <2>5, <2>6
<1>7. QED BY <1>4, <1>5, <1>6 DEF Unauthorized

\* A refresh ends: everyone waiting goes on at once, and waits no more.
LEMMA AllGoOn ==
  ASSUME RefreshSound, isRefreshing, NEW next \in {"sent", "settled"}, req' \in [Posts -> RequestStates],
         \A r \in Posts : IF r \in failedQueue \cup {refresher} THEN req'[r].pc = next ELSE req'[r] = req[r],
         failedQueue' = {}, isRefreshing' = FALSE, UNCHANGED processed
  PROVE  WaitersAwaited' /\ OnceSettled'
<1>1. ASSUME NEW r \in Posts
      PROVE  /\ req'[r].pc \notin {"refreshing", "queued"}
             /\ processed[r] <= 1 /\ (req'[r].pc # "settled" => processed[r] = 0)
  <2>1. CASE r \in failedQueue \cup {refresher}
    <3>1. req'[r].pc = next BY <2>1
    <3>2. req[r].pc \in {"refreshing", "queued"} BY <2>1 DEF RefreshSound, WaitersAwaited
    <3>3. processed[r] = 0 BY <3>2 DEF RefreshSound, OnceSettled
    <3>4. QED BY <3>1, <3>3
  <2>2. CASE r \notin failedQueue \cup {refresher}
    <3>1. req'[r] = req[r] BY <2>2
    <3>2. QED BY <3>1, <2>2 DEF RefreshSound, WaitersAwaited, OnceSettled
  <2>3. QED BY <2>1, <2>2
<1>2. QED BY <1>1 DEF WaitersAwaited, OnceSettled

LEMMA IssueStep ==
  ASSUME RefreshTyped, Issue
  PROVE  /\ issuedTokens' \in Nat /\ issuedTokens' = issuedTokens + 1
         /\ validTokens' \subseteq 1 .. issuedTokens'
         /\ issuedTokens' \in 0 .. issuedTokens' /\ 0 .. issuedTokens \subseteq 0 .. issuedTokens'
<1>1. issuedTokens \in Nat /\ issuedTokens' = issuedTokens + 1 /\ validTokens' = validTokens \cup {issuedTokens + 1}
      /\ validTokens \subseteq 1 .. issuedTokens
  BY DEF RefreshTyped, Issue
<1>2. QED BY <1>1

LEMMA SucceedsStep ==
  ASSUME RefreshSound, RefreshSucceeds
  PROVE  RefreshSound'
<1> USE DEF RefreshSound, RefreshTyped
<1>1. /\ isRefreshing /\ Issue
      /\ store' = [store EXCEPT !.token = issuedTokens + 1, !.user = TRUE]
      /\ req' = [r \in Posts |-> IF r \in failedQueue \cup {refresher}
                                 THEN [req[r] EXCEPT !.pc = "sent", !.token = issuedTokens + 1] ELSE req[r]]
      /\ failedQueue' = {} /\ isRefreshing' = FALSE /\ refresher' = "none"
      /\ UNCHANGED <<session, processed, routeCheck, place>>
  BY DEF RefreshSucceeds
<1>2. /\ issuedTokens' \in Nat /\ issuedTokens' = issuedTokens + 1 /\ validTokens' \subseteq 1 .. issuedTokens'
      /\ issuedTokens' \in 0 .. issuedTokens' /\ 0 .. issuedTokens \subseteq 0 .. issuedTokens'
  BY <1>1, IssueStep
<1>3. store' \in [token : 0 .. issuedTokens', user : BOOLEAN, isAuthenticated : BOOLEAN]
  BY <1>1, <1>2
<1>4. ASSUME NEW r \in Posts
      PROVE  /\ [req[r] EXCEPT !.pc = "sent", !.token = issuedTokens + 1] \in RequestStates
             /\ [req[r] EXCEPT !.pc = "sent", !.token = issuedTokens + 1].pc = "sent"
  <2>1. req[r] \in RequestStates /\ issuedTokens + 1 \in Nat OBVIOUS
  <2>2. QED BY <2>1 DEF RequestStates
<1>5. req' \in [Posts -> RequestStates] BY <1>1, <1>4
<1>6. \A r \in Posts : IF r \in failedQueue \cup {refresher} THEN req'[r].pc = "sent" ELSE req'[r] = req[r]
  BY <1>1, <1>4
<1>7. WaitersAwaited' /\ OnceSettled' BY <1>1, <1>5, <1>6, AllGoOn
<1>8. RefreshTyped' BY <1>1, <1>2, <1>3, <1>5
<1>9. QED BY <1>1, <1>7, <1>8

LEMMA FailsStep ==
  ASSUME RefreshSound, RefreshFails
  PROVE  RefreshSound'
<1> USE DEF RefreshSound, RefreshTyped
<1>1. /\ isRefreshing /\ store' = SignedOut
      /\ req' = [r \in Posts |-> IF r \in failedQueue \cup {refresher} THEN [req[r] EXCEPT !.pc = "settled"] ELSE req[r]]
      /\ failedQueue' = {} /\ isRefreshing' = FALSE /\ refresher' = "none" /\ place' = "leaving"
      /\ UNCHANGED <<session, validTokens, issuedTokens, processed, routeCheck>>
  BY DEF RefreshFails
<1>2. store' \in [token : 0 .. issuedTokens', user : BOOLEAN, isAuthenticated : BOOLEAN]
  BY <1>1, SignedOutFits
<1>3. ASSUME NEW r \in Posts
      PROVE  [req[r] EXCEPT !.pc = "settled"] \in RequestStates /\ [req[r] EXCEPT !.pc = "settled"].pc = "settled"
  <2>1. req[r] \in RequestStates OBVIOUS
  <2>2. QED BY <2>1 DEF RequestStates
<1>4. req' \in [Posts -> RequestStates] BY <1>1, <1>3
<1>5. \A r \in Posts : IF r \in failedQueue \cup {refresher} THEN req'[r].pc = "settled" ELSE req'[r] = req[r]
  BY <1>1, <1>3
<1>6. WaitersAwaited' /\ OnceSettled' BY <1>1, <1>4, <1>5, AllGoOn
<1>7. RefreshTyped' BY <1>1, <1>2, <1>4
<1>8. QED BY <1>1, <1>6, <1>7

LEMMA PageSteps ==
  ASSUME RefreshSound,
         Reload \/ RouteAsks \/ RouteAnswered \/ SignIn \/ SessionEnds \/ \E n \in 1 .. MaxTokens : TokenExpires(n)
  PROVE  RefreshSound'
<1> USE DEF RefreshSound, RefreshTyped
<1>1. CASE Reload
  <2>1. /\ place' = "login" /\ store' = SignedOut
        /\ req' = [r \in Posts |-> Fresh0] /\ processed' = [r \in Posts |-> 0]
        /\ isRefreshing' = FALSE /\ refresher' = "none" /\ failedQueue' = {}
        /\ routeCheck' = "none" /\ UNCHANGED <<session, validTokens, issuedTokens>>
    BY <1>1 DEF Reload
  <2>2. store' \in [token : 0 .. issuedTokens', user : BOOLEAN, isAuthenticated : BOOLEAN]
    BY <2>1, SignedOutFits
  <2>3. RefreshTyped' BY <2>1, <2>2, Blanks
  <2>4. WaitersAwaited' /\ OnceSettled' BY <2>1, Blanks DEF WaitersAwaited, OnceSettled
  <2>5. QED BY <2>1, <2>3, <2>4
<1>2. CASE RouteAsks
  <2>1. routeCheck' = "asking"
        /\ UNCHANGED <<session, validTokens, issuedTokens, store, req, processed, isRefreshing, refresher, failedQueue, place>>
    BY <1>2 DEF RouteAsks, storeVars
  <2>2. QED BY <2>1 DEF WaitersAwaited, OnceSettled
<1>3. CASE RouteAnswered
  <2>1. /\ routeCheck' = "none" /\ UNCHANGED <<session, req, processed, isRefreshing, refresher, failedQueue>>
        /\ \/ /\ Issue /\ UNCHANGED place
              /\ store' = IF routeCheck = "asking"
                          THEN [token |-> issuedTokens + 1, user |-> TRUE, isAuthenticated |-> TRUE] ELSE store
           \/ place' \in {place, "login"} /\ UNCHANGED <<store, issuedTokens, validTokens>>
    BY <1>3 DEF RouteAnswered
  <2>2. WaitersAwaited' /\ OnceSettled' BY <2>1 DEF WaitersAwaited, OnceSettled
  <2>3. CASE /\ Issue /\ UNCHANGED place
             /\ store' = IF routeCheck = "asking"
                         THEN [token |-> issuedTokens + 1, user |-> TRUE, isAuthenticated |-> TRUE] ELSE store
    <3>1. /\ issuedTokens' \in Nat /\ issuedTokens' = issuedTokens + 1 /\ validTokens' \subseteq 1 .. issuedTokens'
          /\ issuedTokens' \in 0 .. issuedTokens' /\ 0 .. issuedTokens \subseteq 0 .. issuedTokens'
      BY <2>3, IssueStep
    <3>2. store' \in [token : 0 .. issuedTokens', user : BOOLEAN, isAuthenticated : BOOLEAN]
      BY <2>3, <3>1
    <3>3. QED BY <2>1, <2>2, <2>3, <3>1, <3>2
  <2>4. CASE place' \in {place, "login"} /\ UNCHANGED <<store, issuedTokens, validTokens>>
    BY <2>1, <2>2, <2>4
  <2>5. QED BY <2>1, <2>3, <2>4
<1>4. CASE SignIn
  <2> DEFINE q == IF req["logout"].pc = "settled" THEN Fresh0 ELSE req["logout"]
             n == [processed EXCEPT !["logout"] = 0]
  <2>1. /\ session' = TRUE /\ issuedTokens' = issuedTokens + 1 /\ validTokens' = validTokens \cup {issuedTokens + 1}
        /\ store' = [token |-> issuedTokens + 1, user |-> TRUE, isAuthenticated |-> TRUE]
        /\ place' = "app" /\ routeCheck' \in {"cancelled", routeCheck}
        /\ req' = [req EXCEPT !["logout"] = q] /\ processed' = n
        /\ UNCHANGED <<isRefreshing, refresher, failedQueue>>
    BY <1>4 DEF SignIn
  <2>2. "logout" \in Posts BY DEF Posts
  <2>3. req["logout"] \in RequestStates BY <2>2
  <2>4. /\ q \in RequestStates /\ (q = req["logout"] \/ (req["logout"].pc = "settled" /\ q.pc = "idle"))
    BY <2>3, Blanks
  <2>5. n \in [Posts -> Nat] /\ n["logout"] = 0 /\ \A r \in Posts \ {"logout"} : n[r] = processed[r]
    BY <2>2
  <2> HIDE DEF q, n
  <2>6. /\ req' \in [Posts -> RequestStates] /\ req'["logout"] = q
        /\ \A r \in Posts \ {"logout"} : req'[r] = req[r]
    BY <2>1, <2>2, <2>4
  <2>7. WaitersAwaited'
    <3> SUFFICES ASSUME NEW r \in Posts
                 PROVE /\ req'[r].pc = "refreshing" <=> isRefreshing /\ r = refresher
                       /\ req'[r].pc = "queued" <=> r \in failedQueue
                       /\ req'[r].pc = "queued" => isRefreshing
      BY <2>1 DEF WaitersAwaited
    <3>1. CASE r = "logout" BY <3>1, <2>4, <2>6 DEF WaitersAwaited
    <3>2. CASE r # "logout" BY <3>2, <2>6 DEF WaitersAwaited
    <3>3. QED BY <3>1, <3>2
  <2>8. OnceSettled' BY <2>1, <2>2, <2>5, <2>6 DEF OnceSettled
  <2>9. /\ issuedTokens' \in Nat /\ validTokens' \subseteq 1 .. issuedTokens' /\ issuedTokens' \in 0 .. issuedTokens'
    BY <2>1
  <2>10. RefreshTyped' BY <2>1, <2>5, <2>6, <2>9
  <2>11. QED BY <2>1, <2>7, <2>8, <2>10
<1>5. CASE SessionEnds
  BY <1>5 DEF SessionEnds, WaitersAwaited, OnceSettled
<1>6. CASE \E n \in 1 .. MaxTokens : TokenExpires(n)
  BY <1>6 DEF TokenExpires, WaitersAwaited, OnceSettled
<1>7. QED BY <1>1, <1>2, <1>3, <1>4, <1>5, <1>6

LEMMA RefreshSteps == RefreshSound /\ [RefreshNext]_refreshVars => RefreshSound'
<1> SUFFICES ASSUME RefreshSound, [RefreshNext]_refreshVars PROVE RefreshSound' OBVIOUS
<1>1. CASE UNCHANGED refreshVars
  BY <1>1 DEF refreshVars, storeVars, RefreshSound, RefreshTyped, WaitersAwaited, OnceSettled
<1>2. ASSUME NEW r \in Posts, Send(r) \/ RequestStep(r) PROVE RefreshSound'
  BY <1>2, SendStep, AnsweredStep, UnauthorizedStep DEF RequestStep
<1>3. CASE RefreshStep BY <1>3, SucceedsStep, FailsStep DEF RefreshStep
<1>4. QED BY <1>1, <1>2, <1>3, PageSteps DEF RefreshNext

\* For any number of requests: whoever waits for a token has a refresh under way that will
\* answer it, as its starter or in its queue, and nothing that is sent again was carried
\* out before (the second half of RequestsSettle).
THEOREM RefreshSoundness == RefreshSpec => []RefreshSound
BY RefreshStarts, RefreshSteps, PTL DEF RefreshSpec

\* However many requests meet an expired token at once: none that is sent again was carried
\* out before (the second half of RequestsSettle).
THEOREM CarriedOutOnceCorrect == RefreshSpec => [](\A r \in Posts : CarriedOutOnce(r))
<1>1. RefreshSound => (\A r \in Posts : CarriedOutOnce(r)) BY DEF RefreshSound, OnceSettled, CarriedOutOnce
<1>2. QED BY <1>1, RefreshSoundness, PTL
================================================================================
