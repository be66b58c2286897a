-------------------------------- MODULE Console --------------------------------
(***************************************************************************)
(* One browser window: pages, the queries mounted on them, the mutations   *)
(* they offer and the query keys each mutation invalidates.                *)
(*                                                                         *)
(* The queries of a window do not affect one another, so a behaviour       *)
(* follows one of them, `watched`. Of what the server would answer only    *)
(* one thing is kept: whether it is still what the server has ("fresh") or *)
(* not ("old"). A key is a sequence, and invalidating a key reaches every  *)
(* query whose key begins with it, as in react-query.                      *)
(***************************************************************************)
EXTENDS Naturals, Sequences, SequencesExt

CONSTANTS
  Watch,             \* the queries to follow, one at a time
  MaxWindowChanges,  \* bound: changes of server data, from this window or elsewhere
  MaxWindowFaults,   \* bound: requests that fail or whose answer is lost
  MaxVisits          \* bound: pages opened

Staff == {"ITSupport", "Admin"}
AnyRole == {"EndUser"} \cup Staff

\* The query keys, an identifier in a key standing for any other.
TicketsKey == <<"tickets", "filters">>
TicketKey == <<"ticket", "id">>
CommentsKey == <<"ticket", "id", "comments">>
FilesKey == <<"ticket", "id", "attachments">>
StatsKey == <<"dashboard", "stats", "range">>
UsersKey == <<"users", "page">>
AssignableKey == <<"users", "assignable">>
ActiveKey == <<"users", "active">>
CategoriesKey == <<"categories", "role">>
LocationsKey == <<"locations">>
ConfigsKey == <<"sla-configs">>
FaqsKeys == [k \in {"public", "admin", "recommendations", "analytics"} |-> <<"faqs", k>>]
ModeKey == <<"maintenance", "mode">>
BackupsKey == <<"maintenance", "backups">>
InboxKey == <<"notifications", "page">>
DropdownKey == <<"notifications", "dropdown">>
UnreadKey == <<"notifications-unread-count">>
PreferencesKey == <<"notification-preferences">>
StatusKey == <<"telegram-status">>
ConfigKey == <<"telegram-config">>

TicketViews == {TicketKey, TicketsKey, StatsKey}
UserViews == {UsersKey, AssignableKey, ActiveKey, TicketsKey, TicketKey}
FaqViews == {FaqsKeys[k] : k \in DOMAIN FaqsKeys}
NoticeViews == {InboxKey, DropdownKey, UnreadKey}

\* What a component mounts and offers: queries, and mutations by name.
View(queries, offers) == [queries |-> queries, offers |-> offers]
Together(views) == View(UNION {v.queries : v \in views}, UNION {v.offers : v \in views})
Only(roles, r, S) == IF r \in roles THEN S ELSE {}

FaqSection == View({FaqsKeys["public"]}, {})
DashboardStats == View({StatsKey}, {})
TicketFilters == View({CategoriesKey, LocationsKey, ActiveKey}, {})
TicketList(r) == Together({TicketFilters,
  View({TicketsKey} \cup Only(Staff, r, {AssignableKey}),
       Only(Staff, r, {"assign", "priority"}) \cup Only({"Admin"}, r, {"delete"}))})
TicketSolutionSuggestions == View({FaqsKeys["recommendations"]}, {})
CreateTicketForm == Together({TicketSolutionSuggestions, View({CategoriesKey, LocationsKey}, {"create", "upload"})})
CommentSection == View({CommentsKey}, {"comment", "commentWithFiles"})
AttachmentList == View({FilesKey}, {"upload"})
TicketDetail(r) == Together({CommentSection, AttachmentList,
  View({TicketKey} \cup Only(Staff, r, {AssignableKey}),
       {"status"} \cup Only(Staff, r, {"assign"}) \cup Only({"Admin"}, r, {"delete"}))})
NotificationsPage == View({InboxKey}, {"read"})
NotificationPreferencesSection == View({PreferencesKey}, {"prefer"})
TelegramConfigSection == View({StatusKey, ConfigKey}, {"unlink", "telegram"})
MyAccountPage(r) == Together({NotificationPreferencesSection} \cup Only({"Admin"}, r, {TelegramConfigSection}))
UserManagement == View({UsersKey}, {"addUser", "editUser", "removeUser"})
CategoryManager == View({CategoriesKey}, {"category"})
LocationManager == View({LocationsKey}, {"location"})
FaqAnalyticsSummary == View({FaqsKeys["analytics"]}, {})
FaqManager == Together({FaqAnalyticsSummary, View({FaqsKeys["admin"], CategoriesKey}, {"faq"})})
SLAConfigManager == View({ConfigsKey, CategoriesKey}, {"sla"})
BackupManager == View({BackupsKey}, {"backup", "restore"})
AdminMaintenancePage == Together({BackupManager, View({ModeKey}, {"mode"})})

\* The page of a route. The tabs of the master data page count as pages.
PageOf(p, r) ==
  CASE p = "login" -> FaqSection             [] p = "dashboard" -> DashboardStats
    [] p = "tickets" -> TicketList(r)        [] p = "new" -> CreateTicketForm
    [] p = "ticket" -> TicketDetail(r)       [] p = "notifications" -> NotificationsPage
    [] p = "account" -> MyAccountPage(r)     [] p = "users" -> UserManagement
    [] p = "categories" -> CategoryManager   [] p = "locations" -> LocationManager
    [] p = "faqs" -> FaqManager              [] p = "sla" -> SLAConfigManager
    [] p = "maintenance" -> AdminMaintenancePage

AdminPages == {"users", "categories", "locations", "faqs", "sla", "maintenance"}

\* The pages the router lets a role open: any other leads to the ticket list.
PagesOf(r) ==
  {"tickets", "new", "ticket", "notifications", "account"}
    \cup (IF r \in Staff THEN {"dashboard"} ELSE {})
    \cup (IF r = "Admin" THEN AdminPages ELSE {})

\* Around a page but the login page: the layout counts the unread, the banner asks for
\* the mode, and the bar has the bell, whose dropdown lists notices when it is open.
Layout == View({UnreadKey}, {})
MaintenanceBanner == View({ModeKey}, {})
Navbar(open) == IF open THEN View({DropdownKey}, {"read"}) ELSE View({}, {})
OnPage(p, r, open) ==
  IF p = "login" THEN PageOf(p, r)
  ELSE Together({PageOf(p, r), Layout, MaintenanceBanner, Navbar(open)})
MountedQueries(p, r, open) == OnPage(p, r, open).queries

\* Queries the server refuses: the filters of the ticket list ask for the active users
\* whatever the role.
Refused(key, r) == key = ActiveKey /\ r = "EndUser"

Anywhere == UNION {PagesOf(r) : r \in AnyRole}
TicketDropsBug == {<<"ticket", "id">>, <<"dashboard", "stats">>}  \* the lists are forgotten
TicketDrops == {<<"ticket", "id">>, <<"tickets">>, <<"dashboard", "stats">>}

\* Each mutation: the queries whose answer it changes on the server, and the keys its hook
\* invalidates when it has succeeded.
Mutation(touched, drops) == [changes |-> touched, drops |-> drops]

TicketMutations ==
  [ create   |-> Mutation({TicketsKey, StatsKey}, {<<"tickets">>, <<"dashboard", "stats">>}),
    status   |-> Mutation(TicketViews, TicketDrops),
    assign   |-> Mutation(TicketViews, TicketDrops),
    priority |-> Mutation(TicketViews, TicketDrops),
    delete   |-> Mutation(TicketViews \cup {CommentsKey, FilesKey}, {<<"tickets">>, <<"dashboard", "stats">>}),
    comment  |-> Mutation({CommentsKey}, {<<"ticket", "id", "comments">>}),
    commentWithFiles |-> Mutation({CommentsKey, FilesKey},
                                  {<<"ticket", "id", "comments">>, <<"ticket", "id", "attachments">>}),
    upload   |-> Mutation({FilesKey}, {<<"ticket", "id", "attachments">>}) ]
UserMutations ==
  [ addUser    |-> Mutation({UsersKey, AssignableKey, ActiveKey}, {<<"users">>}),
    editUser   |-> Mutation(UserViews, {<<"users">>, <<"tickets">>, <<"users", "assignable">>}),
    removeUser |-> Mutation({UsersKey, AssignableKey, ActiveKey}, {<<"users">>}) ]
MasterMutations ==
  [ category |-> Mutation({CategoriesKey, ConfigsKey, TicketsKey, TicketKey}, {<<"categories">>}),
    location |-> Mutation({LocationsKey, TicketsKey, TicketKey}, {<<"locations">>}) ]
FaqMutations == [ faq |-> Mutation(FaqViews, {<<"faqs">>}) ]
SlaMutations ==
  [ sla |-> Mutation({ConfigsKey, StatsKey, TicketsKey, TicketKey}, {<<"sla-configs">>, <<"dashboard", "stats">>}) ]
MaintenanceMutations ==
  [ mode    |-> Mutation({ModeKey}, {<<"maintenance", "mode">>}),
    backup  |-> Mutation({BackupsKey}, {<<"maintenance", "backups">>}),
    restore |-> Mutation(Watch, {<<"maintenance", "backups">>, <<"maintenance", "mode">>}) ]
NoticeMutations ==
  [ read |-> Mutation(NoticeViews, {<<"notifications">>, <<"notifications-unread-count">>}) ]
PreferenceMutations == [ prefer |-> Mutation({PreferencesKey}, {<<"notification-preferences">>}) ]
TelegramMutations ==
  [ unlink   |-> Mutation({StatusKey}, {<<"telegram-status">>}),
    telegram |-> Mutation({ConfigKey}, {<<"telegram-config">>}) ]
\* The hooks of use-*.ts, file by file, and all of them together.
Hooks == {TicketMutations, UserMutations, MasterMutations, FaqMutations, SlaMutations,
          MaintenanceMutations, NoticeMutations, PreferenceMutations, TelegramMutations}
Mutations == [m \in UNION {DOMAIN h : h \in Hooks} |-> (CHOOSE h \in Hooks : m \in DOMAIN h)[m]]

VARIABLES
  watched,    \* the key of the query followed
  viewer,     \* role of the user signed in
  screen,     \* the page shown
  bellOpen,   \* the dropdown of the bell is open
  data,       \* what the query has: "none", "fresh" or "old"
  fetch,      \* its request: "none", "asked", or the answer under way, "fresh" or "old"
  mutation,   \* the mutation under way, with its page and whether the server has done it
  lapses,     \* why the data may be old, since an answer last came that was not
  windowChanges, windowFaults, visits

windowVars == <<watched, viewer, screen, bellOpen, data, fetch, mutation, lapses, windowChanges, windowFaults, visits>>
boundVars == <<windowChanges, windowFaults, visits>>

NoMutation == [name |-> "none", page |-> "none", done |-> FALSE]

ConsoleInit ==
  /\ watched \in Watch
  /\ viewer \in AnyRole
  /\ screen \in PagesOf(viewer) /\ bellOpen = FALSE
  /\ data = "none"
  /\ fetch = IF watched \in MountedQueries(screen, viewer, FALSE) THEN "asked" ELSE "none"
  /\ mutation = NoMutation
  /\ lapses = {}
  /\ windowChanges = 0 /\ windowFaults = 0 /\ visits = 0

OnScreen == watched \in MountedQueries(screen, viewer, bellOpen)

\* Going from one set of mounted queries to another. refetchOnMount is "always": a query
\* that comes on screen is fetched, unless a request of it is still under way, which it joins.
Remount(p, open) ==
  /\ screen' = p /\ bellOpen' = open
  /\ LET appears == ~OnScreen /\ watched \in MountedQueries(p, viewer, open) IN
     /\ fetch' = IF appears /\ fetch = "none" THEN "asked" ELSE fetch
     /\ lapses' = IF appears /\ fetch \in {"fresh", "old"} THEN lapses \cup {"joined"} ELSE lapses

Visit(p) ==
  /\ visits < MaxVisits /\ visits' = visits + 1
  /\ p \in PagesOf(viewer)
  /\ Remount(p, FALSE)
  /\ UNCHANGED <<watched, viewer, data, mutation, windowChanges, windowFaults>>

Bell ==
  /\ screen # "login"
  /\ visits < MaxVisits /\ visits' = visits + 1
  /\ Remount(screen, ~bellOpen)
  /\ UNCHANGED <<watched, viewer, data, mutation, windowChanges, windowFaults>>

\* A full load of a page: the reader reloads, or the 503 interceptor sends an Admin to the
\* maintenance page. The cache and the requests are gone.
Load(p) ==
  /\ visits < MaxVisits /\ visits' = visits + 1
  /\ screen # "login" /\ p \in PagesOf(viewer)
  /\ screen' = p /\ bellOpen' = FALSE
  /\ data' = "none" /\ lapses' = {} /\ mutation' = NoMutation
  /\ fetch' = IF watched \in MountedQueries(p, viewer, FALSE) THEN "asked" ELSE "none"
  /\ UNCHANGED <<watched, viewer, windowChanges, windowFaults>>

\* queryClient.clear() and the login page, after a logout or a restore.
CacheCleared ==
  /\ screen' = "login" /\ bellOpen' = FALSE
  /\ data' = "none" /\ lapses' = {} /\ mutation' = NoMutation
  /\ fetch' = IF watched \in FaqSection.queries THEN "asked" ELSE "none"

LogOut ==
  /\ screen # "login" /\ mutation = NoMutation
  /\ CacheCleared
  /\ UNCHANGED <<watched, viewer, boundVars>>

\* What the query has, or was answered, when data it shows has changed on the server.
Aged(what) == IF what = "fresh" THEN "old" ELSE what

ServerChanges(why) ==
  /\ windowChanges < MaxWindowChanges /\ windowChanges' = windowChanges + 1
  /\ data' = Aged(data)
  /\ lapses' = lapses \cup {why}

Reached(prefixes) == \E prefix \in prefixes : IsPrefix(prefix, watched)

\* invalidateQueries fetches a mounted query anew and drops a request under way, except
\* the first one, which it joins. A query off screen is only marked, and is fetched in
\* any case when it is mounted.
Joins == data = "none" /\ fetch \in {"fresh", "old"}

Invalidate ==
  /\ fetch' = IF OnScreen /\ ~Joins THEN "asked" ELSE fetch
  /\ lapses' = IF OnScreen /\ Joins THEN lapses \cup {"joined"} ELSE lapses

\* Another window, a job or the Telegram bot changes what the query shows. If it is a new
\* notification the gateway may tell this window, which invalidates then (useSocket).
Elsewhere(told) ==
  /\ told => screen # "login" /\ Reached({<<"notifications">>, <<"notifications-unread-count">>})
  /\ ServerChanges("elsewhere")
  /\ fetch' = IF told /\ OnScreen /\ ~Joins THEN "asked" ELSE Aged(fetch)
  /\ UNCHANGED <<watched, viewer, screen, bellOpen, mutation, windowFaults, visits>>

\* A mutation is sent from the page it is offered on; its button is disabled meanwhile.
\* Those that change nothing the query shows could only move the page, as Visit does.
Mutate(m) ==
  /\ mutation = NoMutation /\ watched \in Mutations[m].changes
  /\ m \in OnPage(screen, viewer, bellOpen).offers
  /\ mutation' = [name |-> m, page |-> screen, done |-> FALSE]
  /\ UNCHANGED <<watched, viewer, screen, bellOpen, data, fetch, lapses, boundVars>>

\* Whether the hook of a mutation invalidates the query.
Reaches(m) == Reached(Mutations[m].drops)

\* The server carries it out; the reader may have left the page it was sent from.
Commit ==
  /\ mutation # NoMutation /\ ~mutation.done
  /\ mutation' = [mutation EXCEPT !.done = TRUE]
  /\ ServerChanges(IF screen = mutation.page \/ Reaches(mutation.name) THEN "own" ELSE "left")
  /\ fetch' = Aged(fetch)
  /\ UNCHANGED <<watched, viewer, screen, bellOpen, windowFaults, visits>>

\* onSuccess: the hook invalidates; then the page, if it is still there, may go on:
\* the new ticket is opened, a deleted one left; after a restore the user is signed out.
Succeed ==
  LET m == mutation.name IN
  /\ mutation.done
  /\ \/ m = "restore" /\ CacheCleared
     \/ /\ m # "restore" /\ Reaches(m)
        /\ Invalidate /\ mutation' = NoMutation
        /\ UNCHANGED <<screen, bellOpen, data>>
     \/ /\ m # "restore" /\ ~Reaches(m)
        /\ IF m \in {"create", "delete"} /\ screen = mutation.page
           THEN Remount(IF m = "create" THEN "ticket" ELSE "tickets", FALSE)
           ELSE UNCHANGED <<screen, bellOpen, fetch, lapses>>
        /\ mutation' = NoMutation /\ UNCHANGED data
  /\ UNCHANGED <<watched, viewer, boundVars>>

\* onError: nothing is invalidated, whether the server refused or its answer was lost.
Fail ==
  /\ mutation # NoMutation
  /\ windowFaults < MaxWindowFaults /\ windowFaults' = windowFaults + 1
  /\ mutation' = NoMutation
  /\ lapses' = IF mutation.done THEN lapses \cup {"unanswered"} ELSE lapses
  /\ UNCHANGED <<watched, viewer, screen, bellOpen, data, fetch, windowChanges, visits>>

\* The server reads for the query; the answer arrives, or the retry fails as well.
Serve ==
  /\ fetch = "asked" /\ ~Refused(watched, viewer)
  /\ fetch' = "fresh"
  /\ UNCHANGED <<watched, viewer, screen, bellOpen, data, mutation, lapses, boundVars>>

Receive ==
  /\ fetch \in {"fresh", "old"}
  /\ data' = fetch /\ fetch' = "none"
  /\ lapses' = IF fetch = "fresh" THEN {} ELSE lapses
  /\ UNCHANGED <<watched, viewer, screen, bellOpen, mutation, boundVars>>

FetchFails ==
  /\ fetch = "asked"
  /\ IF Refused(watched, viewer) THEN UNCHANGED windowFaults
     ELSE windowFaults < MaxWindowFaults /\ windowFaults' = windowFaults + 1
  /\ fetch' = "none" /\ lapses' = lapses \cup {"failed"}
  /\ UNCHANGED <<watched, viewer, screen, bellOpen, data, mutation, windowChanges, visits>>

\* The window gets the focus with the data past its stale time, Retry is pressed, or the
\* interval of a query that has one is over.
Refetch ==
  /\ OnScreen /\ fetch = "none"
  /\ data # "none" \/ lapses # {}
  /\ fetch' = "asked"
  /\ UNCHANGED <<watched, viewer, screen, bellOpen, data, mutation, lapses, boundVars>>

Polled == watched = UnreadKey

ConsoleNext ==
  \/ \E p \in Anywhere : Visit(p) \/ Load(p)
  \/ \E m \in DOMAIN Mutations : Mutate(m)
  \/ \E told \in BOOLEAN : Elsewhere(told)
  \/ Bell \/ LogOut \/ Commit \/ Succeed \/ Fail
  \/ Serve \/ Receive \/ FetchFails \/ Refetch

\* Requests are answered, and the unread count has an interval.
ConsoleFairness == WF_windowVars(Serve \/ Receive) /\ WF_windowVars(Polled /\ Refetch)

ConsoleSpec == ConsoleInit /\ [][ConsoleNext]_windowVars /\ ConsoleFairness

\* Every variable has its type.
ConsoleTypeOK ==
  /\ watched \in Watch /\ viewer \in AnyRole
  /\ screen \in PagesOf(viewer) \cup {"login"} /\ bellOpen \in BOOLEAN
  /\ data \in {"none", "fresh", "old"} /\ fetch \in {"none", "asked", "fresh", "old"}
  /\ mutation.name \in DOMAIN Mutations \cup {"none"}
  /\ lapses \subseteq {"own", "left", "elsewhere", "joined", "unanswered", "failed"}

\* A change made from this window is on its screen once the mutation has settled and no
\* request is under way: data on screen is old only if it changed elsewhere, a request failed
\* or went unanswered, a request had to be joined that the server had already read for, or
\* the reader had left for a page that the mutation's hook does not know of (use-*.ts hooks).
OwnChangesShown ==
  data = "old" /\ fetch = "none" /\ mutation = NoMutation
    => lapses \cap {"elsewhere", "joined", "unanswered", "failed", "left"} # {}

\* Own changes are shown, and a window left alone on a page comes to show the right unread
\* count (use-*.ts hooks, the refetchInterval of useUnreadCount).
ScreensCatchUp ==
  /\ [](OnScreen => OwnChangesShown)
  /\ []<>(Polled => data = "fresh" \/ screen = "login")
================================================================================
