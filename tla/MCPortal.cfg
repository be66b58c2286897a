\* One part at a time, each at its own bounds.
SPECIFICATION PortalSpec
CONSTANTS
  u1 = u1  u2 = u2  u3 = u3  s1 = s1  s2 = s2  s3 = s3  e1 = e1  a1 = a1  c1 = c1  c2 = c2
  b1 = b1  b2 = b2  f1 = f1  g1 = g1  h1 = h1  d1 = d1  d2 = d2  t1 = t1  p1 = p1
  cat = cat  sub1 = sub1  sub2 = sub2  loc = loc  faq = faq
  None = None  Nobody = Nobody  Nil = Nil  Keep = Keep  Boot = Boot  Absent = Absent  Void = Void
  NoFilter = NoFilter
  Sockets = {s1, s2, s3}  People = {u1}  MaxSockets = 2  MaxSwitches = 2
  Users = {u1, u2, u3}  Support = {u1, u2}  Events = {e1}
  PoolLimit = 1  MaxInsertFaults = 1  MaxToggles = 1
  Editors = {e1}  Admins = {a1}  Chats = {c1, c2}  TakenChats = {c2}  BotTokens = {b1, b2}  GoodTokens = {b1}
  MaxFailures = 2  MaxStarts = 2  MaxCodes = 1  MaxMessages = 1  MaxBotFaults = 1
  Forms = {f1}  Profiles <- MCProfiles  Groups = {g1}  Linkable = {h1, g1}  Dispatches = {d1}
  MaxSaves = 1  MaxOutFaults = 1
  Filed = {t1}  States = {"Open", "Resolved"}  Levels = {"High", "Low"}  Pages = {p1}
  Presets = {"90d"}  CustomRanges = {}  Asked = {"current", "trend"}  FirstDay = 104
  MaxChanges = 2  MaxCacheFaults = 1
  MaxTicket = 4  FirstTickets = {1, 2, 3}  Row0 <- MCRow0  Requesters = {u1, u2}
  BatchSize = 2  MaxExportRows = 3  MaxMoves = 1
  Requests = {"a", "b"}  Uploads = {}  MaxTokens = 2  MaxNetFaults = 1
  Cats = {cat}  Subs = {sub1, sub2}  Locs = {loc}  Faqs = {faq}  ParentOf <- MCParent
  FirstItems = {cat, sub1, loc}  Filings = {t1}  Desks = {d1, d2}  Names = {"n", "m"}
  MaxEdits = 2  MaxSlips = 1
  Watch <- MCWatch  MaxWindowChanges = 1  MaxWindowFaults = 1  MaxVisits = 1
INVARIANTS
  PortalTypeOK
  HearersAccountable
  OncePerEvent
  BotFollowsItsSettings
  SettingsAndMessagesAgree
  NumbersAddUp
  ListsAgree
  ExportComplete
  MasterDataSound
PROPERTIES
  DeactivatedFallSilent
  EveryoneTold
  BotSettles
  DashboardCatchesUp
  RequestsSettle
  ScreensCatchUp
\* Requests and the bounds run out.
CHECK_DEADLOCK FALSE
