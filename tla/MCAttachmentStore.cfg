\* Uploads, comments, deletions and the clean-up on the same files.
SPECIFICATION StoreSpec
CONSTANTS
  None = None
  r1 = r1  r2 = r2  t1 = t1  c1 = c1
  Tickets = {t1}
  Requests = {r1, r2}
  Cleaners = {c1}
  MaxPerTicket = 2
  CommentSizes = {1, 2}
  MaxFiles = 3
  MaxFaults = 1
INVARIANTS
  StoreTypeOK
  PerTicketLimit
  RecordedKept
  NothingLeftByUploads
PROPERTIES
  LeftoversRemoved
\* A request waits at the bound of files.
CHECK_DEADLOCK FALSE
