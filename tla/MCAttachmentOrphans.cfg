\* Does the clean-up remove orphans only?
SPECIFICATION StoreSpec
CONSTANTS
  None = None
  r1 = r1  r2 = r2  t1 = t1  c1 = c1
  Tickets = {t1}
  Requests = {r1, r2}
  Cleaners = {c1}
  MaxPerTicket = 2
  CommentSizes = {1, 2}
  MaxFiles = 3
  MaxFaults = 0
PROPERTY OnlyOrphansRemoved
\* A request waits at a bound.
CHECK_DEADLOCK FALSE
