\* Do the lights come right after whatever raced?
SPECIFICATION SlaSpec
CONSTANTS
  None = None
  r1 = r1  w1 = w1  w2 = w2
  adam = adam  high = high  low = low
  Tickets = {1}
  Requests = {r1}
  Users = {adam}
  Priorities = {high}
  EditedUsers = {}
  EditedRoles = {}
  MaxRows = 5
  MaxFieldRows <- MCReopenRows
  UserTable0 <- MCUserTable
  SlaTable0 <- MCSlaTable
  Workers = {w1, w2}
  BatchSize = 1
  Patches <- MCOnePatch
  NewConfigs = {}
  Instants = {4}
  MaxEdits = 1
  MaxFaults = 1
PROPERTIES
  LightsConverge
\* A request waits at a bound.
CHECK_DEADLOCK FALSE
