\* Is a deadline left on an open ticket whose configuration is inactive?
SPECIFICATION SlaSpec
CONSTANTS
  None = None
  r1 = r1  w1 = w1  w2 = w2
  adam = adam  high = high  low = low
  Tickets = {1}
  Requests = {r1}
  Users = {adam}
  Priorities = {high, low}
  EditedUsers = {}
  EditedRoles = {}
  MaxRows = 3
  MaxFieldRows <- MCMaxFieldRows
  UserTable0 <- MCUserTable
  SlaTable0 <- MCSlaTable
  Workers = {w1, w2}
  BatchSize = 1
  Patches <- MCPatches
  NewConfigs <- MCNewConfigs
  Instants = {0, 5}
  MaxEdits = 1
  MaxFaults = 1
INVARIANT NoStaleSlaValues
\* A request waits at a bound.
CHECK_DEADLOCK FALSE
