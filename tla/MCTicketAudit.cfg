\* Does every change of a ticket keep its row in the history?
SPECIFICATION Spec
CONSTANTS
  None = None
  t1 = t1  r1 = r1  r2 = r2
  adam = adam  sue = sue
  high = high
  Tickets = {t1}
  Requests = {r1, r2}
  Users = {adam, sue}
  Priorities = {high}
  EditedUsers = {sue}
  EditedRoles = {"ITSupport"}
  MaxRows = 5
  MaxFieldRows <- MCMaxFieldRows
  UserTable0 <- MCUserTable
  SlaTable0 <- MCSlaTable
SYMMETRY RequestSymmetry
INVARIANT AuditTrailComplete
\* A request waits at a bound.
CHECK_DEADLOCK FALSE
