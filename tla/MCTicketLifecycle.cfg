\* Every interleaving of two requests on one ticket.
SPECIFICATION Spec
CONSTANTS
  None = None
  t1 = t1  r1 = r1  r2 = r2
  adam = adam  sue = sue
  high = high
  Tickets = {t1}
  Requests = {r1, r2}
  Users = {adam, sue}
  Priorities = {high}
  EditedUsers = {sue}
  EditedRoles = {"ITSupport"}
  MaxRows = 5
  MaxFieldRows <- MCMaxFieldRows
  UserTable0 <- MCUserTable
  SlaTable0 <- MCSlaTable
SYMMETRY RequestSymmetry
INVARIANTS
  TypeOK
  DatesMatchStatus
  StatusTrailLinked
  AssignmentTrailLinked
PROPERTIES
  StatusMovesAuthorised
  ImplementsWorkflow
\* MaxRows stops the requests, and the last account that may be edited can be deleted.
CHECK_DEADLOCK FALSE
