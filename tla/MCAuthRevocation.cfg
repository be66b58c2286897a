\* Is every token in Redis one of the password the account has now?
SPECIFICATION AuthSpec
CONSTANTS
  None = None
  r1 = r1  r2 = r2  d1 = d1  d2 = d2
  Users = {ann}
  Devices = {d1, d2}
  Requests = {r1, r2}
  MaxFailed = 2
  MaxTokens = 3
  MaxPasswords = 2
SYMMETRY AuthSymmetry
INVARIANT RevocationComplete
\* A request waits at a bound.
CHECK_DEADLOCK FALSE
