\* Two requests race with tokens, devices, passwords and the account.
SPECIFICATION AuthSpec
CONSTANTS
  None = None
  r1 = r1  r2 = r2  d1 = d1  d2 = d2
  Users = {ann}
  Devices = {d1, d2}
  Requests = {r1, r2}
  MaxFailed = 1
  MaxTokens = 3
  MaxPasswords = 2
SYMMETRY AuthSymmetry
INVARIANTS
  AuthTypeOK
  SingleSuccessor
  DeadStayDead
  DeviceChain
  BoundedGuesses
\* A request waits at the bound of tokens or passwords.
CHECK_DEADLOCK FALSE
