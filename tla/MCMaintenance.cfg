\* Backups, restores and the flag, in every order.
SPECIFICATION MaintSpec
CONSTANTS
  None = None
  w1 = w1  w2 = w2  i1 = i1  g1 = g1
  Workers = {w1, w2}
  Instances = {i1}
  Guests = {g1}
  MaxBackups = 3
  MaxFaults = 1
SYMMETRY WorkerSymmetry
INVARIANTS
  MaintTypeOK
  LocksHeld
  SourceComplete
PROPERTIES
  DropIsBackedUp
  QuietDuringRestore
\* A backup waits at the bound of directories.
CHECK_DEADLOCK FALSE
