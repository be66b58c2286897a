\* Can maintenance be switched off under a restore?
SPECIFICATION MaintSpec
CONSTANTS
  None = None
  w1 = w1  w2 = w2  i1 = i1  g1 = g1
  Workers = {w1, w2}
  Instances = {i1}
  Guests = {g1}
  MaxBackups = 3
  MaxFaults = 0
SYMMETRY WorkerSymmetry
PROPERTY NeverOffDuringRestore
\* A request waits at a bound.
CHECK_DEADLOCK FALSE
