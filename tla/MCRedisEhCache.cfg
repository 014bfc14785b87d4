CONSTANTS
  n1 = n1
  n2 = n2
  r1 = r1
  None = None
  Nodes = {n1, n2}
  Readers = {r1}
  Home <- MCHome
  Writers = {n1}
  Refreshing = {n2}
  Absent = {1}
  MaxWrites = 2
  MaxFaults = 2
SPECIFICATION Spec
INVARIANTS
  StaleExplained
PROPERTY Converges
CHECK_DEADLOCK FALSE
