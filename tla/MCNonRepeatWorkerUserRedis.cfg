CONSTANTS
  n1 = n1
  n2 = n2
  d1 = d1
  d2 = d2
  w1 = w1
  w2 = w2
  o1 = o1
  o2 = o2
  Nodes = {n1, n2}
  Data = {d1, d2}
  Home <- MCHome
  Threads = {w1, w2}
  Objects = {o1, o2}
  Times = {t1}
  None = None
  MaxRetryTimes <- MCMaxRetryTimes
  ReputInQueue = TRUE
  MaxPuts = 2
  Failing = {d2}
  Overruns = {d1}
  MaxFaults = 1
SPECIFICATION Spec
INVARIANTS
  TypeOK
  QueueMatchesKeys
  OneRunUntilKeyLost
  ObjectsAccounted
PROPERTIES
  NothingVanishes
  QueuedIsServed
CHECK_DEADLOCK FALSE
