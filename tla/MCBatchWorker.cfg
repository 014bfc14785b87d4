CONSTANTS
  a = a
  b = b
  p1 = p1
  p2 = p2
  Items = {a, b}
  Clients = {p1, p2}
  BatchSize = 2
  MaximumQueueSize = 1
  NumberOfThreads = 2
  MaxRetryTimes = 1
  Failing = {a}
  MaxStarts = 2
  MaxStops = 1
SPECIFICATION Spec
INVARIANTS
  TypeOK
  ItemsAccounted
PROPERTY Served
CHECK_DEADLOCK FALSE
