CONSTANTS
  x = x
  y = y
  Null = Null
  Capacity = 3
  Elements = {x, y, z}
  Threads = {t1}
  Iterators = {i1}
  Methods = {"offer"}
  Contents <- MCEmpty
  MaxSerial = 3
  MaxRemoves = 0
SPECIFICATION Safety
INVARIANT ContainsIsExact
CHECK_DEADLOCK FALSE
