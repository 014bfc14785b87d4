CONSTANTS
  x = x
  y = y
  Null = Null
  Capacity = 3
  Elements = {x, y, z}
  Threads = {t1}
  Iterators = {i1}
  Methods = {"offer", "poll", "remove", "clear", "drainTo"}
  Contents <- MCEmpty
  MaxSerial = 7
  MaxRemoves = 1
SPECIFICATION Safety
SYMMETRY MCSymmetry
INVARIANTS
  TypeOK
  Ring
  IteratorInStep
  NothingSkipped
PROPERTIES
  IterationInOrder
  RemovesWhatItReturned
CHECK_DEADLOCK FALSE
