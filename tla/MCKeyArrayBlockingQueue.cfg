CONSTANTS
  x = x
  y = y
  Null = Null
  Capacity = 2
  Elements = {x, y, z}
  Threads = {t1, t2, t3}
  Iterators = {}
  Methods = {"put", "timedOffer", "offer", "take", "timedPoll", "poll", "clear", "drainTo"}
  Contents <- MCContents
  MaxSerial = 0
  MaxRemoves = 0
SPECIFICATION Spec
INVARIANT KeysMatchItems
PROPERTIES
  NoThreadForgotten
  FifoSpec
