CONSTANTS
  x = x
  y = y
  Null = Null
  Capacity = 2
  Elements = {x, y, z}
  Threads = {t1, t2, t3}
  Iterators = {}
  Methods = {"put", "take"}
  Contents <- MCContents
  MaxSerial = 0
  MaxRemoves = 0
SPECIFICATION Spec
PROPERTY PutWaitsForSpace
CHECK_DEADLOCK FALSE
