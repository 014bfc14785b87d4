CONSTANTS
  j1 = j1
  j2 = j2
  w1 = w1
  w2 = w2
  c1 = c1
  None = None
  Jobs = {j1, j2}
  TasksOf <- MCTasksOf
  Delays <- MCDelays
  Controlled = {j2}
  Listed <- MCListed
  Threads = {w1, w2, c1}
  ControlThreads = {c1}
  MaxFaults = 1
  MaxSwitches = 2
SPECIFICATION Spec
INVARIANTS
  TypeOK
  JobAccounted
  NoSuccessRepeated
  FailedForGood
PROPERTY JobEnds
CHECK_DEADLOCK FALSE
