CONSTANTS
  n1 = n1
  n2 = n2
  a1 = a1
  a2 = a2
  c1 = c1
  c2 = c2
  k1 = k1
  k2 = k2
  d1 = d1
  d2 = d2
  None = None
  Nodes = {n1, n2}
  Adders = {a1}
  Callers = {c1}
  Home <- MCHome
  Objects = {k1}
  Dependencies = {d1}
  DependsOn <- MCDependsOn
  Capacity = 4
  Expirable = {d1}
  MaxWatchers = 1
  MaxFaults = 0
SPECIFICATION Safety
INVARIANT CachedIsWatched
CHECK_DEADLOCK FALSE
