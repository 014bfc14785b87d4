CONSTANTS
  la = la
  lb = lb
  lc = lc
  a = a
  b = b
  t1 = t1
  t2 = t2
  Nobody = Nobody
  Locks <- MCLocks
  Keys <- MCKeys
  Tokens <- MCTokens
  KeysOf <- MCKeysOf
  TokenOf <- MCTokenOf
  MaxFaults = 1
SPECIFICATION Spec
INVARIANTS
  TypeOK
  Exclusion
  AllOrNothing
  OrphanExplained
  RobbedByTwin
PROPERTIES
  LeaseSpec
  WaiterServed
  ShutdownEndsWaiting
