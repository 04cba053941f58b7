SPECIFICATION Spec
CONSTANTS
  u1 = u1
  u2 = u2
  n1 = n1
  Users <- SomeUsers
  Names <- SomeNames
  MaxWrites = 2
  MaxBreaks = 1
INVARIANTS
  TypeOK
  WaitedIsFilled
  CacheIsServedButPrepare
PROPERTIES
  CacheCatchesUp
  UsersGetReady
CHECK_DEADLOCK FALSE
