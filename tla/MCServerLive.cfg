\* One sub loop, one connection, one request and two workers: what must happen does.
SPECIFICATION FairSpec
CONSTANTS
  NSub = 1
  Workers = {w1, w2}
  User = User
  MaxConns = 1
  MaxReqs = 1
INVARIANTS
  PermitPerJob
PROPERTIES
  PostedIsRun
  DestructorReturns
CHECK_DEADLOCK FALSE
