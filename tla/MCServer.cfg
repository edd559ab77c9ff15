\* Two sub loops, two connections, one request, one worker, and the destructor at any moment.
SPECIFICATION Spec
CONSTANTS
  NSub = 2
  Workers = {w1}
  User = User
  MaxConns = 2
  MaxReqs = 1
INVARIANTS
  TypeOK
  WakeupPending
  LatePostsAreThePools
  NoStrandedBacklog
PROPERTIES
  AcceptorQuiet
CHECK_DEADLOCK FALSE
