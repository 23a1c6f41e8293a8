CONSTANTS
  SessionIds = {s1}
  Peers = {p1, p2}
  Requests = {r1, r2}
  IdleTTL = 2
  HardTTL = 3
  MaxTime = 5
SPECIFICATION Spec
INVARIANTS TypeOK SlidingExpiry LogoutIsFinal AuditAccountsForSessions
INVARIANTS TimeoutIsFinal ActivityExtendsSession
CHECK_DEADLOCK FALSE
