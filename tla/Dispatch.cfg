\* Requests to two nodes, every kind, with timers, closes and late replies.
SPECIFICATION FairSpec
CONSTANTS
  n1 = n1
  n2 = n2
  Node = {n1, n2}
  Pooled = {n1, n2}
  Targets <- MCTargets
  Request = {r1, r2}
  Kinds = {"agent", "delegate", "message", "forward"}
  RpcTimeout = 1
INVARIANTS CountsExact PendingIsInFlight ClientAgrees
PROPERTIES Balanced EveryRequestEnds
CHECK_DEADLOCK FALSE
