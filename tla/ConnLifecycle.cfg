SPECIFICATION Spec
CONSTANTS
  Socket = {s1, s2}
  Transport = {t1, t2, t3}
  NoSocket = NoSocket
  NoTransport = NoTransport
  Ssh = TRUE
  MaxReconnectAttempts = 2
  MaxDials = 2
SYMMETRY SocketSymmetry
INVARIANTS LeakBound ConnectedIsBacked
PROPERTIES RemovedStaysQuiet
\* A stable, connected (or given up) system rests.
CHECK_DEADLOCK FALSE
