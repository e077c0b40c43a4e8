\* One url node that stays registered, dialed once or twice, with the health
\* monitor. Liveness: no symmetry.
SPECIFICATION FairHealthSpec
CONSTANTS
  Socket = {s1, s2}
  Transport = {t1}
  NoSocket = NoSocket
  NoTransport = NoTransport
  Ssh = FALSE
  MaxReconnectAttempts = 2
  MaxDials = 2
  ErrorWindow = 1
  Unhealthy = 3
INVARIANTS
  OneLinkPerDial KeepsTrying StatusTruthful RegistryNeverOptimistic
  VerdictFounded
PROPERTIES Reconnects LinkSpec
\* A stable, connected (or given up) system rests.
CHECK_DEADLOCK FALSE
