\* The registry's status against the transport's.
SPECIFICATION SteadySpec
CONSTANTS
  Socket = {s1, s2}
  Transport = {t1}
  NoSocket = NoSocket
  NoTransport = NoTransport
  Ssh = FALSE
  MaxReconnectAttempts = 2
  MaxDials = 1
INVARIANT RegistryTracksTransport
CHECK_DEADLOCK FALSE
