\* Reconnecting a node behind an ssh tunnel.
SPECIFICATION FairSpec
CONSTANTS
  Socket = {s1, s2}
  Transport = {t1}
  NoSocket = NoSocket
  NoTransport = NoTransport
  Ssh = TRUE
  MaxReconnectAttempts = 2
  MaxDials = 1
PROPERTY SshReconnects
CHECK_DEADLOCK FALSE
