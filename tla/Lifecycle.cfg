\* Two commands at once and up to two daemon processes.
SPECIFICATION FairSpec
CONSTANTS
  Command = {c1, c2}
  Daemon = {d1, d2}
  None = None
INVARIANTS KnownDaemon
PROPERTIES ReportsTrue CommandsEnd
CHECK_DEADLOCK FALSE
