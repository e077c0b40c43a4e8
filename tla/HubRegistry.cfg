\* One node of the hub, registered up to three times, and a call of it.
\* Liveness is checked: no symmetry.
SPECIFICATION FairCallSpec
CONSTANTS
  Socket = {s1, s2, s3}
  NoSocket = NoSocket
  HeartbeatTimeout = 2
  MaxRegistrations = 3
  Call = {c1}
  CallTimeout = 1
  Id = {"a", "b", "c", "d"}
  NoId = "none"
INVARIANTS LeakBound KeepsTrying OnlineIsBacked OneRegistration TopologyExact
PROPERTIES CallsEnd RefusedWhenDown
